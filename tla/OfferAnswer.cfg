SPECIFICATION Spec
CONSTANTS
    None = None
    Peers = {p1, p2}
    HasRtcp = TRUE
    InitialRole = None
    OfferRoles = {"actpass", "passive"}
    AnswerRoles = {"active", "passive"}
    Credentials = {u1, None}
    LocalFps = {None, "own", "other"}
    MaxOffers = 2
    MaxInFlight = 2
SYMMETRY Symmetry
CHECK_DEADLOCK FALSE
INVARIANTS
    MuxAgrees
    DtlsAgrees
    RolesAreOpposite
    RtcpHasAChannel
