SPECIFICATION Spec
CONSTANTS
    None = None
    RtpTransports = {r1, r2}
    RtcpTransports = {}
    ExtIds = {e0, e1}
    NoIds = e0
    ActiveResetSrtpParams = FALSE
    LibsrtpMayFail = TRUE
    PlainIce = TRUE
    MaxEpoch = 1
SYMMETRY Symmetry
INVARIANTS
    KeysAreCurrent
    WritableNeedsHandshake
    ReadyIsHonest
    IdsAreApplied
