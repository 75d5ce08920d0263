SPECIFICATION Spec
CONSTANTS
    None = None
    RtpTransports = {r1}
    RtcpTransports = {c1}
    ExtIds = {e0}
    NoIds = e0
    ActiveResetSrtpParams = TRUE
    LibsrtpMayFail = FALSE
    PlainIce = FALSE
    MaxEpoch = 2
INVARIANT
    SrtpFollowsDtls
