SPECIFICATION Spec
CONSTANTS
    Transports = {d1, d2}
    Watched = {d1}
    Null = Null
INVARIANTS
    IcePointerIsLive
    SnapshotsAreCurrent
    WithoutDtlsOnlyIfLate
    CrashNeedsStaleSubscription
PROPERTIES
    ClosedIsFinal
    TakenIsReleased
CHECK_DEADLOCK FALSE
