SPECIFICATION Spec
CONSTANTS
    None = None
    Mids = {m1, m2, m3}
    Transports = {t1, t2, t3, t4}
    Reregister = TRUE
SYMMETRY Symmetry
CHECK_DEADLOCK FALSE
INVARIANTS
    PointersAreOwned
