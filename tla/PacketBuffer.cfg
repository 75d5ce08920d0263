SPECIFICATION Spec
CONSTANTS
    Ssrcs = {s1, s2}
    Capacity = 3
    MaxPackets = 7
INVARIANT
    OrderedUntilLeftOver
PROPERTY
    ImplementsStash
