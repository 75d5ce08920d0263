SPECIFICATION Spec
CONSTANTS
    Sessions = {s1, s2}
    Keys <- MCKeys
    Lengths = {12, 28}
    MaxLeak = 1
INVARIANTS
    LibsrtpFollowsUse
    KeyIsKnown
