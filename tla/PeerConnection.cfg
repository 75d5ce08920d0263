SPECIFICATION Spec
CONSTANTS
    MaxRemote = 2
    MaxOffers = 2
    MaxFrames = 2
    MaxQueue = 4
    MaxRtcp = 2
INVARIANTS
    CallbacksFindTheirObjects
    OrderlyUseIsSafe
    FreedControllerIsQuiet
PROPERTY
    OffersTakeEffect
CHECK_DEADLOCK FALSE
