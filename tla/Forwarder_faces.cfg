SPECIFICATION FairSpec
CONSTANTS
    Names <- MCNames
    Interests <- MCInterests
    Data <- MCData
    ZeroHash = "zero"
    Faces = {"f", "g"}
    InFaces = {"local"}
    Costs = {1, 2}
    Capacity = 1
    MaxExpress = 2
    MaxConfig = 3
    MaxArrivals = 1
    MaxQueue = 1
    Faults = {"cancel", "link"}
INVARIANTS
    OnlyTrustedData
    ForwardedToBest
    PendingIsAwaited
PROPERTIES
    AnswersTheInterest
    ForwardedEnds
CHECK_DEADLOCK FALSE
