SPECIFICATION FairSpec
CONSTANTS
    RemoteIs = "destination"
    KeepaliveInterval = 1
    TrafficTimeout = 2
    StaleTime = 3
    MaxData = 1
    MaxFaults = 1
    MaxGen = 6
    Environments <- MCEnvironments
INVARIANTS
    KeyDriftBounded
PROPERTIES
    KeysMeetAgain
    ProbedBeforeStale
    DeadPeerDetected
CHECK_DEADLOCK FALSE
