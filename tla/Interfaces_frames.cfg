SPECIFICATION FairSpec
CONSTANTS
    Kinds = {"tcp_client", "tcp_server", "serial"}
    Capacity = 1
    MaxStarts = 2
    MaxWrites = 4
    MaxSends = 1
    MaxConns = 2
    Oversized = {2}
    MaxErrors = 1
    MaxTransmits = 2
    Speeds = {"fixed", "other"}
    Noise = {0, 126}
INVARIANTS
    FramesInOrder
    LostMeansOver
    PortReleased
PROPERTIES
    ShutdownEnds
CHECK_DEADLOCK FALSE
