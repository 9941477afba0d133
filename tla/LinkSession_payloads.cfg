SPECIFICATION FairSpec
CONSTANTS
    RemoteIs = "identity"
    KeepaliveInterval = 1
    TrafficTimeout = 2
    StaleTime = 3
    MaxData = 1
    MaxFaults = 0
    MaxGen = 4
    Environments <- MCQuietEnvironments
PROPERTIES
    PayloadsArrive
