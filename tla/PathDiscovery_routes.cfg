SPECIFICATION Spec
CONSTANTS
    Nodes = {"a", "b", "c", "d", "e", "f"}
    Edges = {{"a", "b"}, {"b", "c"}, {"c", "d"}, {"e", "f"}}
    Requesters = {"a", "e"}
    Destination = "c"
    Announcers = {"a", "d"}
    MaxHops = 4
    MaxQueue = 3
    MaxFaults = 2
INVARIANTS
    RoutesReachable
    RoutesLeadAway
    AnnounceReach
CHECK_DEADLOCK FALSE
