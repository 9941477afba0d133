SPECIFICATION FairSpec
CONSTANTS
    Nodes = {"a", "b"}
    Edges = {{"a", "b"}}
    Requesters = {"a"}
    Destination = "z"
    Announcers = {}
    MaxHops = 3
    MaxQueue = 2
    MaxFaults = 0
PROPERTIES
    FloodEnds
CHECK_DEADLOCK FALSE
