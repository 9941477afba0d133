SPECIFICATION ApiSpec
CONSTANTS
    Nodes = {"a", "b", "c"}
    Initiators = {"a"}
    Legacy = {}
    KnownPeers = TRUE
    MaxFresh = 4
    Faults = {"lose"}
    Server = "a"
    Announced = {"c"}
    Introduced = {"b"}
    Clients = {"x", "y"}
    Lines <- MCLines
INVARIANTS
    AnswersMatchLines
    
PROPERTIES
    EveryLineAnswered
    
CHECK_DEADLOCK FALSE
