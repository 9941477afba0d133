SPECIFICATION Spec
CONSTANTS
    Nodes = {"a", "b"}
    Initiators = {"a", "b"}
    Legacy = {"b"}
    KnownPeers = FALSE
    MaxFresh = 4
    Faults = {"lose", "dup", "stale", "restart"}
INVARIANTS
    InitiatorAuthenticated
    KeysAgree
PROPERTIES
    PendingKeepsSecrets
CHECK_DEADLOCK FALSE
