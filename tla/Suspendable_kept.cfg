SPECIFICATION Spec
CONSTANTS
    Stored = {"b"}
    MaxMsgs = 2
    Senders = {"a", "b"}
    BigSenders = {"b"}
    Faults = {"lose", "dup", "restart", "close"}
INVARIANTS
    TransmittedOnce
    ActiveNeedsPeer
    AcceptedIsKept
CHECK_DEADLOCK FALSE
