SPECIFICATION FairSpec
CONSTANTS
    SeqMod = 5
    Window = 3
    Mtu = 500
    PayloadSizes = {10, 480}
    Encrypted = TRUE
    Types = {"SMT_CHANNEL_DATA", "SMT_STREAM_DATA"}
    MaxSends = 4
    Faults = {"lose", "dup", "close"}
INVARIANTS
    TypeOK
    InOrder
    StopsAtBurnedNumber
    BufferStrictlyAhead
PROPERTIES
    ImplementsOrderedDelivery
    DeliveredUnlessMissing
CHECK_DEADLOCK FALSE
