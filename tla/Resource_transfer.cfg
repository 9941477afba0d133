SPECIFICATION Spec
CONSTANTS
    Senders = {"a", "b"}
    Resources = {"x", "y", "none", "long", "big"}
    SegmentCount = 2
    Empty = {"none"}
    TooLarge = {"big"}
    Oversized = {"long"}
    MaxSends = 2
    Faults = {"unsent"}
INVARIANTS
    PublishedIsWhole
    TransfersComplete
CHECK_DEADLOCK FALSE
