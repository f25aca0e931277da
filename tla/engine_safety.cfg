CONSTANTS
    RawSlots = 2
    OutputQueueSize = 1
    DropPolicy = "drop_oldest"
    MaxSubmits = 4
    None = None
    ShutdownCanFail = TRUE
SPECIFICATION Spec
INVARIANTS
    TypeOK
    SlotOwnership
    QueueHasRoom
    FrameIntegrity
    NoDuplicateRead
    StatsConservation
    ClosedWhenQuiet
    OutputBounded
    IndInv
