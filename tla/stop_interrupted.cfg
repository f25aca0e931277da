CONSTANTS
    RawSlots = 2
    OutputQueueSize = 1
    DropPolicy = "drop_oldest"
    MaxSubmits = 3
    None = None
    ShutdownCanFail = TRUE
SPECIFICATION Spec
INVARIANTS
    StopCloses
