CONSTANTS
    RawSlots = 2
    OutputQueueSize = 1
    DropPolicy = "drop_oldest"
    MaxSubmits = 3
    None = None
    ReadsEndAtOnce = FALSE
    StaleStatus = FALSE
    NativeCallsFail = FALSE
SPECIFICATION NativeStreamSpec
INVARIANTS
    DrainedMeansDone
