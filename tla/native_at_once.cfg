CONSTANTS
    RawSlots = 1
    OutputQueueSize = 1
    DropPolicy = "drop_oldest"
    MaxSubmits = 3
    None = None
    ReadsEndAtOnce = TRUE
    StaleStatus = FALSE
    NativeCallsFail = FALSE
SPECIFICATION NativeStreamSpec
INVARIANTS
    GenuineBeforeStop
