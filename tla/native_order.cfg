CONSTANTS
    RawSlots = 2
    OutputQueueSize = 2
    DropPolicy = "drop_oldest"
    MaxSubmits = 4
    None = None
    ReadsEndAtOnce = FALSE
    StaleStatus = FALSE
    NativeCallsFail = FALSE
SPECIFICATION NativeStreamSpec
INVARIANTS
    NewestIsLast
