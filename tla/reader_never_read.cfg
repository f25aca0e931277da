CONSTANTS
    RawSlots = 2
    OutputQueueSize = 1
    DropPolicy = "drop_oldest"
    MaxSubmits = 3
    None = None
    ShutdownCanFail = FALSE
    ProcessLimit = 2
    SubmitCanFail = FALSE
SPECIFICATION ReaderSpec
INVARIANTS
    ClosedReaderReleases
