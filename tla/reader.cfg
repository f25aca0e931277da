CONSTANTS
    RawSlots = 2
    OutputQueueSize = 2
    DropPolicy = "drop_oldest"
    MaxSubmits = 4
    None = None
    ShutdownCanFail = FALSE
    ProcessLimit = 2
    SubmitCanFail = TRUE
SPECIFICATION ReaderSpec
INVARIANTS
    ReaderTypeOK
    LatestIsReturned
    UsedReaderReleases
PROPERTIES
    CallsReturn
