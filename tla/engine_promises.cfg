CONSTANTS
    RawSlots = 2
    OutputQueueSize = 1
    DropPolicy = "drop_newest"
    MaxSubmits = 4
    None = None
    ShutdownCanFail = FALSE
SPECIFICATION PollingSpec
INVARIANTS
    StatsConservation
    NoOpStopIsClosed
PROPERTIES
    StopEnds
    SlotsAreResubmitted
    ImplementsFrameStream
