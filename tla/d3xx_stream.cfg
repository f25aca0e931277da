CONSTANTS
    RawSlots = 3
    OutputQueueSize = 2
    DropPolicy = "drop_oldest"
    MaxSubmits = 6
    None = None
    MaxWorkers = 1
SPECIFICATION D3xxStreamSpec
INVARIANTS
    D3xxStreamTypeOK
    InOrder
PROPERTIES
    ImplementsStreamingSystem
