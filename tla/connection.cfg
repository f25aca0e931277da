CONSTANTS
    None = None
    VendorId <- MCVendorId
    ProductIds <- MCProductIds
    ProductStrings <- MCProductStrings
    Boards <- MCBoards
    Buses <- MCBuses
    ReadAttempts = 2
    MaxCommandId = 27
    MaxUsed = 3
SPECIFICATION Spec
INVARIANTS
    TypeOK
    ConnectedMeansConfigured
    DrivesTheListedBoard
    CommandNumbersAreFresh
    TransfersAreAnnounced
    TimeoutsAreRestored
PROPERTIES
    NothingElseIsLeft
    CallsEnd
