SPECIFICATION ServerSpec
CONSTANTS
    None = None
    Conns = {c1, c2}
    Phones = {p1}
    Requests = {r1}
    MaxChunk = 1
    Speaks <- OneTerminalSpeaks
    Results = {0}
    NoRow = NoRow
    NoResult = NoResult
    SerialMod = 3
    MaxRegistrations = 0
    MaxLocations = 1
    MaxCommands = 2
    MaxParameterLogs = 0
    MaxFrames = 3
    MaxRestarts = 1
CHECK_DEADLOCK FALSE
SYMMETRY ConnectionsAreAlike
INVARIANTS
    AckedWasDelivered
    SerialsInOrder
    ConfirmedIsStored
PROPERTY
    HandlerSpec
