SPECIFICATION HandlerSpec
CONSTANTS
    Phones = {p1, p2}
    Results = {0, 1}
    NoRow = NoRow
    NoResult = NoResult
    SerialMod = 3
    MaxRegistrations = 2
    MaxLocations = 1
    MaxCommands = 2
    MaxParameterLogs = 1
    MaxFrames = 3
    MaxRestarts = 1
CHECK_DEADLOCK FALSE
SYMMETRY TerminalsAreAlike
INVARIANTS
    HandlerTypeOK
    AuthenticatedByCurrentCode
    SetsAreTracked
    AcksMatchAnswers
PROPERTY
    AckedIsFinal
