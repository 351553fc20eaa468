SPECIFICATION HandlerSpec
CONSTANTS
    Phones = {p1}
    Results = {0}
    NoRow = NoRow
    NoResult = NoResult
    SerialMod = 8
    MaxRegistrations = 0
    MaxLocations = 0
    MaxCommands = 2
    MaxParameterLogs = 0
    MaxFrames = 4
    MaxRestarts = 1
INVARIANT AckedIsAnswered
