SPECIFICATION SessionSpec
CONSTANT
    MaxBeats = 2
CHECK_DEADLOCK FALSE
INVARIANT
    MainLoopIsAuthenticated
