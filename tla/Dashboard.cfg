SPECIFICATION DashSpec
CONSTANTS
    None = None
    Phones = {p1, p2}
    Calls = {a, b}
    Budgets <- ClicksOrEnds
CHECK_DEADLOCK FALSE
INVARIANTS
    SelectedIsMarked
    StrayTrailsAreOfDoubleClicks
PROPERTIES
    OnlyTheCheckEndsItsSession
    SignInIsOffered
    DetailsSettle
