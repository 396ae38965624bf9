SPECIFICATION Spec
CONSTANTS
    Commits = {c1, c2}
    Old = Old
    Person = Person
    None = None
    SameText = FALSE
    Limit = 1
    Worlds <- AllWorlds
SYMMETRY Symmetry
INVARIANTS OverwriteReported KeptBeforeItLands LimitHolds
PROPERTIES StopsHold UnrecordedStops
CHECK_DEADLOCK FALSE
