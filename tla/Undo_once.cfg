SPECIFICATION Spec
CONSTANTS
    Undos = {u1, u2}
    Write = Write
    Old = Old
    Left = Left
    Note = Note
    Person = Person
    None = None
    MaxEdits = 2
    Worlds <- AllWorlds
SYMMETRY Symmetry
INVARIANTS
    OverwriteAsked
    TwiceRestores
    NotSentNeverLands
    LandedIsTold
CHECK_DEADLOCK FALSE
