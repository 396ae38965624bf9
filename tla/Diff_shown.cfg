SPECIFICATION DiffSpec
CONSTANTS
    Nil = Nil
    Line <- Letters
    Context = 1
    Texts <- PairsOfTexts
    Bounds <- TightAndWide
INVARIANTS
    ShownLeadsThere
    ShownIsShortest
CHECK_DEADLOCK FALSE
