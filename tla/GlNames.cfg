CONSTANTS
    o1 = o1
    o2 = o2
    o3 = o3
    Objects = {o1, o2, o3}
    NoObject = NoObject
    Kinds = {"texture", "renderbuffer"}
    MaxId = 3
    MaxArray = 2
    Half = 128
    Widths = {0, 1, 3, 11}
    Heights = {0, 1, 2}
    RowLengths = {0, 5, 70}
    Skips = {0, 1}
    Rooms = {10, 40, 100}
SPECIFICATION ContextSpec
SYMMETRY ObjectSymmetry
INVARIANTS
    TablesMatchGl ClientHoldsNames TypeOK
    ShortOnlyForSkippedRows ThrowsOnlyWhenShort
PROPERTY NamesAreFinal
CHECK_DEADLOCK FALSE
