SPECIFICATION Spec
CONSTANTS
    Id = {a, b, c, d}
    Content = {x, y}
    MaxCaptures = 2
    MaxLog = 4
INVARIANTS
    TypeOK
    KeepsNewest
    MapMatchesList
CHECK_DEADLOCK TRUE
