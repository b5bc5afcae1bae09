SPECIFICATION Spec
CONSTANTS
    Page = {p1}
    Id = {a, b}
    MaxVersion = 2
    Capacity = 2
    Selects = TRUE
    Admin = admin
INVARIANT LoadedIsComplete
CHECK_DEADLOCK FALSE
