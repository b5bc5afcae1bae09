SPECIFICATION Spec
CONSTANTS
    Page = {p1}
    Id = {a}
    MaxVersion = 2
    Capacity = 2
    Selects = TRUE
    Admin = admin
INVARIANTS
    TypeOK
    OpenWhileOffered
    ViewSettles
PROPERTIES
    BroadcastEnds
    DeadPageReleased
CHECK_DEADLOCK FALSE
