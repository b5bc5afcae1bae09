SPECIFICATION Spec
CONSTANTS
    Request = {1, 2}
    None = None
    MaxTrouble = 1
    MaxPosts = 2
    MaxEvents = 2
    MaxFetches = 1
INVARIANTS
    TypeOK
    NeverForgotten
PROPERTY QueueMoves
CHECK_DEADLOCK FALSE
