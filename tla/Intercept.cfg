SPECIFICATION Spec
CONSTANTS
    Request = {r1, r2}
    Operator = {o1, o2}
    Decision = {forward, drop}
    NoDecision = NoDecision
INVARIANTS
    TypeOK
    FirstAcceptedWins
    PendingIsInside
PROPERTY PromiseKept
CHECK_DEADLOCK FALSE
