SPECIFICATION Spec
CONSTANTS
    Request = {r1}
    Operator = {o1, o2}
    Incoming <- IncomingDef
    Edit <- EditDef
    RuleTarget <- RuleTargetDef
    Omitted = "omitted"
    NoDecision = NoDecision
    None = None
    MaxCaptures = 1
INVARIANTS
    TypeOK
    DropHolds
    SentAsDecided
    CaptureShowsSent
    PublishedIsCurrent
PROPERTY DecidedRequestsFinish
CHECK_DEADLOCK FALSE
