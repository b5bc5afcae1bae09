SPECIFICATION Spec
CONSTANTS
    Request = {r1}
    Kind = {"quiet", "text", "refusal"}
    ResponseRules = TRUE
    MaxPeek = 2
    MaxChunks = 3
    MaxRetried = 2
    MaxCaptures = 2
    None = None
INVARIANTS
    TypeOK
    FaithfulStream
    RetryIsJustified
    CompletedIsWhole
    PublishedIsCurrent
PROPERTIES
    OneAnswerKept
    TerminalStays
    GoneEnds
CHECK_DEADLOCK FALSE
