SPECIFICATION Spec
CONSTANTS
    Request = {r1}
    Kind = {"quiet", "text", "refusal", "mixed"}
    ResponseRules = TRUE
    MaxPeek = 2
    MaxChunks = 2
    MaxRetried = 2
    MaxCaptures = 2
    None = None
INVARIANT RulesReachClient
CHECK_DEADLOCK FALSE
