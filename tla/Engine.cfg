SPECIFICATION Spec
CONSTANTS
    None = None
    Tier = Tier
    Blank = Blank
    MaxPeek = 3
    MaxText = 3
    MaxStream = 5
    MaxRules = 2
INVARIANTS
    PartsAreIndependent
    ReplaySendsTheSame
    CutsOnlyHideMatches
    EarlyRefusalIsSeen
    RetryIsAcceptable
CHECK_DEADLOCK FALSE
