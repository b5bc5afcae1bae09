SPECIFICATION Spec
CONSTANTS
    Operator = {o1}
    Model = {opus, sonnet}
    DefaultModel = opus
    RuleSet = {none, some}
    NoRules = none
    MaxFailed = 1
    None = None
INVARIANTS
    TypeOK
    SettledSurvives
    CrashIsOldOrNew
    PlannedExitKeepsAll
PROPERTY SignalEnds
CHECK_DEADLOCK FALSE
