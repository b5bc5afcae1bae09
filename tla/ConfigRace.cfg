SPECIFICATION Spec
CONSTANTS
    Operator = {o1, o2}
    Model = {opus, sonnet}
    DefaultModel = opus
    RuleSet = {none, some}
    NoRules = none
    MaxFailed = 1
    None = None
INVARIANT SettledSurvives
CHECK_DEADLOCK FALSE
