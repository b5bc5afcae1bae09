SPECIFICATION Spec
CONSTANTS
    Request = {1}
    None = None
    MaxTrouble = 1
    MaxPosts = 1
    MaxEvents = 2
    MaxFetches = 1
INVARIANT UnchangedIsUnchanged
CHECK_DEADLOCK FALSE
