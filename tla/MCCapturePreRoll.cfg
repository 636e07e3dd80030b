SPECIFICATION Spec
CONSTANTS
    MinInterval = 2
    LightInterval = 3
    HeavyInterval = 5
    WindowMs = 10
    TimeOrigin = 1000
    FlagIds = {f1, f2}
    MaxTime = 14
INVARIANTS
    PreRollKept
CHECK_DEADLOCK FALSE
