SPECIFICATION Spec
CONSTANTS
    Client = {c1, c2}
    Root = {c1}
    Config = {root}
    Num = {1, 2}
    Slot = {1}
    MaxCalls = 1
    MaxLocks = 1
    MaxMounts = 1
    MaxTasks = 2
    ComparisonMayFail = TRUE
INVARIANT TypeOK
INVARIANT UseCountExact
INVARIANT NoDanglingRefs
INVARIANT IdleTimerSafe
CONSTRAINT FewHeld
CHECK_DEADLOCK FALSE
