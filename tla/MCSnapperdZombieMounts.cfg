SPECIFICATION FairSpec
CONSTANTS
    Client = {c1, c2}
    Root = {c1}
    Config = {root}
    Num = {1}
    Slot = {}
    MaxCalls = 1
    MaxLocks = 0
    MaxMounts = 1
    MaxTasks = 0
    ComparisonMayFail = FALSE
PROPERTY ZombieReaped
CHECK_DEADLOCK FALSE
