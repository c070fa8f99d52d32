SPECIFICATION FairSpec
CONSTANTS
    Client = {c1, c2}
    Root = {c1}
    Config = {root}
    Num = {1, 2}
    Slot = {}
    MaxCalls = 1
    MaxLocks = 0
    MaxMounts = 0
    MaxTasks = 1
    ComparisonMayFail = FALSE
PROPERTY ZombieReaped
PROPERTY Housekeeping
CHECK_DEADLOCK FALSE
