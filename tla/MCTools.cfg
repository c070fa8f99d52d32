SPECIFICATION MCSpec
CONSTANTS
    timer = timer
    user = user
    None = None
    Procs = {timer, user}
    Timer = timer
    MaxNum = 2
    MaxUuid = 2
    Commands <- MCCommands
    MaxUserRuns = 1
    MaxChanges = 1
    MaxFaults = 1
    ZyppPlugins = {z1, z2}
    PamHandles = {p1}
    CreateCommands = {c1}
    MaxPairSnapshots = 4
    MaxProcesses = 2
    MaxPairMishaps = 1
    Numbers = {1, 2, 3, 4}
    Unmanaged = {8}
    Runs = {r1, r2}
    MaxStarts = 2
    MaxMkFaults = 1
    MaxEdits = 1
 
 
INVARIANT StompRight
INVARIANT MksubvolumeRight
 
 
