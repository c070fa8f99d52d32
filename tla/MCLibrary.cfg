SPECIFICATION MCSpec
CONSTANTS
    MaxNum = 2
    MaxVersion = 3
    Comparer = {w1, w2}
    Overlap = TRUE
    CallMayFail = TRUE
    Inodes = {1, 2, 3}
    FileNames = {1, 2}
    MaxXaFaults = 1
    MaxForeign = 1
    MaxUndos = 2
    BufferSize = 3
    MaxLines = 3
    MaxLength = 2
    MaxValue = 2
    MaxSets = 2
    Users = {u1, u2}
    SDirs = {d1, d2}
    MaxTmp = 2
    MaxDirFaults = 1
    NoUser = NoUser
    Threads = {t1, t2, t3}
    Volumes = {v1, v2}
    SkipActivation = TRUE
    MaxCommands = 4
    MaxLvmFaults = 1
    QuotaNums = {1, 2}
    MaxSubvol = 2
    Batch = 2
    MaxAdmin = 1
INVARIANT ListsFresh
 
 
INVARIANT FilesReadBack
INVARIANT WorkDirSafe
INVARIANT LvmCacheRight
 
PROPERTY LibrarySteps
SYMMETRY Symmetry
