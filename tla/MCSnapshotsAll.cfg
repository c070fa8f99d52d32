SPECIFICATION Spec
CONSTANTS
    MaxNum = 3
    MaxData = 1
    UniqueNumbers = TRUE
    Failures = {"create", "write", "undo", "modify", "delete", "filelists", "unlink"}
    MaxFailed = 2
    MaxCrashes = 1
INVARIANT TypeOK
INVARIANT NumberFresh
INVARIANT NumbersUnique
INVARIANT AllOrNothing
INVARIANT ListedExists
INVARIANT PrePostPaired
INVARIANT SystemSnapshotsKept
