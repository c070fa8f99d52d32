SPECIFICATION Spec
CONSTANTS
    MaxNum = 3
    MaxData = 0
    UniqueNumbers = TRUE
    Failures = {"create"}
    MaxFailed = 2
    MaxCrashes = 0
INVARIANT NumbersNeverReused
