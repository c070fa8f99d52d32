SPECIFICATION Spec
CONSTANTS
    MaxNum = 2
    MaxVersion = 2
    Comparer = {w1, w2}
    Overlap = FALSE
    CallMayFail = FALSE
INVARIANT NoStaleList
