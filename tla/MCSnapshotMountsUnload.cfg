SPECIFICATION FairSpec
CONSTANTS
    Client = {c1, c2}
    MaxMounts = 1
    UIntMod = 8
    Hazards = {"unload"}
PROPERTY UnmountedAfterDisconnect
