SPECIFICATION MCSpec
CONSTANTS
    Client = {c1, c2, c3}
    MaxMounts = 2
    UIntMod = 8
    Hazards = {"unload", "umount", "race", "throw", "fail"}
    PipeSize = 3
    MaxTransfers = 2
    MaxMessages = 4
    PipeCapacity = 2
    MaxOutput = 5
 
 
PROPERTY ServerProgress
