SPECIFICATION MCSpec
CONSTANTS
    RootClient = c1
    OtherClient = c2
    ConfigNames = {n1, n2}
    ConfigSubvolumes = {s1, s2}
    Strict = {s1}
    ConfigValues = {1, 2}
    Setters = {k1, k2}
    MaxRequests = 4
    MaxFaults = 1
    MaxStops = 1
    None = None
    MaxSetConfigs = 2
    MaxPermFaults = 1
    Procs = {p1, p2}
    MaxListed = 4
    MaxCommands = 2
    MaxErrors = 1
    Users = {u1, u2}
    Options = {"", "timeline"}
    MaxSnapshot = 5
    MaxRollbacks = 2
    MaxUpdates = 1
    MaxMishaps = 1
    Backend = {"btrfs", "bcachefs", "lvm"}
    FromOn = {"btrfs", "lvm"}
    Nums = {1, 2, 3}
    Contents = {1, 2}
    NoContent = 0
    MaxWrites = 1
    MaxFsFaults = 2
 
 
INVARIANT RollbackRight
INVARIANT WireRight
PROPERTY RequestSteps
 
