SPECIFICATION FairSpec
CONSTANTS
    None = None
    MaxNum = 4
    InitNum = 3
    Date <- MCDate
    Horizons = {2}
    Commands <- MCCommands
    Active = 0
    NumberMin = 1
    NumberMax = 2
    ImportantMin = 1
    ImportantMax = 1
    Periods = {2, 3}
    TimelineMin = 0
    TimelineMax = 1
    MaxChanges = 1
 
INVARIANT PairsTogether
PROPERTY MinimumKept
PROPERTY CleanupEnds
