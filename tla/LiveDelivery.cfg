SPECIFICATION FairSpec
CONSTANTS
    Captures <- MCGoodDays
    Operators = {}
    MinRows = 2
    SplitOf = 1
    SplitBy = 2
    Current = current
    Older = older
    Absent = Absent
    Torn = Torn
    NoModel = NoModel
    QueueMax = 1
    BufferMax = 3
    Limit = 1
    NotAnswered = NotAnswered
    MaxEvents = 4
    MaxOpen = 2
    MaxCuts = 2
    MaxCrashes = 1
INVARIANTS
     NoThirdCopy
PROPERTIES
    EveryEventReachesThePage
