SPECIFICATION Spec
CONSTANTS
    Captures <- MCCaptures
    Operators = {"operator"}
    MinRows = 2
    SplitOf = 1
    SplitBy = 2
    Current = current
    Older = older
    Absent = Absent
    Torn = Torn
    NoModel = NoModel
    QueueMax = 1
    BufferMax = 3
    Limit = 1
    NotAnswered = NotAnswered
    MaxEvents = 1
    MaxOpen = 1
    MaxCuts = 1
    MaxCrashes = 2
INVARIANTS
    ServedModelsFitTheCode
