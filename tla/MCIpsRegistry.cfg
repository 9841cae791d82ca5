CONSTANTS
    Assets = {a1, a2}
    MaxLevel = 3
    Operators = {o1}
    MaxActions = 3
    MaxDecisions = 2
    MaxBatches = 3
    MaxTime = 2
    MaxRestarts = 1
    Ttl = 1
    RegistryMax = 1
    DryRun = FALSE
SPECIFICATION Spec
SYMMETRY AssetSymmetry
CHECK_DEADLOCK FALSE
INVARIANTS
    ActiveIsTracked EntryIsBacked EndedIsReleased
PROPERTIES
    EndingIsFinal
