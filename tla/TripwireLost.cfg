CONSTANTS
    plc = plc
    rogue = rogue
    Assets = {plc, rogue}
    GraphAssets = {plc}
    MaxSessions = 1
    MaxRows = 2
    Contents <- BurstContents
    MaxCalls = 2
    MaxTime = 1
    MaxFailures = 1
    MaxBatch = 1
    AlertOnVolumetric = FALSE
    HybridGatesAlerts = FALSE
    AlertDebounce = 2
    CiiDebounce = 1
    CacheMax = 2
    KeepRows = 10
    PruneEvery = 10
SPECIFICATION Spec
CHECK_DEADLOCK FALSE
INVARIANTS
    TripwireAlwaysAlerts
