CONSTANTS
    plc = plc
    rogue = rogue
    Assets = {plc, rogue}
    GraphAssets = {plc}
    MaxSessions = 2
    MaxRows = 2
    Contents <- MCContents
    MaxCalls = 3
    MaxTime = 3
    MaxFailures = 1
    MaxBatch = 2
    AlertOnVolumetric = TRUE
    HybridGatesAlerts = TRUE
    AlertDebounce = 2
    CiiDebounce = 1
    CacheMax = 1
    KeepRows = 1
    PruneEvery = 2
SPECIFICATION Spec
CHECK_DEADLOCK FALSE
INVARIANTS
    StatsAccountForTables TripwireAccountedFor OneAlertPerIncident
    AlertShowsItsBlastRadius PublishedInIdOrder BroadcastHasItsRow
