SPECIFICATION Spec
CONSTANTS
    Unit = 10
    Assets <- MCAssets
    Criticality <- MCCriticality
    Zone <- MCZone
    GatewayName <- MCGatewayName
    Dependencies <- MCDependencies
    GatewayThreshold = 9
    GatewayCriticality = 0
    DefaultCriticality = 5
    MaxHops = 3
    Iterations = 2
    CiiMax = 10
    BreachChance = "maybe"
    BreachCriticality = 5
    Address <- MCAddress
    Near <- MCNear
    Strangers <- MCStrangers
    Days <- MCDays
    Scenarios <- MCScenarios
    PoolCap = 2
    MaxCount = 2
    Targets <- MCTargets
    MaxInjections = 2
    MaxFailures = 1
    MaxAsked = 1
INVARIANTS
    InjectedFlowsAreReal GatewayFallsFirst
    CascadeIsExplained
    ProvidersFailTogether
CHECK_DEADLOCK FALSE
