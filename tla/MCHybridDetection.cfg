CONSTANTS
    a = a
    b = b
    c2 = c2
    db = db
    Unit = 8
    Weight <- MCWeight
    BandSuspicious = 2
    BandLikely = 4
    BandConfirmed = 7
    MinCorroborating = 2
    RateLimitMin = 4
    BlockMin = 7
    BlockCriticality = 4
    QuarantineCriticality = 7
    QuarantineCii = 2
    External = {c2}
    KnownBad = {}
    Confidence <- MCConfidence
    MinSamples = 3
    HistoryPerPair = 4
    MaxTrackedPairs = 2
    MaxCv = 2
    MinInterval = 1
    MaxInterval = 4
    Window = 4
    MaxNodes = 3
    MaxPeers = 2
    BaselineBatches = 2
    RefitEvery = 2
    MinBaselineRows = 2
    MinEdges = 1
    MaxRows = 4
    FireThreshold = 4
    Capture <- MCCapture
    Pool <- MCPool
    Enabled = {"supervised", "signature", "beaconing", "tgnn"}
    Criticality <- MCCriticality
    Impact <- MCImpact
    Answers <- MCAnswers
    MaxBatch = 2
    MaxSessions = 2
    MaxInjections = 1
    MaxFailures = 1
    MaxExamined = 6
SPECIFICATION Spec
CHECK_DEADLOCK FALSE
INVARIANTS
    HistoriesAreRecent HistoryOfLiveNodesOnly FirstContactIsNovel
    ScoresExplainHeadline StrongerCaseStrongerAnswer
