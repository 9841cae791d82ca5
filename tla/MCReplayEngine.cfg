CONSTANTS
    Controllers = {c1, c2}
    Injectors = {i1}
    MaxStarts = 2
    MaxLoops = 2
    MaxFlows = 3
    MaxInjected = 2
    QueueMax = 2
    MaxBatch = 1
SPECIFICATION FairSpec
CONSTRAINTS NothingLeftBehind EmptyOrLong
INVARIANTS
    InjectedOnceInOrder SingleReplayThread GaplessStream CountersAgree
    RunningHasThread StopIsPrompt
PROPERTIES
    NaturalEndIsComplete ReplayCompletes
