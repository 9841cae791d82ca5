CONSTANTS
    Controllers = {c1}
    Injectors = {i1}
    MaxStarts = 2
    MaxLoops = 2
    MaxFlows = 3
    MaxInjected = 1
    QueueMax = 1
    MaxBatch = 2
SPECIFICATION Spec
INVARIANTS
    FlowsNeverDropped
