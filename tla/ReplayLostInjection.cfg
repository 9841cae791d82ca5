CONSTANTS
    Controllers = {c1}
    Injectors = {i1}
    MaxStarts = 2
    MaxLoops = 2
    MaxFlows = 2
    MaxInjected = 1
    QueueMax = 1
    MaxBatch = 1
SPECIFICATION Spec
INVARIANTS
    AcceptedInjectionKept
