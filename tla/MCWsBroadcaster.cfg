CONSTANTS
    Publishers = {engine}
    Clients = {c1, c2}
    QueueMax = 2
    MaxPublished = 3
SPECIFICATION FairSpec
CHECK_DEADLOCK FALSE
INVARIANTS
    QueueHoldsTheNewest PublishedOrderOnTheWire NothingLostUncounted
    NoOrphanWriter
PROPERTIES
    HealthyClientIsServed
