SPECIFICATION FairSpec
CONSTANTS
    p1 = p1
    p2 = p2
    Producers <- MCProducers
    Capacity = 2
    PipeSize = 2
    ReadSize = 1
    MaxPosts = 6
    Gateway = gateway
    MaxConfigs = 2
INVARIANTS
    QueueExact
    DropsReported
PROPERTIES
    DeliverySpec
    WokenJobRuns
    StopCompletes
