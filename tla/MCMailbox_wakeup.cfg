SPECIFICATION FairSpec
CONSTANTS
    p1 = p1
    p2 = p2
    Producers <- MCProducers
    Capacity = 2
    PipeSize = 1
    ReadSize = 1
    MaxPosts = 3
    Gateway = gateway
    MaxConfigs = 1

PROPERTY EveryJobRuns
