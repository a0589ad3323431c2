CONSTANTS
    Workers = {w1, w2}
    QueueMax = 2
    RestartQuota = 1
    MaxPuts = 2
    Heartbeats = {1}

SPECIFICATION FairSpec
INVARIANTS
    StreamIsGapless
    EndIsHeard
    PermitsAreAccounted
PROPERTIES
    ChannelSpec
    EveryPutArrives
