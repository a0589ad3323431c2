CONSTANTS
    Workers = {w1, w2}
    FSM <- OneWayFSM
    QueueMax = 1
    RestartQuota = 0
    ExecutorType = "thread"

SPECIFICATION FairSpec
PROPERTIES
    ShutdownEnds
    BlockedProducerProceeds
