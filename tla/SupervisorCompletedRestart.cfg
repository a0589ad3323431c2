CONSTANTS
    Workers = {w1}
    FSM <- DefaultWorkerFSM
    QueueMax = 3
    RestartQuota = 1
    ExecutorType = "thread"

SPECIFICATION Spec
PROPERTIES
    CompletedNeverRestarted
