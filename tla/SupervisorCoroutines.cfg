CONSTANTS
    Workers = {w1, w2}
    FSM <- DefaultWorkerFSM
    QueueMax = 2
    RestartQuota = 1
    ExecutorType = "coroutine"

SPECIFICATION Spec
SYMMETRY WorkerSymmetry
PROPERTIES
    CompletedNeverRestarted
