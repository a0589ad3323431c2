CONSTANTS
    Workers = {w1, w2}
    FSM <- CompactFSM
    QueueMax = 1
    RestartQuota = 1
    ExecutorType = "thread"

SPECIFICATION Spec
SYMMETRY WorkerSymmetry
INVARIANTS
    TypeOK
    NoOrphans
    VerdictIsEarned
    EvaluatorCatchesUp
    KillsArePending
    EscalationIsJustified
PROPERTIES
    ContractSpec
    StopsOnlyWhenAllCompleted
