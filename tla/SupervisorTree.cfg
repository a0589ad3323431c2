CONSTANTS
    Tree <- ChainTree
    Root = "root"
    ExecutorTypes <- FewExecutorTypes
    SupervisorRestartQuota = 1
    WorkerRestartQuota = 1
    MaxDepth = 2

SPECIFICATION FairSpec
INVARIANTS
    OrphansAreDoomed
    SurvivorIsUnique
PROPERTIES
    LevelContracts
    TreeComesDown
