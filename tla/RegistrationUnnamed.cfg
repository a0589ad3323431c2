CONSTANTS
    Names = {"x", "y", "z"}
    EventNames = {"go", "err"}
    InitialEvent = "go"
    Constraints <- TheConstraints
    ActorSets <- TheActorSets
    MaxConstraints = 2
    Classes = {"A", "B", "C", "Mixin"}
    Plain = {"Mixin"}
    Hooks <- TheHooks
    Methods = {"f", "g"}
    Bodies <- TheBodies
    IsAsync = FALSE
    Signatures <- TheSignatures
    Calls <- TheCalls
    MaxClones = 2
    Candidates <- UnnamedWorkers
    MaxBatch = 3
    Mode = "sync"
    RestartQuota = 2
    Fields <- TheFields
    Overrides <- TheOverrides
    Environments <- TheEnvironments
    Parts = {"boot"}

SPECIFICATION SetUpSpec
INVARIANT IncarnationsDoNotOverlap
CHECK_DEADLOCK FALSE
