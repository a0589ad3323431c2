CONSTANTS
    Names = {"x", "y", "z"}
    EventNames = {"go", "err"}
    InitialEvent = "go"
    Constraints <- TheConstraints
    ActorSets <- TheActorSets
    MaxConstraints = 2
    Classes = {"A", "B", "C", "Mixin"}
    Plain = {"Mixin"}
    Hooks <- TheHooks
    Methods = {"f", "g"}
    Bodies <- TheBodies
    IsAsync = FALSE
    Signatures <- TheSignatures
    Calls <- TheCalls
    MaxClones = 2
    Candidates <- NamedWorkers
    MaxBatch = 3
    Mode = "sync"
    RestartQuota = 2
    Fields <- TheFields
    Overrides <- TheOverrides
    Environments <- TheEnvironments
    Parts = {"machine", "class", "clone", "boot", "settings"}

SPECIFICATION SetUpSpec
INVARIANTS
    ConstructorIsExact
    DeadlinesAreDeclared
    HooksAddUpAlongALine
    ClonesAreFaithful
    UnitsAreAccounted
    SettingsAreResolved
\* The settings are made, or are not, and that is the end of it.
CHECK_DEADLOCK FALSE
