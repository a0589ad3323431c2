CONSTANTS
    MinInterval = 2
    MaxTime = 8
    MaxCalls = 5

SPECIFICATION Spec
INVARIANTS
    RateLimited
CHECK_DEADLOCK FALSE
