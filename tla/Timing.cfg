CONSTANTS
    FSM <- TheFSM
    QueueMax = 2
    MaxTime <- WatchTime
    PutDelay = 1
    Lag = 1
    MinInterval = 3
    MaxCallTime = 10
    MaxCalls = 5

SPECIFICATION TimingSpec
INVARIANTS
    EverySecondIsLimited
    SilenceIsNoticed
    ActorResidenceIsNoticed
    HeartbeatsBuyNoTime
    PunctualIsHealthy
\* The clock is bounded: a sleep may end after MaxCallTime.
CHECK_DEADLOCK FALSE
