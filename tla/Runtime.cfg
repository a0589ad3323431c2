CONSTANTS
    MaxPending = 2
    MaxActivities = 4
    Units = {u1, u2}
    Idents = {i1, i2}
    RestartQuota = 1
    Swallowing = {u1}
    MaxHistory = 2
    Machine <- TheMachine
    Post <- ThePost
    Pre <- ThePre
    LeavingEvents <- TheLeavingEvents

SPECIFICATION RuntimeSpec
INVARIANTS
    FailuresAreKept
    ReturnIsClean
    StrangersAreSpared
    HistoryIsThePath
    EndIsEarned
    ExitIsTrue
PROPERTIES
    FailureIsReported
    KillTakes
    StopsWhenTold
\* Threads may all be gone, and units need not be restarted.
CHECK_DEADLOCK FALSE
