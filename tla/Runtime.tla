------------------------------- MODULE Runtime -------------------------------
(***************************************************************************)
(* Three mechanisms of a running program that can each be looked at alone: *)
(* what the code of one worker sees (WorkerLoop), the task queue of        *)
(* callbacks (CoroutineQueue), and the kill of a thread by its ident       *)
(* (ThreadKill). They share nothing: part says which of them a behaviour   *)
(* is about, and the others stay where they began.                         *)
(***************************************************************************)
EXTENDS WorkerLoop

CONSTANTS MaxPending, MaxActivities, Units, Idents, RestartQuota, Swallowing

ASSUME QueueAssumption == MaxPending \in Nat \ {0} /\ MaxActivities \in Nat
ASSUME QuotaAssumption == RestartQuota \in Nat

VARIABLES
    part,
    phase, submitted, status, cancelling, queue_pending, errors, logged, dropped, received,
    thread_phase, ident, thread_pending, generation, kill_requested, kill_pc, spared, hits

Queue == INSTANCE CoroutineQueue WITH pending <- queue_pending
Kill == INSTANCE ThreadKill WITH phase <- thread_phase, pending <- thread_pending, pc <- kill_pc

callbacks == <<phase, submitted, status, cancelling, queue_pending, errors, logged, dropped,
               received>>
threads == <<thread_phase, ident, thread_pending, generation, kill_requested, kill_pc, spared, hits>>
all == <<part, vars, callbacks, threads>>

InLoop(A)      == part = "loop" /\ A /\ UNCHANGED <<part, callbacks, threads>>
InCallbacks(A) == part = "callbacks" /\ A /\ UNCHANGED <<part, vars, threads>>
InThreads(A)   == part = "threads" /\ A /\ UNCHANGED <<part, vars, callbacks>>

RuntimeInit ==
    /\ part \in {"callbacks", "threads", "loop"}
    /\ Init /\ Queue!Init /\ Kill!Init
    /\ part # "loop" => ~interruptible /\ ~cooperative

RuntimeNext == InLoop(Next) \/ InCallbacks(Queue!Next) \/ InThreads(Kill!Next)

RuntimeSafety == RuntimeInit /\ [][RuntimeNext]_all

\* The fairness of each module, for the part it is about.
RuntimeFairness ==
    /\ WF_all(InLoop(Loop))
    /\ WF_all(InCallbacks(Queue!Activity \/ Queue!LoopEnds))
    /\ WF_all(InCallbacks(Queue!Drained)) /\ WF_all(InCallbacks(Queue!Abandoned))
    /\ \A t \in Queue!Tasks : WF_all(InCallbacks(Queue!Start(t) \/ Queue!Finish(t)))
    /\ \A t \in Kill!Threads :
        WF_all(InThreads(Kill!RaiseSystemExit(t))) /\ WF_all(InThreads(Kill!Vanish(t)))
    /\ \A u \in Units : WF_all(InThreads(Kill!KillStep(u)))

RuntimeSpec == RuntimeSafety /\ RuntimeFairness

-----------------------------------------------------------------------------
(* The properties of CoroutineQueue and ThreadKill; those of WorkerLoop are its own. *)

\* The failure of a callback that was not dropped is in exactly one place.
FailuresAreKept == Queue!FailuresAreKept

\* run() returns only when nothing it promised to wait for is left.
ReturnIsClean == Queue!ReturnIsClean

\* A failure is reported in the end.
FailureIsReported == Queue!FailureIsReported

\* A kill hits no thread that ran beside its target when it began.
StrangersAreSpared == Kill!StrangersAreSpared

\* A kill that began brings its target down, unless its worker swallows it.
KillTakes == Kill!KillTakes
=============================================================================
