--------------------------- MODULE CoroutineQueue ---------------------------
(***************************************************************************)
(* The background callbacks of AsyncSupervisor.run (runsmith/supervisor.py)*)
(* and the queue of tasks that holds them, utils.CoroutineQueue.           *)
(*                                                                         *)
(* The i-th activity of the supervisor is handed to on_activity by task i. *)
(* The deque of pending tasks is the set of their numbers: it is filled in *)
(* order, and _collect_completed takes tasks out without reordering the    *)
(* rest. Tasks only run while run() is suspended, so a pass of its loop    *)
(* (flush_errors, then submit) is one step.                                *)
(***************************************************************************)
EXTENDS Integers, FiniteSets

CONSTANTS
    MaxPending,    \* settings.activity_callback_task_queue_size
    MaxActivities  \* bound: activities of one run

VARIABLES
    phase,      \* of run(): "looping", "draining", "abandoning", "returned", "raised"
    submitted,  \* activities handed over so far
    status,     \* task -> "new", "ready", "started", "ok", "failed", "cancelled"
    cancelling, \* tasks asked to cancel
    pending,    \* _pending
    errors,     \* _errors: the failed tasks whose exception was collected
    logged,     \* history: the tasks whose failure was logged
    dropped,    \* history: the tasks submit dropped
    received    \* history: the tasks whose callback began to run

vars == <<phase, submitted, status, cancelling, pending, errors, logged, dropped, received>>

Tasks == 1..MaxActivities

IsDone(t) == status[t] \in {"ok", "failed", "cancelled"}

Init ==
    /\ phase = "looping" /\ submitted = 0
    /\ status = [t \in Tasks |-> "new"]
    /\ cancelling = {} /\ pending = {} /\ errors = {}
    /\ logged = {} /\ dropped = {} /\ received = {}

-----------------------------------------------------------------------------
(* CoroutineQueue. *)

Completed == {t \in pending : IsDone(t)}

\* _collect_completed: what it leaves in _pending, and adds to _errors. A cancelled
\* task is forgotten.
Unfinished == pending \ Completed

NewErrors == {t \in Completed : status[t] = "failed"}

\* submit drops the oldest task when the new one makes one too many.
DroppedFor(t) ==
    LET backlog == Unfinished \cup {t} IN
    {d \in backlog : Cardinality(backlog) > MaxPending /\ \A u \in backlog : d <= u}

\* flush_errors logs what it has just collected and what was collected before.
Flushed == errors \cup NewErrors

-----------------------------------------------------------------------------
(* AsyncSupervisor.run. *)

MutActivityForgets ==
    /\ phase = "looping" /\ submitted < MaxActivities
    /\ LET t == submitted + 1 IN
        /\ submitted' = t
        /\ status' = [status EXCEPT ![t] = "ready"]
        /\ pending' = (Unfinished \cup {t}) \ DroppedFor(t)
        /\ cancelling' = cancelling \cup DroppedFor(t)
        /\ dropped' = dropped \cup DroppedFor(t)
    /\ logged' = logged \cup errors /\ errors' = {}
    /\ UNCHANGED <<phase, received>>

\* The main loop yields an activity.
Activity ==
    /\ phase = "looping" /\ submitted < MaxActivities
    /\ LET t == submitted + 1 IN
        /\ submitted' = t
        /\ status' = [status EXCEPT ![t] = "ready"]
        /\ pending' = (Unfinished \cup {t}) \ DroppedFor(t)
        /\ cancelling' = cancelling \cup DroppedFor(t)
        /\ dropped' = dropped \cup DroppedFor(t)
    /\ logged' = logged \cup Flushed /\ errors' = {}
    /\ UNCHANGED <<phase, received>>

\* It ends: what is pending is waited for ...
LoopEnds ==
    /\ phase = "looping" /\ phase' = "draining"
    /\ UNCHANGED <<submitted, status, cancelling, pending, errors, logged, dropped, received>>

MutDrainedEarly ==
    /\ phase = "draining" /\ phase' = "returned"
    /\ logged' = logged \cup Flushed /\ errors' = {} /\ pending' = Unfinished
    /\ UNCHANGED <<submitted, status, cancelling, dropped, received>>

\* ... collected and logged, before run() returns or raises ctx.exception.
Drained ==
    /\ phase = "draining" /\ Unfinished = {} /\ phase' = "returned"
    /\ logged' = logged \cup Flushed /\ errors' = {} /\ pending' = Unfinished
    /\ UNCHANGED <<submitted, status, cancelling, dropped, received>>

\* It raises, or the task of run() is cancelled in it: nothing is drained or flushed.
LoopRaises ==
    /\ phase = "looping" /\ phase' = "raised"
    /\ UNCHANGED <<submitted, status, cancelling, pending, errors, logged, dropped, received>>

\* The task of run() is cancelled in the drain: gather passes it on to what it
\* waits for, and raises when that is done.
DrainCancelled ==
    /\ phase = "draining" /\ Unfinished # {} /\ phase' = "abandoning"
    /\ cancelling' = cancelling \cup Unfinished
    /\ UNCHANGED <<submitted, status, pending, errors, logged, dropped, received>>

Abandoned ==
    /\ phase = "abandoning" /\ Unfinished = {} /\ phase' = "raised"
    /\ UNCHANGED <<submitted, status, cancelling, pending, errors, logged, dropped, received>>

-----------------------------------------------------------------------------
(* The tasks: asyncio's, and the caller's on_activity (external). *)

\* The first step of a task; cancelled before it, the callback never runs.
Start(t) ==
    /\ status[t] = "ready"
    /\ IF t \in cancelling
       THEN status' = [status EXCEPT ![t] = "cancelled"] /\ UNCHANGED received
       ELSE status' = [status EXCEPT ![t] = "started"] /\ received' = received \cup {t}
    /\ UNCHANGED <<phase, submitted, cancelling, pending, errors, logged, dropped>>

\* Its last one. Cancellation may be ignored, or end in an error of the clean-up.
Finish(t) ==
    /\ status[t] = "started"
    /\ \E how \in {"ok", "failed", "cancelled"} : status' = [status EXCEPT ![t] = how]
    /\ UNCHANGED <<phase, submitted, cancelling, pending, errors, logged, dropped, received>>

\* run() is over and so is every callback.
Terminated ==
    /\ phase \in {"returned", "raised"}
    /\ \A t \in Tasks : status[t] \in {"new", "ok", "failed", "cancelled"}
    /\ UNCHANGED vars

Run == Activity \/ LoopEnds \/ Drained \/ LoopRaises \/ DrainCancelled \/ Abandoned

Next == Run \/ (\E t \in Tasks : Start(t) \/ Finish(t)) \/ Terminated

Spec == Init /\ [][Next]_vars

(***************************************************************************)
(* Fairness: the event loop runs every task and callbacks end; a supervisor*)
(* that has not ended yields an activity at least every interval.          *)
(***************************************************************************)
Fairness ==
    /\ WF_vars(Activity \/ LoopEnds) /\ WF_vars(Drained) /\ WF_vars(Abandoned)
    /\ \A t \in Tasks : WF_vars(Start(t) \/ Finish(t))

FairSpec == Spec /\ Fairness

-----------------------------------------------------------------------------
(***************************************************************************)
(* Properties.                                                             *)
(***************************************************************************)

\* Every variable has its type, and the histories speak of submitted tasks.
TypeOK ==
    /\ phase \in {"looping", "draining", "abandoning", "returned", "raised"}
    /\ submitted \in 0..MaxActivities
    /\ status \in [Tasks -> {"new", "ready", "started", "ok", "failed", "cancelled"}]
    /\ \A t \in Tasks : status[t] = "new" <=> t > submitted
    /\ cancelling \subseteq 1..submitted /\ pending \subseteq 1..submitted
    /\ errors \subseteq 1..submitted /\ logged \subseteq 1..submitted
    /\ dropped \subseteq 1..submitted /\ received \subseteq 1..submitted

\* The backlog is bounded, and holds the latest callbacks: saturation never sacrifices
\* a task that is younger than one it keeps.
BacklogIsLatest ==
    /\ Cardinality(pending) <= MaxPending
    /\ \A d \in dropped, t \in pending : d < t

\* A failure of a callback that was not dropped is in exactly one place: still
\* to be collected, collected, or logged. None is lost and none is logged twice,
\* whenever the task ended relative to submit, flush and drain.
FailuresAreKept ==
    \A t \in 1..submitted : status[t] = "failed" /\ t \notin dropped =>
        \/ t \in pending /\ t \notin errors \cup logged
        \/ t \in errors  /\ t \notin pending \cup logged
        \/ t \in logged  /\ t \notin pending \cup errors

\* Only failures of callbacks are logged, and never one that saturation dropped:
\* what its clean-up raises stays unseen.
LogIsTrue == \A t \in logged \cup errors : status[t] = "failed" /\ t \notin dropped

\* When run() returns nothing it promised to wait for is left: every callback has
\* ended and its failure is logged, except those that were dropped.
ReturnIsClean ==
    phase = "returned" =>
        \A t \in 1..submitted : t \notin dropped =>
            IsDone(t) /\ (status[t] = "failed" => t \in logged)

\* A failure is reported in the end, not only when the supervisor stops, unless
\* run() raises first.
FailureIsReported ==
    \A t \in Tasks :
        status[t] = "failed" /\ t \notin dropped ~> t \in logged \/ phase = "raised"
=============================================================================
