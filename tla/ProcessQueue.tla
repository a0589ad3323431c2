---------------------------- MODULE ProcessQueue ----------------------------
(***************************************************************************)
(* The activity queue of process executors: a multiprocessing.Queue (made  *)
(* in SyncSupervisor._boot, filled by ProcessExecutor.run, emptied by      *)
(* drain_activity_queue), and what Process.kill - SIGKILL - does to it.    *)
(*                                                                         *)
(* A put takes a permit of the queue's semaphore and leaves the activity   *)
(* in a buffer of its own process; a feeder thread there carries it to the *)
(* pipe under a lock all processes share; a get takes it out of the pipe   *)
(* and returns the permit. A process that ends waits for its feeder, one   *)
(* that is killed does not. Buffer, feeder, pipe, permits and lock are     *)
(* Python's (external), modelled from how the code uses them.              *)
(*                                                                         *)
(* The n-th activity of an incarnation is the number n. When the           *)
(* supervisor kills, restarts, tells its workers to stop and leaves is     *)
(* left open: see Supervisor for that.                                     *)
(***************************************************************************)
EXTENDS Integers, Sequences, FiniteSets

CONSTANTS
    Workers,       \* the registered workers
    QueueMax,      \* settings.activity_queue_maxsize
    RestartQuota,  \* settings.worker_restart_quota
    MaxPuts,       \* bound: activities one incarnation puts
    Heartbeats     \* which of them are heartbeats, by their number

ASSUME WorkersAssumption == IsFiniteSet(Workers) /\ Workers # {}
ASSUME QueueAssumption   == QueueMax \in Nat \ {0}
ASSUME BoundAssumption   == RestartQuota \in Nat /\ MaxPuts \in Nat

VARIABLES
    generation,  \* worker -> the incarnation of its process
    pc,          \* worker -> "work", "put", "flush", "exited" or "killed"
    put,         \* worker -> activities its process has put
    fed,         \* worker -> how many of them its feeder wrote to the pipe
    feeder,      \* worker -> "idle", "holding" the pipe's lock, or "written"
    locked,      \* whether the pipe's lock is taken
    permits,     \* the semaphore of the queue
    pipe,        \* activities on their way: [worker_name, generation, n]
    supervisor,  \* "running", in its "shutdown" (the workers were told to stop), or "gone"
    taken,       \* worker -> the last activity of this incarnation the drain took
    recorded,    \* worker -> which of those its evaluator recorded
    lost         \* history: permits that died with a process

processes == <<generation, pc, put, fed, feeder>>
supervision == <<supervisor, taken, recorded>>
vars == <<processes, locked, permits, pipe, supervision, lost>>

IsAlive(w) == pc[w] \in {"work", "put", "flush"}

Init ==
    /\ generation = [w \in Workers |-> 0]
    /\ pc = [w \in Workers |-> "work"]
    /\ put = [w \in Workers |-> 0] /\ fed = [w \in Workers |-> 0]
    /\ feeder = [w \in Workers |-> "idle"] /\ locked = FALSE
    /\ permits = QueueMax /\ pipe = <<>>
    /\ supervisor = "running" /\ taken = [w \in Workers |-> 0]
    /\ recorded = [w \in Workers |-> {}] /\ lost = 0

-----------------------------------------------------------------------------
(* A process: ProcessExecutor.run, and the queue's end in it. *)

\* The main loop yields an activity, or is over (returned or raised).
Yield(w) ==
    /\ pc[w] = "work" /\ put[w] < MaxPuts
    /\ pc' = [pc EXCEPT ![w] = "put"]
    /\ UNCHANGED <<generation, put, fed, feeder, locked, permits, pipe, supervision, lost>>

LoopEnds(w) ==
    /\ pc[w] = "work"
    /\ pc' = [pc EXCEPT ![w] = "flush"]
    /\ UNCHANGED <<generation, put, fed, feeder, locked, permits, pipe, supervision, lost>>

MutPutUnmetered(w) ==
    /\ pc[w] = "put"
    /\ put' = [put EXCEPT ![w] = @ + 1]
    /\ pc' = [pc EXCEPT ![w] = "work"]
    /\ UNCHANGED <<generation, fed, feeder, locked, permits, pipe, supervision, lost>>

\* put: blocks for a permit, not for room in the pipe.
Put(w) ==
    /\ pc[w] = "put" /\ permits > 0
    /\ permits' = permits - 1
    /\ put' = [put EXCEPT ![w] = @ + 1]
    /\ pc' = [pc EXCEPT ![w] = "work"]
    /\ UNCHANGED <<generation, fed, feeder, locked, pipe, supervision, lost>>

FeedAcquire(w) ==
    /\ IsAlive(w) /\ feeder[w] = "idle" /\ fed[w] < put[w] /\ ~locked
    /\ feeder' = [feeder EXCEPT ![w] = "holding"] /\ locked' = TRUE
    /\ UNCHANGED <<generation, pc, put, fed, permits, pipe, supervision, lost>>

FeedWrite(w) ==
    /\ IsAlive(w) /\ feeder[w] = "holding"
    /\ pipe' = Append(pipe, [worker_name |-> w, generation |-> generation[w],
                             n |-> fed[w] + 1])
    /\ fed' = [fed EXCEPT ![w] = @ + 1]
    /\ feeder' = [feeder EXCEPT ![w] = "written"]
    /\ UNCHANGED <<generation, pc, put, locked, permits, supervision, lost>>

FeedRelease(w) ==
    /\ IsAlive(w) /\ feeder[w] = "written"
    /\ feeder' = [feeder EXCEPT ![w] = "idle"] /\ locked' = FALSE
    /\ UNCHANGED <<generation, pc, put, fed, permits, pipe, supervision, lost>>

MutExitUnflushed(w) ==
    /\ pc[w] = "flush" /\ feeder[w] = "idle"
    /\ pc' = [pc EXCEPT ![w] = "exited"]
    /\ UNCHANGED <<generation, put, fed, feeder, locked, permits, pipe, supervision, lost>>

\* The end of the process joins the feeder.
Exit(w) ==
    /\ pc[w] = "flush" /\ feeder[w] = "idle" /\ fed[w] = put[w]
    /\ pc' = [pc EXCEPT ![w] = "exited"]
    /\ UNCHANGED <<generation, put, fed, feeder, locked, permits, pipe, supervision, lost>>

-----------------------------------------------------------------------------
(* The supervisor. *)

\* SupervisionUnit.kill: the process is gone at once, wherever it and its feeder are.
Kill(w) ==
    /\ supervisor # "gone" /\ IsAlive(w)
    /\ pc' = [pc EXCEPT ![w] = "killed"]
    /\ lost' = lost + (put[w] - fed[w])
    /\ UNCHANGED <<generation, put, fed, feeder, locked, permits, pipe, supervision>>

\* restart_unit, for an executor that has exited: its successor's evaluator is new.
Restart(w) ==
    /\ supervisor = "running" /\ ~IsAlive(w) /\ generation[w] < RestartQuota
    /\ generation' = [generation EXCEPT ![w] = @ + 1]
    /\ pc' = [pc EXCEPT ![w] = "work"]
    /\ put' = [put EXCEPT ![w] = 0] /\ fed' = [fed EXCEPT ![w] = 0]
    /\ feeder' = [feeder EXCEPT ![w] = "idle"]
    /\ taken' = [taken EXCEPT ![w] = 0] /\ recorded' = [recorded EXCEPT ![w] = {}]
    /\ UNCHANGED <<locked, permits, pipe, supervisor, lost>>

\* stop_executors: every worker's term_event is set, between two drains.
StopExecutors ==
    /\ supervisor = "running" /\ supervisor' = "shutdown"
    /\ UNCHANGED <<processes, locked, permits, pipe, taken, recorded, lost>>

\* The supervisor is over, after its executors: by a shutdown_tick whose drain came
\* before it saw the last of them down, or by an abort that killed them. Nobody drains
\* what the pipe still holds.
Leave ==
    /\ supervisor # "gone" /\ \A w \in Workers : ~IsAlive(w)
    /\ supervisor' = "gone"
    /\ UNCHANGED <<processes, locked, permits, pipe, taken, recorded, lost>>

MutIsCurrent(a) == TRUE

\* The generation fence of the drain.
IsCurrent(a) == a.generation = generation[a.worker_name]

\* A heartbeat of a worker that was told to stop.
IsUnheeded(a) == supervisor = "shutdown" /\ a.n \in Heartbeats

MutDrainsWhileRunning == supervisor = "running"

\* The ticks of a supervisor that runs and of one that shuts down begin with a drain.
Drains == supervisor # "gone"

\* get_nowait; what is neither of a former incarnation nor unheeded is recorded.
DrainOne ==
    /\ Drains /\ pipe # <<>>
    /\ pipe' = Tail(pipe) /\ permits' = permits + 1
    /\ LET a == Head(pipe) IN
        /\ taken' = IF IsCurrent(a) THEN [taken EXCEPT ![a.worker_name] = a.n] ELSE taken
        /\ recorded' = IF IsCurrent(a) /\ ~IsUnheeded(a)
                       THEN [recorded EXCEPT ![a.worker_name] = @ \cup {a.n}]
                       ELSE recorded
    /\ UNCHANGED <<processes, locked, supervisor, lost>>

Terminated == supervisor = "gone" /\ UNCHANGED vars

Next ==
    \/ \E w \in Workers :
        \/ Yield(w) \/ LoopEnds(w) \/ Put(w) \/ Exit(w)
        \/ FeedAcquire(w) \/ FeedWrite(w) \/ FeedRelease(w)
        \/ Kill(w) \/ Restart(w)
    \/ StopExecutors \/ DrainOne \/ Leave \/ Terminated

Spec == Init /\ [][Next]_vars

(***************************************************************************)
(* Fairness: every tick of a supervisor that is not gone drains, feeders   *)
(* and puts that can proceed again and again do (the lock and the          *)
(* semaphore have several takers), and a process whose loop is over and    *)
(* whose feeder is done exits. Nothing makes a worker end, or the          *)
(* supervisor stop or leave.                                               *)
(***************************************************************************)
Fairness ==
    /\ WF_vars(DrainOne)
    /\ \A w \in Workers :
        /\ SF_vars(FeedAcquire(w))
        /\ WF_vars(FeedWrite(w)) /\ WF_vars(FeedRelease(w))
        /\ SF_vars(Put(w)) /\ WF_vars(Exit(w))

FairSpec == Spec /\ Fairness

-----------------------------------------------------------------------------
(***************************************************************************)
(* Properties.                                                             *)
(***************************************************************************)
Messages == [worker_name : Workers, generation : Nat, n : Nat]

\* Every variable has its type.
TypeOK ==
    /\ generation \in [Workers -> Nat]
    /\ pc \in [Workers -> {"work", "put", "flush", "exited", "killed"}]
    /\ put \in [Workers -> Nat] /\ fed \in [Workers -> Nat]
    /\ feeder \in [Workers -> {"idle", "holding", "written"}]
    /\ locked \in BOOLEAN
    /\ permits \in Nat /\ lost \in Nat
    /\ pipe \in Seq(Messages)
    /\ supervisor \in {"running", "shutdown", "gone"}
    /\ taken \in [Workers -> Nat] /\ recorded \in [Workers -> SUBSET Nat]

\* Where in the pipe the activities of the current incarnation are.
OfCurrent(w) == {i \in DOMAIN pipe : pipe[i].worker_name = w /\ IsCurrent(pipe[i])}

\* What the drain takes from the pipe continues what it took before: in order,
\* without a gap, up to the last activity the feeder wrote, wherever processes
\* were killed and however many incarnations are mixed in the pipe.
StreamIsGapless ==
    \A w \in Workers :
        /\ {pipe[i].n : i \in OfCurrent(w)} = (taken[w] + 1)..fed[w]
        /\ \A i, j \in OfCurrent(w) : i < j => pipe[i].n < pipe[j].n

\* What the evaluator may not have been told of the activities the drain took.
IsMissable(n) == n \in Heartbeats /\ supervisor # "running"

\* The last word of a process that ended on its own is not lost: once the pipe holds
\* nothing more of it, everything it put is recorded (so its verdict is final), but for
\* heartbeats taken after the workers were told to stop.
EndIsHeard ==
    \A w \in Workers : pc[w] = "exited" /\ OfCurrent(w) = {} =>
        \A n \in 1..put[w] : n \in recorded[w] \/ IsMissable(n)

\* Activities that still sit in the buffer of a process that runs.
Buffered == {a \in Workers \X (1..MaxPuts) :
                IsAlive(a[1]) /\ fed[a[1]] < a[2] /\ a[2] <= put[a[1]]}

\* Every permit is free, belongs to an activity on its way, or died with a
\* process: the capacity of the queue shrinks by what kills destroy, by no more.
PermitsAreAccounted ==
    permits + Len(pipe) + Cardinality(Buffered) + lost = QueueMax

\* The channel a supervisor may rely on: a killed process keeps what is in the pipe.
Channel == INSTANCE ActivityChannel WITH
    incarnation <- generation,
    sent        <- [w \in Workers |-> IF pc[w] = "killed" THEN fed[w] ELSE put[w]],
    delivered   <- taken,
    over        <- {w \in Workers : ~IsAlive(w)}

\* Process executors implement ActivityChannel: SIGKILL costs an incarnation its last
\* activities at most, and never reorders, duplicates or attributes wrongly any.
ChannelSpec == Channel!Spec

\* Every worker is still in its first incarnation and was not killed in it, and the
\* supervisor is there.
Undisturbed ==
    supervisor # "gone" /\ \A w \in Workers : generation[w] = 0 /\ pc[w] # "killed"

\* What a worker has put, and what it is about to put, blocked or not.
Meant(w) == IF pc[w] = "put" THEN put[w] + 1 ELSE put[w]

\* No put waits for ever, and what was put reaches the supervisor, before and after its
\* workers were told to stop, unless some process is killed or restarted first or the
\* supervisor is gone: the bounded queue, its lock and its feeders are no deadlock. One
\* kill is enough to end that for every worker, for the victim may die with the lock of
\* the pipe or with permits (supervisor.py:103); and a supervisor that leaves has drained
\* before it saw its last executor down (supervisor.py:294-295), so it may miss the end.
EveryPutArrives ==
    \A w \in Workers : \A n \in 1..MaxPuts :
        Meant(w) >= n /\ Undisturbed ~> taken[w] >= n \/ ~Undisturbed
=============================================================================
