--------------------------- MODULE SupervisorTree ---------------------------
(***************************************************************************)
(* Supervisors as workers of supervisors (runsmith/supervisor.py): stop    *)
(* and kill passing down a tree, ends and failures passing up.             *)
(*                                                                         *)
(* A running instance is named by its path from the root: the name and the *)
(* generation of each unit on the way. A restarted supervisor boots a new  *)
(* subtree, whatever is left of the old one, so both have a place here.    *)
(*                                                                         *)
(* Module Supervisor has the tick, the queue and the evaluator of one      *)
(* level. Here a verdict is open: a unit that runs may be found late, and  *)
(* one that ended well may be looked at before its end was drained; it is  *)
(* "unheard" then, and counts as failed.                                   *)
(***************************************************************************)
EXTENDS Integers, Sequences, FiniteSets

CONSTANTS
    Tree,          \* supervisor's name -> the names of its workers
    Root,          \* the name of the supervisor that is run()
    ExecutorTypes, \* each: supervisor's name -> "thread", "process" or "coroutine"
    SupervisorRestartQuota, WorkerRestartQuota,   \* settings
    MaxDepth       \* bound: the longest path

Supervisors == DOMAIN Tree
Names == UNION {Tree[s] : s \in Supervisors}

ASSUME TreeAssumption ==
    /\ Root \in Supervisors /\ \A s \in Supervisors : Tree[s] # {} /\ IsFiniteSet(Tree[s])
    /\ MaxDepth \in Nat
ASSUME ExecutorAssumption ==
    \A type \in ExecutorTypes :
        /\ type \in [Supervisors -> {"thread", "process", "coroutine"}]
        /\ \A s, t \in Supervisors : type[s] = "coroutine" <=> type[t] = "coroutine"
ASSUME QuotaAssumption == SupervisorRestartQuota \in Nat /\ WorkerRestartQuota \in Nat

QuotaOf(name) ==
    IF name \in Supervisors THEN SupervisorRestartQuota ELSE WorkerRestartQuota

Generations == 0..(IF SupervisorRestartQuota > WorkerRestartQuota
                   THEN SupervisorRestartQuota ELSE WorkerRestartQuota)

NameOf(path) == IF path = <<>> THEN Root ELSE path[Len(path)][1]

Parent(path) == SubSeq(path, 1, Len(path) - 1)

Instances ==
    {path \in UNION {[1..n -> Names \X Generations] : n \in 0..MaxDepth} :
        \A i \in 1..Len(path) :
            LET parent == NameOf(SubSeq(path, 1, i - 1)) IN
            /\ parent \in Supervisors /\ path[i][1] \in Tree[parent]
            /\ path[i][2] <= QuotaOf(path[i][1])}

SupervisorInstances == {path \in Instances : NameOf(path) \in Supervisors}
Leaves == Instances \ SupervisorInstances

WorkersOf(sup) == Tree[NameOf(sup)]

ASSUME DepthAssumption == \A sup \in SupervisorInstances : Len(sup) < MaxDepth

VARIABLES
    executor_type,  \* one of ExecutorTypes
    exec,   \* instance -> its FSM state or how its loop ended, term_event, a pending kill
    units   \* supervisor instance -> worker -> restart_count and kill_requested

vars == <<executor_type, exec, units>>

\* The instance a unit runs: its generation is the number of its restarts.
Current(sup, w) == Append(sup, <<w, units[sup][w].restart_count>>)

IsAlive(path) ==
    exec[path].state \in {"starting", "running", "terminating", "reaping", "exiting"}

AlivesOf(sup) == {w \in WorkersOf(sup) : IsAlive(Current(sup, w))}

\* A unit that is not alive is COMPLETED or FAILED.
IsCompleted(sup, w) ==
    exec[Current(sup, w)].state = "stopped" /\ ~units[sup][w].kill_requested

Retryable(sup, w) == units[sup][w].restart_count < QuotaOf(w)

Idle == [state |-> "none", term |-> FALSE, killed |-> FALSE]

\* What is left of an instance that is not alive: nobody asks it for more.
Ended(how) == [Idle EXCEPT !.state = how]

\* start(): a supervisor is about to boot, what a leaf does is its own affair.
Started(path) ==
    [Idle EXCEPT !.state = IF path \in SupervisorInstances THEN "starting" ELSE "running"]

NewUnit == [restart_count |-> 0, kill_requested |-> FALSE]

Init ==
    /\ executor_type \in ExecutorTypes
    /\ exec = [path \in Instances |-> IF path = <<>> THEN Started(path) ELSE Idle]
    /\ units = [sup \in SupervisorInstances |-> [w \in WorkersOf(sup) |-> NewUnit]]

-----------------------------------------------------------------------------
(* What a supervisor does to its units. *)

\* The units of sup once kill() was called on victims, and the executors: only a
\* unit's first request counts.
UnitsKilled(sup, victims) ==
    [w \in WorkersOf(sup) |-> [units[sup][w] EXCEPT !.kill_requested = @ \/ w \in victims]]

MutKilledByNobody(path, sup, victims) == FALSE

IsKilledBy(path, sup, victims) ==
    \E w \in victims : path = Current(sup, w) /\ ~units[sup][w].kill_requested

Killed(sup, victims) ==
    [path \in Instances |->
        [exec[path] EXCEPT !.killed = @ \/ IsKilledBy(path, sup, victims)]]

Kill(sup, victims) ==
    /\ units' = [units EXCEPT ![sup] = UnitsKilled(sup, victims)]
    /\ exec' = Killed(sup, victims)
    /\ UNCHANGED executor_type

\* A process whose loop is over joins its threads and processes before it exits.
RunsInProcess(path) == path # <<>> /\ executor_type[NameOf(Parent(path))] = "process"

OnException(sup) ==
    IF RunsInProcess(sup) THEN [exec[sup] EXCEPT !.state = "exiting"] ELSE Ended("dead")

MutAbortKeepsUnits(sup) ==
    /\ exec' = [exec EXCEPT ![sup] = OnException(sup)]
    /\ UNCHANGED <<executor_type, units>>

\* How an exception, SystemExit and CancelledError included, ends a supervisor:
\* before_exit kills what is alive, on the way out of main_loop.
Abort(sup) ==
    /\ units' = [units EXCEPT ![sup] = UnitsKilled(sup, AlivesOf(sup))]
    /\ exec' = [Killed(sup, AlivesOf(sup)) EXCEPT ![sup] = OnException(sup)]
    /\ UNCHANGED executor_type

-----------------------------------------------------------------------------
(* A supervisor, at any level. *)

Boot(sup) ==
    /\ exec[sup].state = "starting"
    /\ exec' = [path \in Instances |->
            IF path = sup THEN [exec[path] EXCEPT !.state = "running"]
            ELSE IF \E w \in WorkersOf(sup) : path = Current(sup, w) THEN Started(path)
            ELSE exec[path]]
    /\ UNCHANGED <<executor_type, units>>

\* Some executor does not start: those before it are killed.
BootFails(sup) ==
    /\ exec[sup].state = "starting"
    /\ \E started \in (SUBSET WorkersOf(sup)) \ {WorkersOf(sup)} :
        /\ units' = [units EXCEPT ![sup] = UnitsKilled(sup, started)]
        /\ exec' = [path \in Instances |->
            IF path = sup
            THEN OnException(sup)
            ELSE IF \E w \in started : path = Current(sup, w)
            THEN [Started(path) EXCEPT !.killed = TRUE]
            ELSE exec[path]]
    /\ UNCHANGED executor_type

\* ctx.cmd is "stop": the root's comes from the exit signal, a unit's from stop().
StopRequested(sup) ==
    /\ exec[sup].state = "running" /\ exec[sup].term
    /\ exec' = [exec EXCEPT ![sup].state = "terminating"]
    /\ UNCHANGED <<executor_type, units>>

\* supervise_units: a LINGERING unit is killed ...
KillLingering(sup, w) ==
    /\ exec[sup].state = "running"
    /\ IsAlive(Current(sup, w)) /\ Retryable(sup, w) /\ ~units[sup][w].kill_requested
    /\ Kill(sup, {w})

MutReplaceLingering(sup, w) ==
    /\ exec[sup].state = "running"
    /\ ~IsCompleted(sup, w) /\ Retryable(sup, w)
    /\ LET next == Append(sup, <<w, units[sup][w].restart_count + 1>>) IN
        exec' = [exec EXCEPT ![next] = Started(next)]
    /\ units' = [units EXCEPT ![sup][w] =
                    [restart_count |-> @.restart_count + 1, kill_requested |-> FALSE]]
    /\ UNCHANGED executor_type

\* ... a FAILED one replaced under the next generation ...
Replace(sup, w) ==
    /\ exec[sup].state = "running"
    /\ ~IsAlive(Current(sup, w)) /\ ~IsCompleted(sup, w) /\ Retryable(sup, w)
    /\ LET next == Append(sup, <<w, units[sup][w].restart_count + 1>>) IN
        exec' = [exec EXCEPT ![next] = Started(next)]
    /\ units' = [units EXCEPT ![sup][w] =
                    [restart_count |-> @.restart_count + 1, kill_requested |-> FALSE]]
    /\ UNCHANGED executor_type

\* ... and either, once its quota is used up, is the end of the supervisor.
GiveUp(sup) ==
    /\ exec[sup].state = "running"
    /\ \E w \in WorkersOf(sup) : ~Retryable(sup, w) /\ ~IsCompleted(sup, w)
    /\ exec' = [exec EXCEPT ![sup].state = "reaping"]
    /\ UNCHANGED <<executor_type, units>>

\* all_units_completed.
Complete(sup) ==
    /\ exec[sup].state = "running"
    /\ \A w \in WorkersOf(sup) : IsCompleted(sup, w)
    /\ exec' = [exec EXCEPT ![sup].state = "terminating"]
    /\ UNCHANGED <<executor_type, units>>

Stopped(sup) == {Current(sup, w) : w \in WorkersOf(sup)}

\* shutdown_tick with something alive: stop_executors, then drain_units, which kills
\* the units it finds late.
ShutdownPass(sup, late) ==
    /\ exec[sup].state \in {"terminating", "reaping"} /\ AlivesOf(sup) # {}
    /\ late \subseteq AlivesOf(sup)
    /\ units' = [units EXCEPT ![sup] = UnitsKilled(sup, late)]
    /\ exec' = [path \in Instances |->
                  [Killed(sup, late)[path] EXCEPT !.term = @ \/ (path \in Stopped(sup) /\ IsAlive(path))]]
    /\ UNCHANGED executor_type

MutShutdownOnceDoomed(sup) ==
    /\ exec[sup].state \in {"terminating", "reaping"}
    /\ \A w \in AlivesOf(sup) : units[sup][w].kill_requested
    /\ \E how \in IF exec[sup].state = "reaping" THEN {"crashed"} ELSE {"stopped", "unheard"} :
        exec' = [exec EXCEPT ![sup] = Ended(how)]
    /\ UNCHANGED <<executor_type, units>>

ShutdownComplete(sup) ==
    /\ exec[sup].state \in {"terminating", "reaping"} /\ AlivesOf(sup) = {}
    /\ \E how \in IF exec[sup].state = "reaping" THEN {"crashed"} ELSE {"stopped", "unheard"} :
        exec' = [exec EXCEPT ![sup] = Ended(how)]
    /\ UNCHANGED <<executor_type, units>>

\* An exception leaves the main loop: a restart that raises, a callback of the root.
Fail(sup) ==
    /\ exec[sup].state \in {"running", "terminating", "reaping"}
    /\ Abort(sup)

Exit(sup) ==
    /\ exec[sup].state = "exiting" /\ AlivesOf(sup) = {}
    /\ exec' = [exec EXCEPT ![sup] = Ended("dead")]
    /\ UNCHANGED <<executor_type, units>>

Supervise(sup) ==
    \/ Boot(sup) \/ StopRequested(sup) \/ GiveUp(sup) \/ Complete(sup)
    \/ ShutdownComplete(sup) \/ Exit(sup)
    \/ \E w \in WorkersOf(sup) : KillLingering(sup, w) \/ Replace(sup, w)
    \/ \E late \in SUBSET AlivesOf(sup) : ShutdownPass(sup, late)

-----------------------------------------------------------------------------
(* Kills taking effect, and the leaves. *)

\* What ends with a process that is killed: its threads, and theirs.
IsInProcessOf(path, sup) ==
    /\ Len(path) > Len(sup) /\ SubSeq(path, 1, Len(sup)) = sup
    /\ \A n \in Len(sup)..(Len(path) - 1) :
         executor_type[NameOf(SubSeq(path, 1, n))] = "thread"

\* SIGKILL: no before_exit. Processes below go on.
VanishProcess(sup) ==
    /\ IsAlive(sup) /\ exec[sup].killed /\ RunsInProcess(sup)
    /\ exec' = [path \in Instances |->
            IF IsAlive(path) /\ (path = sup \/ IsInProcessOf(path, sup))
            THEN Ended("dead") ELSE exec[path]]
    /\ UNCHANGED <<executor_type, units>>

\* SystemExit or CancelledError in the main loop of a supervisor: like any exception.
DieInLoop(sup) ==
    /\ IsAlive(sup) /\ exec[sup].killed /\ ~RunsInProcess(sup)
    /\ Abort(sup)

\* A leaf ends, on its own or because it was stopped: in an OK state, or - unheard, in
\* an ERROR state or by an exception - as one that failed.
LeafEnds(leaf) ==
    /\ exec[leaf].state = "running"
    /\ \E how \in {"stopped", "dead"} : exec' = [exec EXCEPT ![leaf] = Ended(how)]
    /\ UNCHANGED <<executor_type, units>>

LeafDies(leaf) ==
    /\ exec[leaf].state = "running" /\ exec[leaf].killed
    /\ exec' = [exec EXCEPT ![leaf] = Ended("dead")]
    /\ UNCHANGED <<executor_type, units>>

ExitSignal ==
    /\ IsAlive(<<>>) /\ ~exec[<<>>].term
    /\ exec' = [exec EXCEPT ![<<>>].term = TRUE]
    /\ UNCHANGED <<executor_type, units>>

Terminated == (\A path \in Instances : ~IsAlive(path)) /\ UNCHANGED vars

Next ==
    \/ \E sup \in SupervisorInstances :
         Supervise(sup) \/ BootFails(sup) \/ Fail(sup) \/ VanishProcess(sup) \/ DieInLoop(sup)
    \/ \E leaf \in Leaves : LeafEnds(leaf) \/ LeafDies(leaf)
    \/ ExitSignal \/ Terminated

Spec == Init /\ [][Next]_vars

(***************************************************************************)
(* Fairness: supervisors keep ticking, kills take effect (no thread blocks *)
(* in native code for ever) and time passes, so a unit that each shutdown  *)
(* pass finds running is found late by one of them. Leaves owe nothing.    *)
(***************************************************************************)
FoundLate(sup, w) == \E late \in SUBSET AlivesOf(sup) : w \in late /\ ShutdownPass(sup, late)

Fairness ==
    /\ \A sup \in SupervisorInstances :
        /\ WF_vars(Boot(sup)) /\ WF_vars(StopRequested(sup))
        /\ WF_vars(ShutdownComplete(sup)) /\ WF_vars(Exit(sup))
        /\ WF_vars(DieInLoop(sup)) /\ WF_vars(VanishProcess(sup))
        /\ \A w \in WorkersOf(sup) : WF_vars(FoundLate(sup, w))
    /\ \A leaf \in Leaves : WF_vars(LeafDies(leaf))

FairSpec == Spec /\ Fairness

-----------------------------------------------------------------------------
(***************************************************************************)
(* Properties.                                                             *)
(***************************************************************************)
\* Whatever ended a supervisor - a clean end, an exception, its parent's kill - its
\* units are gone or have been told to die: kill_executors runs on every way out of
\* main_loop but the graceful one, which finds nothing to kill.
OrphansAreDoomed ==
    \A sup \in SupervisorInstances : ~IsAlive(sup) =>
        \A w \in AlivesOf(sup) : exec[Current(sup, w)].killed

\* Names on a path, which all incarnations of a worker share.
NamesOf(path) == [i \in DOMAIN path |-> path[i][1]]

\* Two incarnations of one worker: instances with the same names, of which the one is
\* not the other.
Overlap(p, q) == p # q /\ NamesOf(p) = NamesOf(q) /\ IsAlive(p) /\ IsAlive(q)

\* Told to die, or below a supervisor that has been told: kill_executors passes a kill on
\* when it takes effect, and not before.
IsDoomed(path) == \E n \in 0..Len(path) : exec[SubSeq(path, 1, n)].killed

\* Restarting a subtree never leaves two incarnations of one worker that both mean to
\* go on: of two that are alive, one has been told to die, or will be by a supervisor
\* above it that has.
SurvivorIsUnique ==
    \A p, q \in Instances : Overlap(p, q) => IsDoomed(p) \/ IsDoomed(q)

Phase(sup) ==
    CASE exec[sup].state \in {"none", "starting"} -> "booting"
      [] exec[sup].state = "running" -> "supervising"
      [] exec[sup].state \in {"terminating", "reaping"} -> "draining"
      [] exec[sup].state \in {"stopped", "unheard", "crashed"} -> "ended"
      [] exec[sup].state \in {"exiting", "dead"} -> "aborted"

Level(sup) == INSTANCE SupervisionContract WITH
    Workers      <- WorkersOf(sup),
    Quota        <- [w \in WorkersOf(sup) |-> QuotaOf(w)],
    phase        <- Phase(sup),
    alive        <- AlivesOf(sup),
    doomed       <- {w \in AlivesOf(sup) : exec[Current(sup, w)].killed},
    incarnation  <- [w \in WorkersOf(sup) |-> units[sup][w].restart_count]

\* The one end no contract covers: SIGKILL takes the process it runs in.
Vanishes(sup) ==
    \E top \in SupervisorInstances :
        VanishProcess(top) /\ (sup = top \/ IsInProcessOf(sup, top))

\* Supervisors compose: every supervisor of the tree, in each of its incarnations, keeps
\* SupervisionContract with its own units while it is stopped, killed and replaced
\* itself, up to its end or that of its process.
LevelContracts ==
    /\ \A sup \in SupervisorInstances : Level(sup)!Init
    /\ [][\A sup \in SupervisorInstances :
            [Level(sup)!Next]_(Level(sup)!vars) \/ Vanishes(sup)]_vars

\* An exit signal brings the whole tree down, through every level and through whatever
\* failures and restarts it meets.
TreeComesDown ==
    exec[<<>>].term ~> \A path \in Instances : ~IsAlive(path)
=============================================================================
