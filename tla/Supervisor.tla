----------------------------- MODULE Supervisor -----------------------------
(***************************************************************************)
(* A root supervisor, its activity queue and the executors of its workers  *)
(* (runsmith/supervisor.py, execution.py, the main_loop of worker.py).     *)
(*                                                                         *)
(* The supervisor is one process: its FSM (SupervisorFSM), whose transitions *)
(* are announced at one yield and ended at the next, and the tick its actors *)
(* run - drain the queue, look at every unit, judge. Every executor is      *)
(* another: the main loop of a worker whose actors may keep alive, emit *)
(* any event of their state or raise, and whose activities go through the  *)
(* bounded queue. Threads interleave with the tick at every read; a        *)
(* coroutine only runs while the supervisor is suspended between ticks.    *)
(*                                                                         *)
(* Time is abstract here: every activity is stamped 0, so a deadline is    *)
(* either armed or Inf, and an armed one may have passed whenever a unit   *)
(* is looked at (WorkerWatch has the clock). Process executors, whose      *)
(* queue is not a FIFO shared in memory, are not modelled by this module.  *)
(***************************************************************************)
EXTENDS Defaults, Evaluator, FiniteSets, Sequences

CONSTANTS
    Workers,       \* the registered workers: the keys of units
    FSM,           \* the state machine every worker runs
    QueueMax,      \* settings.activity_queue_maxsize; 0 is unbounded
    RestartQuota,  \* settings.worker_restart_quota
    ExecutorType   \* "thread" or "coroutine"

ASSUME WorkersAssumption  == IsFiniteSet(Workers) /\ Workers # {}
ASSUME FSMAssumption      == IsStateMachine(FSM)
ASSUME QueueAssumption    == QueueMax \in Nat
ASSUME QuotaAssumption    == RestartQuota \in Nat
ASSUME ExecutorAssumption == ExecutorType \in {"thread", "coroutine"}

VARIABLES
    state,        \* the supervisor's FSM state
    target,       \* where its last announced transition leads: state, unless in course
    pc,           \* where its thread is: at a yield ("idle", or "hooks" behind the
                  \* announcement of a transition) or in a tick
    cmd,          \* ctx.cmd: the command read at the last yield
    exception,    \* ctx.exception
    exit_signal,  \* the root term_event, set by the exit signal handlers
    units,        \* worker -> SupervisionUnit, its evaluator reduced to the expectation
    execs,        \* worker -> the executor of its current incarnation
    queue,        \* the activity queue
    drained,      \* activities taken in this drain
    todo,         \* units this pass of supervise_units has not looked at yet
    restarting    \* the unit whose status asked for restart_unit, if any

vars == <<state, target, pc, cmd, exception, exit_signal, units, execs, queue,
          drained, todo, restarting>>

-----------------------------------------------------------------------------
(* Activities, units and executors. *)

Beat == [kind |-> "heartbeat", transition |-> <<>>]

Transition(kind, src, tgt) == [kind |-> kind, transition |-> <<src, tgt>>]

\* What a worker yields; the queue carries it with the fields of make_activity.
Activities ==
    [kind : {"heartbeat"}, transition : {<<>>}]
    \cup [kind : {"transition_begin", "transition_end"},
          transition : States(FSM) \X States(FSM)]

Messages ==
    [worker_name : Workers, generation : Nat,
     kind : {"heartbeat"}, transition : {<<>>}]
    \cup [worker_name : Workers, generation : Nat,
          kind : {"transition_begin", "transition_end"},
          transition : States(FSM) \X States(FSM)]

MutStampedNoGeneration(w, act) ==
    [worker_name |-> w, kind |-> act.kind, transition |-> act.transition]

Stamped(w, act) ==
    [worker_name |-> w, generation |-> units[w].generation,
     kind |-> act.kind, transition |-> act.transition]

NewUnit(generation, restart_count) ==
    [generation     |-> generation,
     restart_count  |-> restart_count,
     kill_requested |-> FALSE,
     expectation    |-> NewExpectation(FSM)]

\* An executor that has not been started.
NewExecutor ==
    [pc |-> "unstarted", state |-> InitialState(FSM), act |-> Beat,
     term |-> FALSE, killed |-> FALSE]

\* start(): the main loop is about to put its initial heartbeat.
Started == [NewExecutor EXCEPT !.pc = "put"]

\* An executor whose main loop is over keeps the state it ended in.
Ended(exec, how) == [exec EXCEPT !.pc = how, !.act = Beat, !.killed = FALSE]

IsAlive(w) == execs[w].pc \in {"put", "loop", "hooks"}

Outcome(w) == TerminalOutcome(FSM, units[w].expectation.state)

MutRetryableOnceMore(w) == units[w].restart_count <= RestartQuota

Retryable(w) == units[w].restart_count < RestartQuota

\* SupervisionUnit.status, late standing for ~evaluator.is_healthy(now).
Status(w, late) ==
    CASE IsAlive(w) /\ (late \/ units[w].kill_requested) -> "LINGERING"
      [] IsAlive(w) /\ ~late /\ ~units[w].kill_requested -> "HEALTHY"
      [] ~IsAlive(w) /\ Outcome(w) = "OK" /\ ~units[w].kill_requested -> "COMPLETED"
      [] OTHER -> "FAILED"

\* The units that can be found late: their evaluator has a deadline armed.
Watched == {w \in Workers : IsArmed(units[w].expectation)}

MutCompletedByVerdict == \A w \in Workers : Outcome(w) = "OK"

AllUnitsCompleted == \A w \in Workers : Status(w, FALSE) = "COMPLETED"

MutDownOnceKilled == \A w \in Workers : ~IsAlive(w) \/ units[w].kill_requested

AllExecutorsDown == \A w \in Workers : ~IsAlive(w)

\* SupervisionUnit.kill for each of the units in victims: only the first request
\* reaches the executor, and nothing tells when it takes effect.
Kill(victims) ==
    /\ units' = [w \in Workers |->
                    [units[w] EXCEPT !.kill_requested = @ \/ w \in victims]]
    /\ execs' = [w \in Workers |->
                    [execs[w] EXCEPT !.killed =
                        @ \/ (w \in victims /\ IsAlive(w) /\ ~units[w].kill_requested)]]

-----------------------------------------------------------------------------
(* The supervisor. *)

\* What the driver answers a yield of the supervisor's own main loop with.
Command == IF exit_signal THEN "stop" ELSE "tick"

\* What the actor returned: a heartbeat, or the announcement of a transition,
\* whose state is still its source's.
Emit(event) ==
    /\ IF event = "keepalive" THEN pc' = "idle" /\ UNCHANGED target
       ELSE pc' = "hooks" /\ target' = TargetState(SupervisorFSM, state, event)
    /\ cmd' = Command
    /\ UNCHANGED state

\* An exception leaves the main loop: before_exit(False) kills what is alive.
Abort(exc) ==
    /\ pc' = "aborted"
    /\ exception' = exc
    /\ Kill({w \in Workers : IsAlive(w)})

Init ==
    /\ state = "starting" /\ target = "starting" /\ pc = "idle"
    /\ cmd = "tick" /\ exception = "none"
    /\ exit_signal = FALSE
    /\ units = [w \in Workers |-> NewUnit(0, 0)]
    /\ execs = [w \in Workers |-> NewExecutor]
    /\ queue = <<>> /\ drained = 0
    /\ todo = {} /\ restarting = {}

\* SIGTERM, SIGINT, SIGQUIT or SIGABRT, at any time.
ExitSignal ==
    /\ pc \notin {"done", "aborted"} /\ ~exit_signal
    /\ exit_signal' = TRUE
    /\ UNCHANGED <<state, target, pc, cmd, exception, units, execs, queue,
                   drained, todo, restarting>>

\* The hooks (which log), the change of state, and the end of the transition.
FinishTransition ==
    /\ pc = "hooks"
    /\ state' = target /\ pc' = "idle" /\ cmd' = Command
    /\ UNCHANGED <<target, exception, exit_signal, units, execs, queue, drained, todo, restarting>>

\* The main loop is over once it is resumed in a terminal state.
LoopEnds ==
    /\ pc = "idle" /\ state \in TerminalStates(SupervisorFSM)
    /\ pc' = "done"
    /\ UNCHANGED <<state, target, cmd, exception, exit_signal, units, execs, queue,
                   drained, todo, restarting>>

\* _boot: fresh units, every executor started.
Boot ==
    /\ pc = "idle" /\ state = "starting"
    /\ execs' = [w \in Workers |-> Started]
    /\ Emit("run")
    /\ UNCHANGED <<exception, exit_signal, units, queue, drained, todo, restarting>>

\* _boot, start() or clone() of some unit raising after others were started. What
\* a started executor does before the failure is modelled as if it came after it:
\* neither sees the other.
BootFails ==
    /\ pc = "idle" /\ state = "starting"
    /\ \E started \in SUBSET Workers :
        /\ started # Workers
        /\ units' = [w \in Workers |->
                        [units[w] EXCEPT !.kill_requested = w \in started]]
        /\ execs' = [w \in Workers |->
                        IF w \in started THEN [Started EXCEPT !.killed = TRUE]
                        ELSE execs[w]]
    /\ pc' = "aborted" /\ exception' = "other"
    /\ UNCHANGED <<state, target, cmd, exit_signal, queue, drained, todo, restarting>>

\* The actor of the current state is called; only the running one looks at cmd.
StopRequested ==
    /\ pc = "idle" /\ state = "running" /\ cmd = "stop"
    /\ Emit("complete")
    /\ UNCHANGED <<exception, exit_signal, units, execs, queue, drained, todo, restarting>>

BeginTick ==
    /\ pc = "idle"
    /\ \/ state = "running" /\ cmd # "stop"
       \/ state \in {"terminating", "reaping"}
    /\ pc' = "drain" /\ drained' = 0
    /\ UNCHANGED <<state, target, cmd, exception, exit_signal, units, execs, queue,
                   todo, restarting>>

\* drain_activity_queue: the budget of a pass is the size of the queue.
MutBudgetOneShort == QueueMax > 0 /\ drained + 1 >= QueueMax

BudgetSpent == QueueMax > 0 /\ drained >= QueueMax

\* Activities the drain drops: those of an earlier incarnation, and heartbeats
\* of a worker that was asked to stop.
MutDropsNoGeneration(a) == execs[a.worker_name].term /\ a.kind = "heartbeat"

MutDropsAllOnceStopped(a) ==
    \/ a.generation # units[a.worker_name].generation
    \/ execs[a.worker_name].term

Drops(a) ==
    \/ a.generation # units[a.worker_name].generation
    \/ execs[a.worker_name].term /\ a.kind = "heartbeat"

MutUncounted == 0

\* drained += 1, left out where it limits nothing.
Counted == IF QueueMax = 0 THEN 0 ELSE drained + 1

DrainOne ==
    /\ pc = "drain" /\ ~BudgetSpent /\ queue # <<>>
    /\ LET a == Head(queue) IN
        units' = IF Drops(a) THEN units
                 ELSE [units EXCEPT ![a.worker_name].expectation =
                            Record(FSM, @, a.kind, a.transition, 0)]
    /\ queue' = Tail(queue)
    /\ drained' = Counted
    /\ UNCHANGED <<state, target, pc, cmd, exception, exit_signal, execs, todo, restarting>>

DrainDone ==
    /\ pc = "drain" /\ (BudgetSpent \/ queue = <<>>)
    /\ drained' = 0
    /\ IF state = "running" THEN pc' = "supervise" /\ todo' = Workers
                            ELSE pc' = "shutdown" /\ UNCHANGED todo
    /\ UNCHANGED <<state, target, cmd, exception, exit_signal, units, execs, queue, restarting>>

\* supervise_units, one unit of the pass: its status is read here ...
Supervise(w) ==
    /\ pc = "supervise" /\ restarting = {} /\ w \in todo
    /\ \E late \in BOOLEAN :
        /\ late => w \in Watched
        /\ \/ /\ Status(w, late) \in {"HEALTHY", "COMPLETED"}
              /\ todo' = todo \ {w}
              /\ UNCHANGED <<target, pc, cmd, exception, restarting>>
           \/ /\ Status(w, late) \in {"LINGERING", "FAILED"} /\ Retryable(w)
              /\ todo' = todo \ {w} /\ restarting' = {w}
              /\ UNCHANGED <<target, pc, cmd, exception>>
           \/ /\ Status(w, late) \in {"LINGERING", "FAILED"} /\ ~Retryable(w)
              /\ exception' = "retry_exhausted"
              /\ todo' = {}
              /\ Emit("error")
              /\ UNCHANGED restarting
    /\ UNCHANGED <<state, exit_signal, units, execs, queue, drained>>

\* ... and the executor is read again by restart_unit, which only asks a live
\* one to terminate; the unit is replaced by a later pass, once it has exited.
KillLingering(w) ==
    /\ w \in restarting /\ IsAlive(w)
    /\ Kill({w})
    /\ restarting' = {}
    /\ UNCHANGED <<state, target, pc, cmd, exception, exit_signal, queue, drained, todo>>

MutSuccessorInheritsKill(w) ==
    [NewUnit(units[w].generation + 1, units[w].restart_count + 1)
        EXCEPT !.kill_requested = units[w].kill_requested]

Successor(w) == NewUnit(units[w].generation + 1, units[w].restart_count + 1)

MutReplaceUnchecked(w) ==
    /\ w \in restarting
    /\ units' = [units EXCEPT ![w] = Successor(w)]
    /\ execs' = [execs EXCEPT ![w] = Started]
    /\ restarting' = {}
    /\ UNCHANGED <<state, target, pc, cmd, exception, exit_signal, queue, drained, todo>>

Replace(w) ==
    /\ w \in restarting /\ ~IsAlive(w)
    /\ units' = [units EXCEPT ![w] = Successor(w)]
    /\ execs' = [execs EXCEPT ![w] = Started]
    /\ restarting' = {}
    /\ UNCHANGED <<state, target, pc, cmd, exception, exit_signal, queue, drained, todo>>

\* restart_unit raising (clone(), or start() of the new executor): the unit is
\* left without a running executor and the exception ends the supervisor.
ReplaceFails(w) ==
    /\ w \in restarting /\ ~IsAlive(w)
    /\ LET others == {v \in Workers \ {w} : IsAlive(v)} IN
        /\ units' = [v \in Workers |->
                IF v = w THEN Successor(w)
                ELSE [units[v] EXCEPT !.kill_requested = @ \/ v \in others]]
        /\ execs' = [v \in Workers |->
                IF v = w THEN NewExecutor
                ELSE [execs[v] EXCEPT !.killed =
                        @ \/ (v \in others /\ ~units[v].kill_requested)]]
    /\ pc' = "aborted" /\ exception' = "other" /\ restarting' = {} /\ todo' = {}
    /\ UNCHANGED <<state, target, cmd, exit_signal, queue, drained>>

\* The end of supervision_tick.
Judge ==
    /\ pc = "supervise" /\ todo = {} /\ restarting = {}
    /\ Emit(IF AllUnitsCompleted THEN "complete" ELSE "keepalive")
    /\ UNCHANGED <<exception, exit_signal, units, execs, queue, drained, todo, restarting>>

\* shutdown_tick after its drain.
ShutdownComplete ==
    /\ pc = "shutdown" /\ AllExecutorsDown
    /\ Emit("complete")
    /\ UNCHANGED <<exception, exit_signal, units, execs, queue, drained, todo, restarting>>

\* stop_executors, then drain_units: late are the units found past a deadline.
ShutdownPass(late) ==
    /\ pc = "shutdown" /\ ~AllExecutorsDown
    /\ late \subseteq Watched
    /\ LET lingering == {w \in Workers : Status(w, w \in late) = "LINGERING"} IN
        /\ units' = [w \in Workers |->
                [units[w] EXCEPT !.kill_requested = @ \/ w \in lingering]]
        /\ execs' = [w \in Workers |->
                [execs[w] EXCEPT
                    !.term = TRUE,
                    !.killed = @ \/ (w \in lingering /\ ~units[w].kill_requested)]]
    /\ Emit("keepalive")
    /\ UNCHANGED <<exception, exit_signal, queue, drained, todo, restarting>>

\* The caller of run() ends it: a sync on_activity callback raises at a yield, also
\* at the announcement or at the end of a transition, or the task of an async run()
\* is cancelled, which awaits nothing but the sleep in front of a tick. Not an
\* Exception inside the loop, so ctx.exception is left alone.
Interrupted ==
    /\ \/ ExecutorType = "thread" /\ pc \in {"idle", "hooks"}
       \/ ExecutorType = "coroutine" /\ pc = "idle"
                                     /\ state \in {"running", "terminating", "reaping"}
    /\ Abort(exception)
    /\ UNCHANGED <<state, target, cmd, exit_signal, queue, drained, todo, restarting>>

Tick ==
    \/ FinishTransition \/ LoopEnds
    \/ Boot \/ StopRequested \/ BeginTick \/ DrainOne \/ DrainDone
    \/ \E w \in Workers : Supervise(w) \/ KillLingering(w) \/ Replace(w)
    \/ Judge \/ ShutdownComplete \/ \E late \in SUBSET Watched : ShutdownPass(late)

Failure == BootFails \/ Interrupted \/ \E w \in Workers : ReplaceFails(w)

-----------------------------------------------------------------------------
(* The executors. *)

\* A coroutine runs while the supervisor is suspended, which it is not between the
\* two yields of a transition; a thread at any time.
MayRun == ExecutorType = "thread" \/ pc \in {"idle", "done", "aborted"}

UnchangedBySupervisor ==
    UNCHANGED <<state, target, pc, cmd, exception, exit_signal, units, drained, todo, restarting>>

HasRoom == QueueMax = 0 \/ Len(queue) < QueueMax

\* activity_queue.put, which blocks while the queue is full; the loop resumes
\* behind the yield the activity came from.
Put(w) ==
    /\ MayRun /\ execs[w].pc = "put" /\ HasRoom
    /\ queue' = Append(queue, Stamped(w, execs[w].act))
    /\ execs' = [execs EXCEPT ![w] =
            IF execs[w].act.kind = "transition_begin" THEN [@ EXCEPT !.pc = "hooks"]
            ELSE [@ EXCEPT !.pc = "loop", !.act = Beat]]
    /\ UnchangedBySupervisor

\* The actor of the state returns. The one of the initial state always emits.
Acts(w) ==
    /\ MayRun /\ execs[w].pc = "loop" /\ execs[w].state \notin TerminalStates(FSM)

Keepalive(w) ==
    /\ Acts(w) /\ execs[w].state # InitialState(FSM)
    /\ execs' = [execs EXCEPT ![w].pc = "put"]
    /\ UNCHANGED queue /\ UnchangedBySupervisor

BeginTransition(w, event) ==
    /\ Acts(w) /\ event \in Events(FSM, execs[w].state)
    /\ execs[w].state = InitialState(FSM) => event = FSM.initial_event
    /\ execs' = [execs EXCEPT ![w] = [@ EXCEPT !.pc = "put", !.act =
            Transition("transition_begin", execs[w].state,
                       TargetState(FSM, execs[w].state, event))]]
    /\ UNCHANGED queue /\ UnchangedBySupervisor

EndTransition(w) ==
    /\ MayRun /\ execs[w].pc = "hooks"
    /\ LET src == execs[w].act.transition[1]
           tgt == execs[w].act.transition[2]
       IN  execs' = [execs EXCEPT ![w] = [@ EXCEPT
                        !.pc = "put", !.state = tgt,
                        !.act = Transition("transition_end", src, tgt)]]
    /\ UNCHANGED queue /\ UnchangedBySupervisor

\* An actor or a hook raises.
Raise(w) ==
    /\ MayRun
    /\ \/ execs[w].pc = "loop" /\ execs[w].state \notin TerminalStates(FSM)
                               /\ execs[w].state # InitialState(FSM)
       \/ execs[w].pc = "hooks"
    /\ execs' = [execs EXCEPT ![w] = Ended(@, "broken")]
    /\ UNCHANGED queue /\ UnchangedBySupervisor

\* The loop ends in a terminal state.
Exit(w) ==
    /\ MayRun /\ execs[w].pc = "loop" /\ execs[w].state \in TerminalStates(FSM)
    /\ execs' = [execs EXCEPT ![w] = Ended(@, "finished")]
    /\ UNCHANGED queue /\ UnchangedBySupervisor

\* SystemExit or CancelledError reaches the worker, wherever it is.
Die(w) ==
    /\ MayRun /\ IsAlive(w) /\ execs[w].killed
    /\ execs' = [execs EXCEPT ![w] = Ended(@, "broken")]
    /\ UNCHANGED queue /\ UnchangedBySupervisor

Work(w) ==
    \/ Put(w) \/ Keepalive(w) \/ EndTransition(w) \/ Raise(w) \/ Exit(w) \/ Die(w)
    \/ \E event \in Events(FSM, execs[w].state) : BeginTransition(w, event)

-----------------------------------------------------------------------------
\* run() has returned or raised and every executor is gone.
Terminated ==
    /\ pc \in {"done", "aborted"} /\ AllExecutorsDown
    /\ UNCHANGED vars

Next == Tick \/ Failure \/ ExitSignal \/ (\E w \in Workers : Work(w)) \/ Terminated

Spec == Init /\ [][Next]_vars

(***************************************************************************)
(* Fairness. The supervisor's thread runs. A worker's thread runs too, but *)
(* its actors may block or keep alive for ever; what is not left to them:  *)
(* a put proceeds if there is room again and again, hooks return or raise, *)
(* the initial state emits at once and the loop ends in a terminal state.  *)
(* A kill takes effect in the end (cooperative threads). And time passes:  *)
(* a worker that every look finds with a deadline armed is found late by   *)
(* one of them.                                                            *)
(***************************************************************************)
InitialEmit(w) ==
    /\ execs[w].state = InitialState(FSM)
    /\ BeginTransition(w, FSM.initial_event)

FoundLate(w) == \E late \in SUBSET Watched : w \in late /\ ShutdownPass(late)

Fairness ==
    /\ WF_vars(Tick)
    /\ \A w \in Workers :
        /\ SF_vars(Put(w))
        /\ WF_vars(InitialEmit(w))
        /\ WF_vars(EndTransition(w) \/ Raise(w))
        /\ WF_vars(Exit(w))
        /\ WF_vars(Die(w))
        /\ SF_vars(FoundLate(w))

FairSpec == Spec /\ Fairness

-----------------------------------------------------------------------------
(***************************************************************************)
(* Properties.                                                             *)
(***************************************************************************)

Expectations ==
    [state : States(FSM), transition_deadline : Nat \cup {Inf},
     next_heartbeat : Nat \cup {Inf}, state_expiry : Nat \cup {Inf}]

SupervisionUnits ==
    [generation : Nat, restart_count : Nat,
     kill_requested : BOOLEAN, expectation : Expectations]

Executors ==
    [pc : {"unstarted", "put", "loop", "hooks", "finished", "broken"},
     state : States(FSM), act : Activities, term : BOOLEAN, killed : BOOLEAN]

\* Every variable has its type; an activity in flight is one make_activity builds.
TypeOK ==
    /\ state \in States(SupervisorFSM) /\ target \in States(SupervisorFSM)
    /\ pc \in {"idle", "hooks", "drain", "supervise", "shutdown", "done", "aborted"}
    /\ cmd \in {"tick", "stop"}
    /\ exception \in {"none", "retry_exhausted", "other"}
    /\ exit_signal \in BOOLEAN
    /\ units \in [Workers -> SupervisionUnits]
    /\ execs \in [Workers -> Executors]
    /\ queue \in Seq(Messages)
    /\ drained \in Nat
    /\ todo \subseteq Workers
    /\ restarting \subseteq Workers

\* The phases of a tick belong to the state whose actor runs it: units are only
\* supervised (and replaced) while "running", and only shut down after it. A
\* transition is in course only between its two yields, and the loop is over only
\* in a terminal state.
ControlOK ==
    /\ target \in {"starting", "running", "terminating", "reaping", "stopped", "crashed"}
    /\ state # target =>
            pc \in {"hooks", "aborted"} /\ state \notin TerminalStates(SupervisorFSM)
    /\ pc = "hooks" => state # target
    /\ pc = "done" => target \in {"stopped", "crashed"}
    /\ target \in {"stopped", "crashed"} => pc \in {"hooks", "idle", "done", "aborted"}
    /\ pc = "drain" => target \in {"running", "terminating", "reaping"}
    /\ pc = "supervise" => target = "running"
    /\ pc = "shutdown" => target \in {"terminating", "reaping"}
    /\ target = "starting" /\ pc # "aborted" => pc = "idle" /\ AllExecutorsDown
    /\ restarting # {} => pc = "supervise"

\* The supervisor announces that it has stopped or crashed, and is so, only when
\* every executor is down (shutdown_tick completes on all_executors_down): no
\* callback and no caller of run() sees the end with a worker still running.
NoOrphans ==
    {state, target} \cap {"stopped", "crashed"} # {} => \A w \in Workers : ~IsAlive(w)

ReportsTruly(exec) ==
    /\ exec.pc = "hooks" => exec.act.kind = "transition_begin"
    /\ exec.pc \notin {"put", "hooks"} => exec.act = Beat
    /\ exec.act.kind = "transition_begin" =>
            /\ exec.state = exec.act.transition[1]
            /\ exec.state \notin TerminalStates(FSM)
    /\ exec.act.kind = "transition_end" => exec.state = exec.act.transition[2]

\* What a worker is about to report is true of it: it announces a transition
\* while it is still in a live state, runs hooks only between the two reports of
\* one, and reports its end once it is in the target state.
LoopOK == \A w \in Workers : ReportsTruly(execs[w])

\* A terminal verdict of the evaluator is always the current incarnation's own
\* end: nothing an earlier one left in the queue can retire its successor
\* (the generation fence of drain_activity_queue).
VerdictIsEarned ==
    \A w \in Workers : Outcome(w) # "none" =>
        units[w].expectation.state = execs[w].state

\* The end of a transition that has not been recorded yet.
IsEndOf(a, w) ==
    /\ a.worker_name = w /\ a.kind = "transition_end"
    /\ a.generation = units[w].generation

\* The supervisor never loses a transition: the state it believes a worker is in
\* becomes the worker's own once the last transition_end in flight is recorded,
\* whatever the drain dropped on the way (broken workers may take one with them).
EvaluatorCatchesUp ==
    \A w \in Workers : execs[w].pc # "broken" =>
        LET inFlight == {i \in DOMAIN queue : IsEndOf(queue[i], w)} IN
        IF execs[w].pc = "put" /\ execs[w].act.kind = "transition_end"
        THEN execs[w].act.transition[2] = execs[w].state
        ELSE IF inFlight = {} THEN units[w].expectation.state = execs[w].state
        ELSE LET last == CHOOSE i \in inFlight : \A j \in inFlight : j <= i
             IN  queue[last].transition[2] = execs[w].state

\* Killing happens once per unit, so the one request must be for the incarnation
\* that is alive: a unit marked kill_requested whose executor runs has a kill
\* pending, and a supervisor that aborted has asked every live executor to die.
KillsArePending ==
    \A w \in Workers : IsAlive(w) =>
        (units[w].kill_requested \/ pc = "aborted" => execs[w].killed)

\* The supervisor reports an exhausted quota (ctx.exception) exactly when it has
\* announced that it gives up - reaping, then crashed - and some unit has then really
\* used its quota up; no unit is ever restarted beyond it (retryable, restart_unit).
\* The announcement counts, not the state: a callback may end run() between the two.
EscalationIsJustified ==
    /\ \A w \in Workers : /\ units[w].restart_count <= RestartQuota
                          /\ units[w].generation = units[w].restart_count
    /\ (exception = "retry_exhausted") <=> (target \in {"reaping", "crashed"})
    /\ exception = "retry_exhausted" =>
            \E w \in Workers : units[w].restart_count = RestartQuota

EndedWell(w) == execs[w].pc = "finished" /\ TerminalOutcome(FSM, execs[w].state) = "OK"

\* Unless it was told to stop, the supervisor announces that it leaves "running" for
\* "terminating" only if every worker has itself ended in an OK state (all_units_completed),
\* judged from queued activities while the workers were moving.
StopsOnlyWhenAllCompleted ==
    [][target = "running" /\ target' = "terminating" /\ cmd # "stop" =>
          \A w \in Workers : ~IsAlive(w) /\ TerminalOutcome(FSM, execs[w].state) = "OK"]_vars

\* A worker that ended in an OK state is retired, never restarted (the
\* Terminal.OK row of the docs' table), unless its kill had been requested.
CompletedNeverRestarted ==
    [][\A w \in Workers : units'[w].generation # units[w].generation =>
          ~EndedWell(w) \/ units[w].kill_requested]_vars

(***************************************************************************)
(* The supervisor implements SupervisionContract.                          *)
(***************************************************************************)
\* A phase begins with the announcement of the transition into it.
Phase ==
    CASE pc = "aborted" -> "aborted"
      [] pc = "done" -> "ended"
      [] pc \notin {"done", "aborted"} /\ target = "starting" -> "booting"
      [] pc \notin {"done", "aborted"} /\ target = "running" -> "supervising"
      [] OTHER -> "draining"

Contract == INSTANCE SupervisionContract WITH
    Quota       <- [w \in Workers |-> RestartQuota],
    phase       <- Phase,
    alive       <- {w \in Workers : IsAlive(w)},
    doomed      <- {w \in Workers : IsAlive(w) /\ execs[w].killed},
    incarnation <- [w \in Workers |-> units[w].generation]

\* Every step of the supervisor and its executors is a step of the contract: no
\* worker runs twice, is replaced beyond its quota or after the supervisor began
\* to drain, or survives the end of run() without having been told to die.
ContractSpec == Contract!Spec

\* A supervisor that was asked to stop, or that gave up, does end: no worker can
\* keep its drain busy, outlive its kill or block the shutdown for ever.
ShutdownEnds ==
    exit_signal \/ target = "reaping" ~> pc \in {"done", "aborted"}

\* Backpressure is not a deadlock: a worker blocked on the full queue puts its
\* activity in the end, or dies, unless the supervisor aborted.
BlockedProducerProceeds ==
    \A w \in Workers : execs[w].pc = "put" ~> (execs[w].pc # "put" \/ pc = "aborted")
=============================================================================
