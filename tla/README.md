# Runsmith in TLA+

Runsmith runs workers under supervision. A worker is a class whose behaviour is a
finite state machine; an executor (a thread, a process or an asyncio task) drives
its main loop; a supervisor, itself a worker with a machine of its own, receives
an activity for everything its workers do, compares them with declared timeouts,
kills what is late, restarts what has failed until a quota is used up, and shuts
everything down on an exit signal.

This directory models that machinery, checks it with TLC and proves its safety with
TLAPS, all the safety properties the runs check. Paths below are relative to `src/runsmith/` unless they start otherwise.

## 1. Inventory

| Part | State it keeps | Operations | Talks to |
| --- | --- | --- | --- |
| State machine (`state.py`, `constraints.py`) | table, initial and terminal states, constraints; immutable once built | queries: target state, events, terminal outcome | shared by a worker and its evaluator (each deep-copies it) |
| Default machines (`defaults.py`) | none | two tables: `DefaultWorkerFSM`, `SupervisorFSM` (one extra state, `reaping`) | the default of every worker, the fixed one of every supervisor |
| Worker main loop (`worker.py`) | `_state`, `ctx` (command, history, exception), `generation` | `main_loop`: call the actor of the state, yield a heartbeat or the two reports of a transition around its hooks | resumed by its driver with `"tick"` or `"stop"` |
| Actor throttle (`worker.py`, `ActorFunction`) | `__last_at` | `__call__`: sleep, then invoke | paces supervisors (`supervision_interval`) and user actors |
| Executors (`execution.py`, `utils.kill_thread`) | thread / process / task, `term_event` | start, stop (sets `term_event`), kill, `is_alive`; drive the loop and put every activity in the queue | one per incarnation of a worker |
| Activity queue (`queue.Queue`, `asyncio.Queue`, `multiprocessing.Queue`) | at most `activity_queue_maxsize` activities | blocking put, `get_nowait` | all workers of one supervisor to that supervisor |
| Evaluator (`evaluator.py`) | an `Expectation`: believed state, three deadlines | `record`, `is_healthy`, `terminal_outcome` | one per incarnation, fed by the drain |
| Supervisor (`supervisor.py`) | `units` (worker, executor, evaluator, counters), the queue, its own FSM state | boot; tick = drain, look at each unit, judge; restart; shutdown tick | parent's queue or, for the root, `run()` with `on_activity` and the signal handlers |
| Callback queue (`utils.CoroutineQueue`) | pending tasks, collected errors | submit (drop oldest), flush, drain | the async root's `run()`, one task per call of `on_activity` |
| Nested supervisors (`supervisor.py`) | a supervisor as the worker of a unit | stopped by its `term_event`, killed by its executor; `before_exit` kills its own units | its parent, like any worker |
| Set-up: machines (`state.py`, `evaluator.from_fsm`, pretty printer) | a table and constraints on the way to a machine | build, verify, compile, print | read by every other part |
| Set-up: classes (`decorators.py`, `__init_subclass__`) | `_hooks` of each class | class statements | `main_loop` looks hooks and actors up |
| Set-up: clones (`wrapped_init`, `clone`) | `_meta` of a worker | construct, clone | `materialize_units`, once per incarnation |
| Set-up: registration and boot (`supervisor.py`) | templates, units, executors | `register_workers`, `materialize_units`, start, restart | the program, also from `on_activity` |
| Settings (`settings.py`) | one object, made at import | resolve and coerce each field | sizes, quotas and intervals everywhere |

What is hard here, and what has to hold nevertheless:

* **Everything about a worker is read twice**: its liveness from the executor, at the
  moment; its condition from activities that were queued some time ago. Verdicts must
  not be taken from an earlier incarnation, and no transition may get lost.
* **Restarts** delete and rebuild a unit while its old activities are in flight and its
  old thread may refuse to die: at most one incarnation runs, at most quota restarts
  happen, each kill reaches the incarnation it is meant for.
* **Shutdown** must end although workers block on a full queue that only the
  supervisor drains, ignore the stop request, or keep sending heartbeats; and it must not
  end while something still runs.
* **Failure at any point**: boots and restarts that raise half-way, callbacks that raise,
  a cancelled `run()`, an exit signal in any phase.
* **Kills are not ends**: a thread may ignore its kill, its ident may be another thread's by then,
  a killed process takes buffered activities, permits and locks with it, and a killed
  supervisor's own workers are somebody's still.
* **User code in the middle**: actors, hooks and callbacks raise, hang and are cancelled
  anywhere, and must nevertheless see a consistent context.
* **Set-up code accepts what users write**: tables with holes, classes with mixins, constructors of any
  signature, names that clash, environment variables that do not parse.
* **Time**: deadlines are armed from the timestamps of activities and compared with the
  clock of a later tick.

`PROJECT.json` lists these hazards at the lines where they bite, with the properties
that would catch them.

## 2. Modules

    StateMachine          values of state.py: a machine as a record, its queries
      Defaults            the two shipped machines
      Evaluator           pure operators of evaluator.py over an Expectation
    Supervisor            one level: the core (extends Defaults and Evaluator)
      SupervisionContract   what it promises; Supervisor implements it
      SupervisorProofs, SupervisorFenceProofs, SupervisorContractProofs
    SupervisorTree        levels: supervisors as workers; each implements SupervisionContract
      SupervisorTreeProofs
    ProcessQueue          the queue of process executors under SIGKILL
      ActivityChannel       what a supervisor may rely on; ProcessQueue implements it
      ProcessQueueProofs
    Timing                the two mechanisms that have a clock:
      WorkerWatch           one live worker judged by the clock (extends Evaluator)
      Throttle              ActorFunction over a clock
      TimingProofs
    Runtime               three mechanisms of a running program:
      WorkerLoop            what the code of one worker sees (extends StateMachine)
      ThreadKill            kill_thread and the reuse of idents
      CoroutineQueue        callbacks of the async root
      RuntimeProofs
    SetUp                 what happens before a supervisor runs:
      MachineBuilder        from a table to a machine and a life on it (extends Evaluator)
      HookCollection        from class statements to hooks
      WorkerClone           from a constructor call to clones
      Registration          from templates to units and executors
      Settings              from three sources to values
      SetUpProofs

    MCSupervisor          machines and symmetry for TLC
    MCSupervisorTree      a tree for TLC
    MCTiming, MCRuntime, MCSetUp    the instances of Timing, Runtime and SetUp for TLC

`Timing`, `Runtime` and `SetUp` put independent modules side by side, so that one run and one
module of proofs serve several: a variable `part` says which of them a behaviour is about, the variables of the
others stay at one value. A state is a state of one module, and nothing is claimed about their composition.

### Supervisor

Each component of the running system is a process with its own program counter.

* The **supervisor** is `state` (its `_state`), `target` (where the transition it has announced leads), `pc`
  (suspended at a `yield`, or inside a tick: draining, supervising, shutting down), `cmd` (`ctx.cmd`, read at the last
  yield and so possibly stale), `exception` and `exit_signal`. Its own main loop stops twice in a transition: `Emit`
  announces it while `_state` is still the source, `FinishTransition` is what follows (its hooks, the change of state,
  the report of the end), `LoopEnds` the end of the loop. At each yield a new command is read and the caller's callback may
  raise (`Interrupted`), so a run may be aborted with the quota reported as exhausted and `_state` still `running`.
  The supervisor's own hooks are the shipped ones, which only log: `FinishTransition` does not raise.
  A tick is *not* atomic: `DrainOne` takes one activity, `Supervise(w)` reads one status,
  and `restart_unit` reads the executor again (`KillLingering` / `Replace`).
* A **unit** is its generation, counters, `kill_requested` and the evaluator's expectation. An
  **executor** is where its main loop is (`put`, `loop`, `hooks`, `finished`, `broken`), the worker's
  FSM state, the activity it is putting, `term_event` and a pending kill.
* **Workers are adversarial**: an actor may keep alive, emit any event of its state, raise, or do
  nothing; hooks may raise. So may the world: boots and restarts fail (`BootFails`,
  `ReplaceFails`), the caller's callback raises or cancels (`Interrupted`), the signal comes at any
  time.
* `ExecutorType` decides how they interleave: threads at any time (also inside a tick),
  coroutines only while the supervisor is suspended (`MayRun`).
* **Time is abstract**: activities are stamped 0, so a deadline is armed or not, and an armed one
  may or may not have passed whenever a unit is looked at.

One action stands for several statements where nothing can come between them that matters: the
starts of `_boot` (the supervisor reads nothing about an executor until all are started), and the
reads of `all_executors_down` and `all_units_completed` (each is monotone: once true of a unit it
stays true until the supervisor itself acts).
`drain_activity_queue`'s branch for an activity of an unknown worker is left out: `units` always has
an entry for every worker when a drain runs. `ThreadExecutor.kill` is assumed not to raise, and
finding the thread gone is the same as the thread ending right after.

### SupervisionContract

The promise without queue, evaluator or tick: every worker is launched once; only a worker that is
gone is replaced, while supervising, within its quota (of its own: a supervisor may have workers and
supervisors as units, whose quotas differ); a run ends with nothing alive, unless it is
aborted, and then every worker still there has been told to die. `Supervisor` refines it with
`alive` the running executors, `doomed` those with a pending kill, and `incarnation` the generations.

### SupervisorTree

An instance is a path from the root: the name and the generation of each unit on the way, so that a
replaced supervisor and its successor, each with a subtree, are both there. Each has its FSM state (or
how its loop ended), `term_event` and a pending kill; a supervisor has its units' restart counts and
kill requests. What `Supervisor` does in a tick is one action per unit looked at here (`Replace`,
`KillLingering`, `Escalate`, ...), and a verdict is open: any running unit may be found late, and one that ended
well may be looked at before its end was drained (`unheard`), in which case it counts as failed. Every way out of a
supervisor's loop but the graceful one kills its units (`Abort`, from `before_exit`), a thread or task
at its next step, a process at once; SIGKILL of a supervisor takes what runs in its process with it and
tells its own worker processes nothing (`VanishProcess`).

Levels compose by contract: `LevelContracts` says that every supervisor of the tree, in each incarnation,
implements the same `SupervisionContract` as `Supervisor` does, while it is itself stopped, killed and
replaced, until it ends or the process it runs in is killed (`Vanishes`).

### ProcessQueue and ActivityChannel

A put takes a permit of the queue's semaphore and leaves the activity in a buffer of its process; the
feeder thread takes the lock all processes share, writes, and releases (`FeedAcquire`, `FeedWrite`,
`FeedRelease`); a get returns the permit. A kill may come between any two of these, and takes what is buffered, the
permits of it and the lock if it holds it. The supervisor restarts whoever has ended and drains
behind its generation fence. What a drain takes of the current incarnation is `taken`; all of it is `recorded` too, until the
workers were told to stop (`StopExecutors`): from then on heartbeats are taken and dropped (`IsUnheeded`). A supervisor whose
executors are all down leaves (`Leave`), and since the drain of its last tick came before that look, what was fed in
between stays in the pipe. `ActivityChannel` is the promise of the channel as such: the activities of an incarnation are taken in order and
without a gap, an own end loses none, a kill the last ones at most.

### WorkerWatch

The same evaluator with real time. A worker stamps activities when it makes them, the bounded queue
delays them, a drain records them and the verdict compares deadlines with the clock of the verdict.
With `punctual` false the worker is slow or hangs anywhere; with `punctual` true it keeps its
contract with as much to spare as queue and tick may lose (`PutDelay + Lag`). It may be told to stop between a drain and a
verdict (`Stop`, at `told_at`), after which its heartbeats are dropped.

### Throttle

`__call__` stamps the call, computes the sleep from the *previous* stamp, and sleeps before it
invokes the actor.

### WorkerLoop

One incarnation from the first `next()` to its last breath. The generator stops at each yield (`Put`),
is resumed with a command (`Resume`), runs an actor or one hook at a time; whatever runs may raise, the
executor may interrupt it anywhere (a thread or task, where `except` and `finally` run) or make it vanish (a process).
The state, the report of the end, the command and `ctx.history` change at four different points, which is
what its properties are about.

### ThreadKill

`is_alive()`, the look at `threading.enumerate()`, the injection by ident and the target's reaction are steps of their
own, against threads that end and start in between and are given idents of threads that are gone. Each unit has its own
supervisor in its own thread.

### CoroutineQueue

One task per activity; a pass of `run()` (flush, then submit) is one step because tasks run only while `run()` is suspended.
Tasks begin, end, fail, or are cancelled before or after their first step; `run()` returns, raises, or is
cancelled while it drains.

### The set-up modules

* `MachineBuilder` walks a table of any rows, in any order, lists and verifies constraints one by one, compiles
  them one by one (a later one on the same key wins), and then drives a worker with actors for some of its states, and its
  evaluator, over what was accepted. What the printer shows of it is an operator, with dictionaries of its own (`Hints`).
* `HookCollection` executes class statements: bases (chains, two bases, mixins), decorated and undecorated methods,
  the copy of the inherited map, the check of coroutine functions against the class's mode. Two bases whose orders Python would
  weave into each other, or refuse, are left out (`AgreeOnTheRest`).
* `WorkerClone` constructs workers over signatures with each kind of parameter, collects `_meta` and clones clones.
  `inspect.Signature.bind` is modelled by its rules; `*args` keep the places they were given at.
* `Registration` registers batches whose names or modes clash, before and after the boot; boots, restarts and lets executors exit.
* `Settings` resolves each field from override, environment and default in turn, and converts it.

## 3. Properties

| Property | Run | Kind | Says |
| --- | --- | --- | --- |
| `TypeOK` | `threads` | invariant | the types, message shapes included |
| `NoOrphans` | `threads` | invariant | `stopped` and `crashed` are reached with nothing alive |
| `VerdictIsEarned` | `threads` | invariant | a terminal verdict is the current incarnation's own end |
| `EvaluatorCatchesUp` | `threads` | invariant | believed state = own state once what is in flight is recorded |
| `KillsArePending` | `threads` | invariant | an incarnation marked as killed, or left by an abort, has its kill pending |
| `EscalationIsJustified` | `threads` | invariant | an exhausted quota is reported iff giving up was announced, and then some unit has used its quota up; no unit exceeds it |
| `ContractSpec` | `threads` | refinement | `SupervisionContract` |
| `StopsOnlyWhenAllCompleted` | `threads` | action | without a stop request, `terminating` only after all ended well |
| `CompletedNeverRestarted` | `coroutines` | action | a worker that ended `Terminal.OK` is retired (violated with threads) |
| `ShutdownEnds` | `shutdown_liveness` | liveness | a requested or escalated shutdown ends |
| `BlockedProducerProceeds` | `shutdown_liveness` | liveness | no put stays blocked while there is a supervisor |
| `EverySecondIsLimited` | `timing` | invariant | every second invocation is an interval later |
| `SilenceIsNoticed`, `ActorResidenceIsNoticed` | `timing` | invariants | an overrun is unhealthy once all is recorded |
| `HeartbeatsBuyNoTime` | `timing` | invariant | a worker told to stop is unhealthy a heartbeat's time later, however much it beats |
| `PunctualIsHealthy` | `timing` | invariant | no false alarm |
| `StreamIsGapless` | `processes` | invariant | what is in the pipe continues what was taken, whoever was killed where |
| `EndIsHeard` | `processes` | invariant | the last word of a process that ended on its own is recorded; heartbeats after the stop are the exception |
| `PermitsAreAccounted` | `processes` | invariant | the capacity shrinks by what kills destroy, by no more |
| `ChannelSpec` | `processes` | refinement | `ActivityChannel` |
| `EveryPutArrives` | `processes` | liveness | no put blocks for ever and each is taken, before and after the stop, unless somebody is killed or restarted or the supervisor leaves first |
| `FailuresAreKept`, `ReturnIsClean` | `runtime` | invariants | each callback failure is in one place; `run()` returns with none left |
| `FailureIsReported` | `runtime` | liveness | a failure is logged before the supervisor stops, unless `run()` raises |
| `StrangersAreSpared` | `runtime` | invariant | a kill hits nobody who ran beside its target |
| `KillTakes` | `runtime` | liveness | a kill brings its target down, or the target swallowed it |
| `HistoryIsThePath` | `runtime` | invariant | user code finds `ctx.history` to be the path that was announced |
| `EndIsEarned` | `runtime` | invariant | an end is announced after all hooks, which ran in the state being left |
| `ExitIsTrue` | `runtime` | invariant | `before_exit` once at most, told the truth |
| `StopsWhenTold` | `runtime` | liveness | a cooperative worker ends when told to |
| `OrphansAreDoomed` | `tree` | invariant | what outlives its supervisor has been told to die |
| `SurvivorIsUnique` | `tree` | invariant | of two incarnations alive, one is doomed |
| `LevelContracts` | `tree` | refinement | every level implements `SupervisionContract` |
| `TreeComesDown` | `tree` | liveness | an exit signal ends every instance |
| `ConstructorIsExact` | `set_up` | invariant | accepted iff legal as a whole; accepted and closed iff `IsStateMachine` |
| `DeadlinesAreDeclared` | `set_up` | invariant | a worker's deadlines are those declared of where it is, and printed |
| `HooksAddUpAlongALine` | `set_up` | invariant | along single inheritance hooks add up in order, actors replace |
| `ClonesAreFaithful` | `set_up` | invariant | clones of clones are equivalent iff the arguments can be replayed, a shadowed one excepted |
| `UnitsAreAccounted` | `set_up` | invariant | no executor is forgotten; what runs is what was registered at the boot |
| `SettingsAreResolved` | `set_up` | invariant | settings are made iff each field's first source converts |

Operators named `Mut...` are seeded faults: each is a plausible mistake in the definition that follows
it, and the property listed with it in `PROJECT.json` ("mutants") must fail when it takes the
definition's place. They are used by nothing else. `ControlOK`, `LoopOK`, `Paced`, `BacklogIsLatest`, `LogIsTrue`,
`KillsOnce` and the other modules' `TypeOK` are parts of the inductive invariants of section 5: no run
checks them on its own, the proofs do. `LostOnlyInHoles` (a worker without a next step is in a hole of its table, and never taken
for completed) is proved without a run as well. All of this table is proved but for the liveness properties,
under the assumptions that section 5 names.

## 4. Runs and bounds

| Run | Instance | Shows |
| --- | --- | --- |
| `threads` | 2 workers, 3-state machine (idle, running, two ends), queue of 1, quota 1 | all safety properties and the contract under every interleaving |
| `coroutines` | 2 workers on the shipped `DefaultWorkerFSM`, queue of 2, quota 1 | a full drain between coroutine steps retires every completed worker |
| `shutdown_liveness` | 2 workers, queue of 1, quota 0, `FairSpec` | shutdown and producers make progress |
| `timing` | interval 3, clock to 10, 5 calls; heartbeat 3, edges 3, residence 4, clock to 6 (punctual: 9), queue of 2, delays of 1 | what the throttle guarantees; no hang goes unnoticed, nor a worker that beats on after the stop; no false alarm |
| `processes` | 2 processes, 2 permits, quota 1, 2 puts each, the first a heartbeat; stop and leave at any time | gapless streams under SIGKILL, permits, the channel, delivery |
| `runtime` | 4 activities, backlog of 2; 2 units, 2 idents, quota 1, one worker that swallows kills; a machine with a cycle, 2 hooks on an edge, history of 2 | callbacks, kills by ident, the inside of a worker |
| `tree` | root, supervisor, worker; quota 1 on both levels; all threads, or the supervisor in a process | stop, kill, restart and failure through two levels |
| `set_up` | all tables over 3 states and 2 events with lists of up to 2 of 6 constraints; 3 classes and a mixin over 6 bodies; signatures of up to 5 parameters in each order the syntax allows, clones of clones; batches of up to 3 of 5 workers, quota 2; 4 fields, 3 sources | construction, collection, cloning, registration and settings |
| `completed_restarted`, `throttle_rate_limited`, `watch_residence`, `registration_unnamed` | smallest instances | the four findings of section 7 |

Why they are enough.

* `Supervisor`: two workers, because units only meet in the shared queue, in the order they are looked at and
  in "all of them": a third adds no new kind of step. A queue of one makes every put block; one of two holds messages of
  two generations. One restart gives an old and a new incarnation and the exhausted quota. The
  proofs drop all these bounds for the properties they cover.
* Clocks end after a whole residence (4) or heartbeat (3) plus the delays, so that every deadline can be missed,
  and be met, at least once. Time stopping at `MaxTime` is why `timing` does not check deadlock (a sleeper never
  wakes).
* `ProcessQueue`: with two permits and two puts a process can block, be killed with one activity in its buffer and one in the
  pipe, and be followed by an incarnation of the same; the second process is the one whose lock it may hold. Proved without
  the bounds but for the liveness.
* `SupervisorTree`: a chain, because siblings meet in their parent only, which `Supervisor` covers; a chain of two
  supervisors has everything that passes through a level: a parent that stops or kills a child that is itself
  supervising, escalating or shutting down, and a leaf below it.
* `CoroutineQueue`: four activities saturate a backlog of two twice. `ThreadKill`: fewer idents than threads, so each is
  reused; the proofs are for any number. `WorkerLoop`: a history shorter than the longest path, edges with no, one and
  several hooks.
* `MachineBuilder`: three names are the fewest with an initial state, a state that can be entered and a terminal one, of which
  any may be missing; two constraints can be two on one key. `HookCollection`: three classes can form a chain, a fork and a
  diamond over the root class. `Registration`: three names in one call can clash with each other and with what is there.
* `runtime` and `set_up` do not check deadlock: threads may all be gone, settings are made once. In `threads`, `coroutines`,
  `shutdown_liveness`, `processes` and `tree` it is checked: the states without another step than stuttering are those
  named `Terminated` or `Over`.

**Fairness.**

* `Supervisor` (`shutdown_liveness`): the supervisor's thread keeps running (its tick never blocks: `get_nowait`,
  `Event.set`, bounded sleeps). A put proceeds if there is room again and again (strong fairness: `queue.Queue` wakes one
  waiter per free slot, but another producer may take it first). The initial state always emits at once, hooks return or
  raise, a loop in a terminal state ends. Actors get *no* fairness: they may hang or keep alive for ever. A kill takes
  effect in the end (`docs/source/advanced.md` calls threads that block in native code best effort: they are excluded by
  this assumption, and without it shutdown cannot be promised). And time passes: a worker that each shutdown tick finds
  with an armed deadline is found late by one of them (`SF_vars(FoundLate(w))`). Time is abstract in this module, so this is
  assumed here; what entitles to it is checked and proved where there is a clock: a worker told to stop cannot put a deadline
  off by heartbeats (`HeartbeatsBuyNoTime`), and one that hangs overruns it (`SilenceIsNoticed`). Quota 0 means that the run
  meets escalations but no restart before the shutdown. Because a state without any timeout arms no deadline, a
  worker that hangs in it is never killed; the machines checked have a heartbeat in `running`, as the default machine has.
* `ProcessQueue`: weak for the drain (every tick of a supervisor that is not gone begins with one; of one that is gone nothing is
  asked), the feeder's write and release and the exit; strong for taking the lock and the semaphore, which others take in
  between. Neither stopping nor leaving is fair: a supervisor may run for ever.
* `SupervisorTree`: weak for each supervisor's boot, obedience to `term_event`, shutdown, exit and kills; a unit that runs on
  during a shutdown is found late in the end. No worker need ever end by itself.
* `CoroutineQueue`: weak for the passes of `run()`, its drain, and each task that can begin or end. `run()` need not raise.
* `ThreadKill`: weak for each thread that has a pending exception or has left its loop, and for a kill that began.
* `WorkerLoop`: weak for the worker's own steps: executors resume it, user code returns.

## 5. What is proved

Every safety property of section 3, for every value of the constants that satisfies the named `ASSUME`s
of the modules, which TLC evaluates in each run. They ask for no more than the code can be given: finite sets of workers,
states and idents, natural numbers as sizes and quotas, well-formed machines (`IsStateMachine`: what the constructor of
`StateMachine` enforces, plus that every target is a row; `ShippedMachinesQualify`, in `SupervisorProofs`, says that the two of
`defaults.py` are, and that each state a worker does not leave at once has a deadline), signatures that Python accepts,
class bodies that are sequences of functions with their notes, fields with different names. Bounds that
only keep TLC finite (`MaxPuts`, `MaxTime`, `MaxActivities`, `MaxClones`, ...) are constants as well, so that the theorems hold
of every value of them. Where a theorem needs more, it says so itself (`ASSUME ... PROVE`).

### One level: `Supervisor`

* `SupervisorProofs`: `TypeCorrect`, `PhasesHold`, `ReportsHold`, `NoOrphansLeft`. The invariant `SafeEnd` is
  `TypeOK /\ ControlOK /\ LoopOK /\ NoOrphans`; none of the four is inductive alone (the safe end needs that
  nothing is started outside `running`, phases need types, puts need truthful reports to be well typed).
* `SupervisorFenceProofs`
  - `VerdictsAreEarned`. The strengthening `Fenced` speaks of every message in the
    queue: its generation is at most its worker's current one, and if it equals it and announces a terminal state,
    that is the state the worker is in. A put keeps it because of `LoopOK`, a replacement because the new
    generation is larger than all in the queue, a drain because what it does not drop is current.
  - `NoTransitionIsLost` (`EvaluatorCatchesUp`). `CatchesUp` says of each worker that either nothing of its
    current incarnation is in flight and what is believed is its state, or the *last* end in flight is that of the transition
    into its state. A drain takes the first message, which is the last end only if it was the only one.
  - `StopsAreEarned` (`StopsOnlyWhenAllCompleted`): `Judge` asks for all verdicts to be `OK`, and by `VerdictsAreEarned` they are
    their incarnations' own.
  - `CompletedCoroutinesStay` (`CompletedNeverRestarted` where workers are coroutines): nobody puts during a tick, so that what was
    drained and what is queued together never exceed the budget, and a unit is looked at only when the queue is empty (`DrainsEmpty`);
    by `CatchesUp` the supervisor then knows all there is. With threads it is false (section 7).
* `SupervisorContractProofs`: `KillsReachTheLiving` (`KillsArePending`); `EscalationsAreJustified`
  (`EscalationIsJustified`), which needs that a unit waiting in `restarting` is retryable and has not
  been touched since its status was read, and speaks of `target`: between the announcement and the change of state the
  exception is set and the state is not yet `reaping`; and `ImplementsContract`, the refinement, action by action under all of
  these invariants: one lemma per action says which step of `SupervisionContract` it is, or that it changes nothing the
  contract sees.
* What the contract is worth to the program that runs a supervisor (`SupervisionContract!Promises` and `DoomIsFinal`):
  `PromisesAreKept`, in every state, and `KillsAreFinal`, of every step. Proved of the contract, by its eight kinds of step, and
  carried over to the program by `ImplementsContract` alone: no worker is replaced beyond its quota, none is left when `run()` returns,
  after an abort only some that were told to die, no kill is taken back, and a supervisor that drains starts nothing.

### Levels: `SupervisorTree`

`SupervisorTreeProofs`, for every finite tree with any quotas.

* The invariant is a family of statements about one supervisor `t`, one of its workers `w` and one generation `g` (`Kin`): the
  generations to come have not begun, those past are over, a kill request has reached the executor, and, if no supervisor in a process has
  supervisors in processes below it (`NoProcessBelowProcess`), what runs below a `t` that is gone has been
  killed. An action touches the units of one supervisor, or one executor; one lemma (`OthersKeepTheirKin`) disposes of all other families.
* `OrphansAreToldToDie` (`OrphansAreDoomed`) and `SurvivorsAreUnique` (`SurvivorIsUnique`) assume
  `NoProcessBelowProcess`. It is no convenience: a process that is killed tells the processes below it nothing
  (section 7), so without it the properties are false.
* `LevelsKeepTheirContracts` (`LevelContracts`) assumes nothing. For a step of any actor, the supervisor that acts takes the step of
  its contract (`LevelStep`), the one above it sees its unit end or nothing (`LevelAbove`), all others see nothing
  (`SameAt`). The one thing a level needs of its history is that a supervisor that is only joining its workers runs in a process
  (`JoinsInProcess`): its contract is aborted before, and cannot be again.
* `LevelsKeepTheirPromises`: the promises of one level hold of every level, in the behaviours in which no process it runs in is killed
  (`[][~Vanishes(t)]_vars`; where no supervisor runs in a process, in all of them).

### Processes: `ProcessQueue`

`ProcessQueueProofs`, for any number of processes, permits and restarts: `StreamsAreGapless`, `EndsAreHeard`,
`ImplementsChannel`, `PermitsStayAccounted`. The invariant `Streams` says of each worker, position by position, that what the
pipe holds of its current incarnation is increasing and complete between `taken` and `fed`, and that nothing in it is of an
incarnation to come; a restart then starts a stream of its own because its generation is new. `Told` says what was taken and not recorded: heartbeats, and none before the stop. `Feeders` says who holds the pipe's lock.
The permits are counted: what is buffered anywhere is one set of pairs of a worker and a number (`Buffered`), to which a put adds
one, from which a write takes one and a kill all of one worker (`Metered`).

### Clocks: `Timing`

`TimingProofs`.

* `ThrottleHolds` (`EverySecondIsLimited`), for every interval. `Paced`: the call before the one in course
  was stamped no earlier than the invocation before the last, and the sleep counts from that stamp.
* `SilenceIsAlwaysNoticed`, `ResidenceIsAlwaysNoticed`, and `ExpectationsAreTrue` on which they rest. The *stream* is the queue plus the
  activity being put; `WatchInv` says that if no transition is in it, the deadlines that are armed are
  those of the worker's own state, computed from the timestamps of what was recorded last, and otherwise which
  transition in it will arm them. They assume `InitialIsUntimed`: a deadline is armed when a transition ends or a heartbeat
  is recorded, so one of the initial state is armed late or (`StateTimeout`) never, and the properties are false of it.
* `HeartbeatsNeverBuyTime` (`HeartbeatsBuyNoTime`), from the same invariant with one more part: unless a transition is in the stream, the
  heartbeat deadline of a worker that was told to stop was armed by an activity stamped no later than the stop, or by
  the transition into its state.
* `PunctualIsAlwaysHealthy` (`PunctualIsHealthy`) assumes besides that no timeout is shorter than the delays of queue and tick
  (`TimeoutsLeaveRoom`). `PunctualInv` adds that every activity in the stream was made in time for the deadlines armed when it is recorded, and
  that a drain gets to everything that was made `PutDelay` before it began.

### Workers, callbacks and kills: `Runtime`

`RuntimeProofs`, three invariants side by side.

* `HistoriesAreThePath`, `EndsAreEarned`, `ExitsAreTrue`, for every machine, registration of hooks and length of the ring
  buffer (`LoopInv`): where the loop is determines its last activity; hooks that ran and hooks still
  pending are together those of the edge; `ctx.history` is the tail of the path announced, or behind it by the end being put;
  what `before_exit` was told is what led out of the loop.
* `BacklogIsBounded`, `FailuresArePlaced`, `LogsAreTrue`, `ReturnsAreClean`, for any backlog and any number of
  activities (`QueueInv`): a task is pending until it was collected or dropped, those pending are the latest.
* `KillsSpareStrangers` and `KillsAreSingle`, for any number of units, restarts and idents (`KillInv`), from who can share an ident with whom:
  two that live never do, a thread keeps its ident, and so those that ran beside the target when a kill began have other
  idents than the target's for as long as they live.

### Set-up: `SetUp`

`SetUpProofs`; each part has an invariant of its own variables.

* `ConstructorStaysExact`, `DeadlinesStayDeclared`, `LostStaysInHoles`, for every table and list of constraints. `ConstructionInv`
  relates what the walk has collected to the rows it has passed, in any order; `LifeInv` adds what is compiled to the constraints passed
  (the last of a key is the one that counts) and what the evaluator expects to where the worker is.
* `UnitsStayAccounted`, for workers that have names (`WorkersAreNamed`; of one named `""` it is false, section 7). `BootInv`: units are
  exactly those of the templates of the boot, and an executor that is alive is that of its unit's generation.
* `ClonesStayFaithful`, for every signature and call. A worker whose arguments can be replayed is a fixed point of
  `clone()`; of any other class each clone has an argument where the template has none, or lost one. The proof found
  the shadowed arguments that the property excepts (section 7).
* `SettingsStayResolved`, for every class of settings (`WalkInv`): each field that was passed has its first source's value.

* `HooksAlwaysAddUp` (`HooksAddUpAlongALine`), for every class body, number of classes and way they inherit. Of a class with one
  base the map is collected from the base's map, and the base's map from its own; the property speaks of the whole line at once.
  `ClassInv` says of every defined class that its `mro` begins with it and names defined classes, and of every class
  at the end of a line that its map holds, hook by hook, what the bodies of the line claim in order (`Held`): all claims
  of a hook that collects, the last claim of one that is replaced. One lemma per fold of the code: a note adds its claim
  (`RegisterAddsAClaim`), an entry its notes' (`EntryAddsItsClaims`), a body its entries' (`BodyAddsItsClaims`), a class its
  body's to what its base has (`LineAddsItsClaims`); classes that exist keep theirs (`OldClassesKeep`).
  It is an induction over data after all, without the library's theorems, whose operator parameter no installed prover
  can instantiate: `UpToInduction` speaks of a *set* of numbers that has 0 and with each number its successor, and `FoldExists` says of the
  recursive functions of the collection, whose step is given as a function, that they exist and satisfy their equation.

### Only model-checked

* Liveness: `ShutdownEnds`, `BlockedProducerProceeds`, `EveryPutArrives`, `FailureIsReported`, `KillTakes`, `StopsWhenTold`, `TreeComesDown`.
  Fairness is about `ENABLED`, which the prover does not reason about.
* The four properties of the runs that expect a violation, of course, in general; `CompletedNeverRestarted` is proved for coroutines.

None of the modules has a RECURSIVE operator.

## 6. Not modelled

* The writing of an activity to the pipe is one step (`FeedWrite`): activities are smaller than what a pipe
  writes at once. A process killed within a longer write would leave the pipe unreadable.
* The branch of `kill_thread` that withdraws an exception set in several threads: an ident has one thread state.
* A restart under a negative or zero queue size: with a negative `activity_queue_maxsize` the queue has no bound and a drain's
  budget takes nothing, so workers are never heard (`supervisor.py:221-224`); `QueueMax` is positive wherever a budget matters.
* `ctx.data`, which the framework never reads; logging; the layout of the pretty printer; `Timer`; `scripts.py`;
  re-exports and error classes. String settings (there are none) and the reading of type hints.
* `examples/`, `docs/source/conf.py` and the tests, which are no part of the system.
* Restart quotas of child supervisors differ from workers' only by value in `Supervisor`; `SupervisorTree` has both.
* Dict order: units are looked at in any order; the code's order is one of them.
* What an actor does to its own event loop: coroutine steps have no length.

## 7. Where code and documents differ

Each of the first four has a run in which TLC shows it.

1. `completed_restarted`: `docs/source/advanced.md:56` says a worker that ends in `Terminal.OK` is retired. A
   thread that puts its last `transition_end` and exits between the drain and the look at its unit is dead without
   a recorded end: `FAILED`, and restarted (or, with the quota used up, the supervisor escalates).
2. `throttle_rate_limited`: `settings.py:102` describes the supervision interval as the seconds between
   health-check cycles. `worker.py:104-105` stamps before the sleep, so after a call that slept the next one finds the
   interval already elapsed: ticks come in pairs. What remains is `EverySecondIsLimited`.
3. `watch_residence`: `docs/source/advanced.md:70` says a worker may not remain in a state longer than its
   `StateTimeout` in total. `evaluator.py:82` disarms it at `transition_begin`; hooks on an edge without a
   `TransitionTimeout` may then keep the worker in the state for ever.
4. `registration_unnamed`: `supervisor.py:137` filters units by `worker_name and ...`, so that the restart of a worker named
   `""`, which nothing forbids, rebuilds every unit; the others' executors run on, forgotten.
   `docs/source/advanced.md:84` says that restarts prevent overlapping incarnations.

Others came up while modelling; the models behave the same way, and the properties are stated so that they hold of it:

* A `StateTimeout` of the initial state is accepted and never armed, since only a `transition_end` arms it (`evaluator.py:98`);
  see `DeadlinesAreDeclared`.
* `ctx.exception` is set around the whole loop (`worker.py:308-311`), after which no hook runs; `docs/source/advanced.md:119` promises
  it to `@post` hooks of error transitions.
* A decorated method of a plain mixin or of a second base is registered nowhere (`worker.py:149-150`); `HooksAddUpAlongALine` is about
  single inheritance only.
* `*args` are not replayed by `clone()` and positional-only arguments make it a `TypeError` (`worker.py:135-136, 209`);
  `docs/source/advanced.md:125` says arguments are captured automatically. `ClonesAreFaithful` says exactly which are. With `**kwargs`
  in the signature the positional-only argument ends there, and if the caller had passed a keyword of
  that name (`C(path="p")` for `__init__(self, path=None, /, **kwargs)`), its clone happens to be equivalent: `IsShadowed`.
* SIGKILL shrinks the capacity of a process queue (`PermitsAreAccounted`), and a process that dies with the pipe's lock silences
  every other worker of its supervisor: `EveryPutArrives` ends at the first kill.
* A saturated callback backlog drops activities before `on_activity` saw them (`utils.py:82`); `docs/source/advanced.md:151` says it
  receives every one.
* A supervisor in a process that is killed tells its own worker *processes* nothing, and they live on; `OrphansAreDoomed` holds in the
  run because what runs in the process as a thread dies with it, and in general of trees with no process below a process
  (`NoProcessBelowProcess`). `runsmith/defaults.py:41-42` says a failing supervisor
  reaps its children.
* A replaced supervisor's workers may still be dying when its successor boots theirs, and a root may reach `crashed` before
  its grandchildren are gone: hence `SurvivorIsUnique`, not "no overlap".
* A thread kill by ident may hit a thread that was started after the target ended (`utils.py:114-117`): hence `StrangersAreSpared`, which
  protects those that ran before.

## 8. Plan

Done: every component of section 1, the compositions of section 2, liveness on the instances of section 4, and the proofs of
section 5. What could still be added:

1. The composition of `ProcessQueue` with `Supervisor`: that a supervisor whose queue is an `ActivityChannel` keeps its contract, where
   a killed worker's last activities may be missing (`Supervisor` has the queue of threads and coroutines, which loses nothing).
2. The invariants behind the liveness properties, such as a measure that each shutdown tick lowers.
