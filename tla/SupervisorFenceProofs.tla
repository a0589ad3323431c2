----------------------- MODULE SupervisorFenceProofs ------------------------
(***************************************************************************)
(* Supervisor: verdicts come from the current incarnation, no transition   *)
(* is lost on its way to the evaluator, and what is done with a verdict is *)
(* right - for every set of workers, machine, queue size and quota.        *)
(***************************************************************************)
EXTENDS SupervisorProofs

-----------------------------------------------------------------------------
(* The generation fence. *)

\* Nothing has been put or recorded before _boot.
Pristine ==
    target = "starting" /\ pc # "aborted" =>
        queue = <<>> /\ units = [w \in Workers |-> NewUnit(0, 0)]

\* A message is of this incarnation or an earlier one; a terminal state it
\* announces for this one is the state its worker is in.
SoundFor(m, us, es) ==
    /\ m.generation <= us[m.worker_name].generation
    /\ \/ m.generation # us[m.worker_name].generation
       \/ m.kind # "transition_end"
       \/ m.transition[2] \notin TerminalStates(FSM)
       \/ es[m.worker_name].state = m.transition[2]

FenceHolds == \A i \in 1..Len(queue) : SoundFor(queue[i], units, execs)

VerdictOK(w) ==
    units[w].expectation.state \in TerminalStates(FSM) =>
        units[w].expectation.state = execs[w].state

Fenced ==
    /\ Pristine
    /\ FenceHolds
    /\ \A w \in Workers : VerdictOK(w)

\* terminal_outcome answers for the terminal states, and for no other.
LEMMA VerdictMeaning == VerdictIsEarned <=> \A w \in Workers : VerdictOK(w)
<1>1. ASSUME NEW s PROVE TerminalOutcome(FSM, s) # "none" <=> s \in TerminalStates(FSM)
  BY FSMAssumption DEF TerminalOutcome, TerminalStates, IsStateMachine
<1> QED
  BY <1>1 DEF VerdictIsEarned, VerdictOK, Outcome

LEMMA QueueFacts ==
  ASSUME TypeOK
  PROVE  /\ Len(queue) \in Nat
         /\ \A i \in 1..Len(queue) : queue[i] \in Messages /\ queue[i].worker_name \in Workers
<1>1. Len(queue) \in Nat /\ \A i \in 1..Len(queue) : queue[i] \in Messages
  BY DEF TypeOK
<1>2. \A m \in Messages : m.worker_name \in Workers
  BY DEF Messages
<1> QED
  BY <1>1, <1>2

\* A step that keeps the queue, the generations, the recorded states and the
\* workers' states keeps the fence.
LEMMA FenceFrame ==
  ASSUME TypeOK, Fenced, Pristine', queue' = queue,
         \A w \in Workers : /\ execs'[w].state = execs[w].state
                            /\ units'[w].generation = units[w].generation
                            /\ units'[w].expectation = units[w].expectation
  PROVE  Fenced'
<1>1. FenceHolds'
  BY QueueFacts DEF Fenced, FenceHolds, SoundFor
<1> QED
  BY <1>1 DEF Fenced, VerdictOK

\* _boot starts from nothing.
LEMMA BootFenced ==
  ASSUME Typed, Fenced, Boot \/ BootFails
  PROVE  Fenced'
<1>1. /\ queue = <<>> /\ units = [w \in Workers |-> NewUnit(0, 0)] /\ queue' = queue
      /\ Pristine'
  <2>1. queue = <<>> /\ units = [w \in Workers |-> NewUnit(0, 0)] /\ queue' = queue
    BY DEF Boot, BootFails, Fenced, Pristine, Typed, ControlOK
  <2>2. CASE Boot
    BY <2>1, <2>2, EmitFacts DEF Boot, Pristine
  <2>3. CASE BootFails
    BY <2>1, <2>3 DEF BootFails, Pristine
  <2> QED
    BY <2>1, <2>2, <2>3
<1>2. ASSUME NEW w \in Workers
      PROVE  units'[w].expectation.state = InitialState(FSM)
  <2>0. units[w].expectation.state = InitialState(FSM)
    BY <1>1, NewExpectationType DEF NewUnit
  <2>1. CASE Boot
    BY <2>0, <2>1 DEF Boot
  <2>2. CASE BootFails
    <3>1. units'[w].expectation = units[w].expectation
      BY <2>2 DEF BootFails, Typed, TypeOK, SupervisionUnits
    <3> QED
      BY <3>1, <2>0
  <2> QED
    BY <2>1, <2>2
<1>3. FenceHolds'
  BY <1>1 DEF FenceHolds
<1>4. \A w \in Workers : VerdictOK(w)'
  BY <1>2, WorkerMachine DEF VerdictOK
<1> QED
  BY <1>1, <1>3, <1>4 DEF Fenced

\* drain_activity_queue records a terminal state only if it is the worker's own.
LEMMA DrainOneFenced ==
  ASSUME Typed, Fenced, DrainOne
  PROVE  Fenced'
<1> DEFINE a == Head(queue)
<1>0. execs' = execs /\ target' = target /\ pc' = pc /\ pc = "drain"
  BY DEF DrainOne
<1>1. a = queue[1] /\ a \in Messages /\ a.worker_name \in Workers /\ SoundFor(a, units, execs)
  BY DrainOneFacts, QueueFacts DEF Typed, Fenced, FenceHolds
<1>2. Pristine'
  BY <1>0 DEF Pristine, Typed, ControlOK
<1>3. FenceHolds'
  BY <1>0, DrainOneFacts, QueueFacts DEF Typed, Fenced, FenceHolds, SoundFor
<1>4. ASSUME NEW w \in Workers PROVE VerdictOK(w)'
  <2>1. CASE a.worker_name = w /\ ~Drops(a) /\ a.kind = "transition_end"
    <3>1. units'[w].expectation.state = a.transition[2]
      BY <2>1, DrainOneFacts DEF Typed
    <3>2. a.generation = units[w].generation
      BY <2>1 DEF Drops
    <3> QED
      BY <1>0, <1>1, <2>1, <3>1, <3>2 DEF SoundFor, VerdictOK
  <2>2. CASE ~(a.worker_name = w /\ ~Drops(a) /\ a.kind = "transition_end")
    <3>1. units'[w].expectation.state = units[w].expectation.state
      BY <2>2, DrainOneFacts DEF Typed
    <3> QED
      BY <1>0, <3>1 DEF VerdictOK, Fenced
  <2> QED
    BY <2>1, <2>2
<1> QED
  BY <1>2, <1>3, <1>4 DEF Fenced

\* The successor of a unit has a generation no message in the queue has, and an
\* evaluator that expects the initial state.
LEMMA ReplaceFenced ==
  ASSUME Typed, Fenced, NEW w \in Workers, Replace(w) \/ ReplaceFails(w)
  PROVE  Fenced'
<1>0. queue' = queue /\ target' = target /\ target = "running"
  BY DEF Replace, ReplaceFails, Typed, ControlOK
<1>1. Pristine'
  BY <1>0 DEF Pristine
<1>2. /\ units'[w].generation = units[w].generation + 1
      /\ units'[w].expectation.state = InitialState(FSM)
  <2>1. units'[w] = Successor(w)
    BY DEF Replace, ReplaceFails, Typed, TypeOK
  <2> QED
    BY <2>1, NewExpectationType DEF Successor, NewUnit
<1>3. ASSUME NEW v \in Workers, v # w
      PROVE  /\ units'[v].generation = units[v].generation
             /\ units'[v].expectation = units[v].expectation
             /\ execs'[v].state = execs[v].state
  BY <1>3 DEF Replace, ReplaceFails, Typed, TypeOK, SupervisionUnits, Executors
<1>4. \A v \in Workers : units[v].generation \in Nat
  BY DEF Typed, TypeOK, SupervisionUnits
<1>5. ASSUME NEW i \in 1..Len(queue) PROVE SoundFor(queue[i], units', execs')
  <2> DEFINE m == queue[i]
  <2>1. m \in Messages /\ m.worker_name \in Workers /\ SoundFor(m, units, execs)
    BY QueueFacts DEF Typed, Fenced, FenceHolds
  <2>2. m.generation \in Nat
    BY <2>1 DEF Messages
  <2>3. CASE m.worker_name = w
    BY <1>0, <1>2, <1>4, <2>1, <2>2, <2>3 DEF SoundFor
  <2>4. CASE m.worker_name # w
    BY <1>0, <1>3, <2>1, <2>4 DEF SoundFor
  <2> QED
    BY <2>3, <2>4
<1>6. FenceHolds'
  BY <1>0, <1>5 DEF FenceHolds
<1>7. ASSUME NEW v \in Workers PROVE VerdictOK(v)'
  <2>1. CASE v = w
    BY <1>2, <2>1, WorkerMachine DEF VerdictOK
  <2>2. CASE v # w
    BY <1>3, <2>2 DEF VerdictOK, Fenced
  <2> QED
    BY <2>1, <2>2
<1> QED
  BY <1>1, <1>6, <1>7 DEF Fenced

\* The supervisor's other steps record nothing and start nothing.
LEMMA OtherFenced ==
  ASSUME Typed, Fenced,
         \/ FinishTransition \/ LoopEnds \/ StopRequested \/ BeginTick \/ DrainDone
         \/ Judge \/ ShutdownComplete \/ ExitSignal \/ Interrupted
         \/ \E w \in Workers : Supervise(w) \/ KillLingering(w)
         \/ \E late \in SUBSET Watched : ShutdownPass(late)
  PROVE  Fenced'
<1>1. CASE \/ FinishTransition \/ LoopEnds \/ StopRequested \/ BeginTick \/ DrainDone
           \/ Judge \/ ShutdownComplete \/ ExitSignal
  <2>1. UNCHANGED <<units, execs, queue>>
    BY <1>1 DEF FinishTransition, LoopEnds, StopRequested, BeginTick, DrainDone, Judge, ShutdownComplete, ExitSignal
  <2>2. target' = "starting" /\ pc' # "aborted" => target = "starting" /\ pc # "aborted"
    BY <1>1, EmitFacts
    DEF FinishTransition, LoopEnds, StopRequested, BeginTick, DrainDone, Judge,
        ShutdownComplete, ExitSignal, Typed, ControlOK
  <2>3. Pristine'
    BY <2>1, <2>2 DEF Pristine, Fenced
  <2> QED
    BY <2>1, <2>3, FenceFrame DEF Typed
<1>2. ASSUME NEW w \in Workers, Supervise(w) PROVE Fenced'
  <2>1. UNCHANGED <<units, execs, queue>> /\ state = "running" /\ target = "running"
    BY <1>2 DEF Supervise, Typed, ControlOK
  <2>2. target' # "starting"
    BY <1>2, <2>1, EmitFacts DEF Supervise
  <2>3. Pristine'
    BY <2>2 DEF Pristine
  <2> QED
    BY <2>1, <2>3, FenceFrame DEF Typed
<1>3. ASSUME NEW w \in Workers, KillLingering(w) PROVE Fenced'
  <2>1. Kill({w}) /\ queue' = queue /\ target' = target /\ target = "running"
    BY <1>3 DEF KillLingering, Typed, ControlOK
  <2>2. Pristine'
    BY <2>1 DEF Pristine
  <2> QED
    BY <2>1, <2>2, KillFacts, FenceFrame DEF Typed
<1>4. CASE Interrupted
  <2>1. Kill({w \in Workers : IsAlive(w)}) /\ queue' = queue /\ pc' = "aborted"
    BY <1>4 DEF Interrupted, Abort
  <2>2. Pristine'
    BY <2>1 DEF Pristine
  <2> QED
    BY <2>1, <2>2, KillFacts, FenceFrame DEF Typed
<1>5. ASSUME NEW late, ShutdownPass(late) PROVE Fenced'
  <2>1. queue' = queue /\ target' = target /\ target \in {"terminating", "reaping"}
    BY <1>5, EmitFacts DEF ShutdownPass, Typed, ControlOK
  <2>2. Pristine'
    BY <2>1 DEF Pristine
  <2> QED
    BY <1>5, <2>1, <2>2, ShutdownPassFacts, FenceFrame, SMTT(30) DEF Typed
<1> QED
  BY <1>1, <1>2, <1>3, <1>4, <1>5

\* A worker puts what is true of it, and leaves a state for another only while
\* the state is live, so nothing in flight or recorded speaks of a terminal one.
LEMMA WorkFenced ==
  ASSUME Typed, LoopOK, Fenced, NEW w \in Workers, Work(w)
  PROVE  Fenced'
<1>0. /\ UnchangedBySupervisor /\ IsAlive(w)
      /\ execs' = [execs EXCEPT ![w] = execs'[w]]
      /\ execs[w] \in Executors /\ ReportsTruly(execs[w])
  BY WorkFacts DEF Typed, TypeOK, LoopOK
<1>1. /\ UNCHANGED <<target, pc, units>>
      /\ \A v \in Workers : v # w => execs'[v] = execs[v]
  BY <1>0 DEF UnchangedBySupervisor, Typed, TypeOK
<1>2. Pristine'
  BY <1>0, <1>1 DEF Pristine, Typed, ControlOK, AllExecutorsDown
<1>3. \/ execs'[w].state = execs[w].state
      \/ execs[w].state \notin TerminalStates(FSM) /\ queue' = queue
  <2>1. CASE Put(w) \/ Keepalive(w) \/ Raise(w) \/ Exit(w) \/ Die(w)
    <3>1. CASE Put(w)
      <4>1. \/ execs'[w] = [execs[w] EXCEPT !.pc = "hooks"]
            \/ execs'[w] = [execs[w] EXCEPT !.pc = "loop", !.act = Beat]
        BY <3>1 DEF Put, Typed, TypeOK
      <4> QED
        BY <1>0, <4>1 DEF Executors
    <3>2. CASE Keepalive(w)
      <4>1. execs'[w] = [execs[w] EXCEPT !.pc = "put"]
        BY <3>2 DEF Keepalive, Typed, TypeOK
      <4> QED
        BY <1>0, <4>1 DEF Executors
    <3>3. CASE Raise(w) \/ Exit(w) \/ Die(w)
      <4>1. execs'[w] \in {Ended(execs[w], "broken"), Ended(execs[w], "finished")}
        BY <3>3 DEF Raise, Exit, Die, Typed, TypeOK
      <4> QED
        BY <1>0, <4>1 DEF Ended, Executors
    <3> QED
      BY <2>1, <3>1, <3>2, <3>3
  <2>2. ASSUME NEW event \in Events(FSM, execs[w].state), BeginTransition(w, event)
        PROVE  execs'[w].state = execs[w].state
    <3> DEFINE act == Transition("transition_begin", execs[w].state,
                                 TargetState(FSM, execs[w].state, event))
    <3>1. execs'[w] = [execs[w] EXCEPT !.pc = "put", !.act = act]
      BY <2>2 DEF BeginTransition, Typed, TypeOK
    <3> HIDE DEF act
    <3> QED
      BY <1>0, <3>1 DEF Executors
  <2>3. CASE EndTransition(w)
    BY <1>0, <2>3 DEF EndTransition, ReportsTruly
  <2> QED
    BY <2>1, <2>2, <2>3 DEF Work
<1>4. ASSUME NEW m \in Messages, SoundFor(m, units, execs),
             execs'[w].state = execs[w].state \/ execs[w].state \notin TerminalStates(FSM)
      PROVE  SoundFor(m, units', execs')
  <2>1. m.worker_name \in Workers
    BY DEF Messages
  <2> QED
    BY <1>1, <1>4, <2>1 DEF SoundFor
<1>5. FenceHolds'
  <2>1. \A i \in 1..Len(queue) : SoundFor(queue[i], units', execs')
    BY <1>3, <1>4, QueueFacts DEF Typed, Fenced, FenceHolds
  <2>2. CASE queue' = queue
    BY <2>1, <2>2 DEF FenceHolds
  <2>3. CASE queue' # queue
    <3> DEFINE m == Stamped(w, execs[w].act)
    <3>1. queue' = Append(queue, m) /\ m \in Messages
      BY <2>3, WorkFacts DEF Typed
    <3>2. execs'[w].state = execs[w].state
      BY <1>3, <2>3
    <3>3. SoundFor(m, units', execs')
      <4>1. m.worker_name = w /\ m.generation = units[w].generation
            /\ m.kind = execs[w].act.kind /\ m.transition = execs[w].act.transition
        BY DEF Stamped
      <4>2. units[w].generation \in Nat
        BY DEF Typed, TypeOK, SupervisionUnits
      <4> HIDE DEF m
      <4> QED
        BY <1>0, <1>1, <3>2, <4>1, <4>2 DEF SoundFor, ReportsTruly
    <3>4. /\ Len(queue') = Len(queue) + 1 /\ queue'[Len(queue) + 1] = m
          /\ \A i \in 1..Len(queue) : queue'[i] = queue[i]
      BY <3>1 DEF Typed, TypeOK
    <3> HIDE DEF m
    <3>5. ASSUME NEW i \in 1..Len(queue') PROVE SoundFor(queue'[i], units', execs')
      <4>1. CASE i \in 1..Len(queue)
        BY <2>1, <3>4, <4>1
      <4>2. CASE i = Len(queue) + 1
        BY <3>3, <3>4, <4>2
      <4> QED
        BY <3>4, <4>1, <4>2, QueueFacts DEF Typed
    <3> QED
      BY <3>5 DEF FenceHolds
  <2> QED
    BY <2>2, <2>3
<1>6. ASSUME NEW v \in Workers PROVE VerdictOK(v)'
  BY <1>1, <1>3 DEF VerdictOK, Fenced
<1> QED
  BY <1>2, <1>5, <1>6 DEF Fenced

LEMMA InitFenced == Init => Fenced
<1> SUFFICES ASSUME Init PROVE Fenced
  OBVIOUS
<1>1. Pristine /\ FenceHolds
  BY DEF Init, Pristine, FenceHolds
<1>2. \A w \in Workers : VerdictOK(w)
  BY NewExpectationType, WorkerMachine DEF Init, VerdictOK, NewUnit
<1> QED
  BY <1>1, <1>2 DEF Fenced

LEMMA NextFenced == SafeEnd /\ Fenced /\ [Next]_vars => Fenced'
<1> SUFFICES ASSUME SafeEnd, Fenced, [Next]_vars PROVE Fenced'
  OBVIOUS
<1>0. Typed /\ LoopOK
  BY DEF SafeEnd
<1>1. CASE Tick \/ Failure \/ ExitSignal
  BY <1>0, <1>1, BootFenced, DrainOneFenced, ReplaceFenced, OtherFenced DEF Tick, Failure
<1>2. ASSUME NEW w \in Workers, Work(w) PROVE Fenced'
  BY <1>0, <1>2, WorkFenced
<1>3. CASE UNCHANGED vars
  BY <1>3 DEF vars, Fenced, Pristine, FenceHolds, SoundFor, VerdictOK
<1> QED
  BY <1>1, <1>2, <1>3 DEF Next, Terminated

\* The generation fence works for every queue size and any number of restarts: a
\* terminal verdict is always the end the current incarnation reached itself.
THEOREM VerdictsAreEarned == Spec => []VerdictIsEarned
<1>1. Fenced => VerdictIsEarned
  BY VerdictMeaning DEF Fenced
<1> QED
  BY <1>1, InitFenced, NextFenced, Safety, PTL DEF Spec
-----------------------------------------------------------------------------
(* The evaluator catches up with its worker. *)

\* What IsEndOf says of message m, of worker w in generation g.
EndIn(m, w, g) == m.worker_name = w /\ m.kind = "transition_end" /\ m.generation = g

NoEnd(q, w, g) == \A i \in 1..Len(q) : ~EndIn(q[i], w, g)

LastEnd(q, w, g, i) ==
    /\ i \in 1..Len(q) /\ EndIn(q[i], w, g)
    /\ \A j \in 1..Len(q) : j > i => ~EndIn(q[j], w, g)

\* What is believed of w is its state, or the last end that is on its way is that
\* of the transition into its state, in the queue or about to be put.
Heard(w) ==
    \/ execs[w].pc = "broken"
    \/ execs[w].pc = "put" /\ execs[w].act.kind = "transition_end"
    \/ NoEnd(queue, w, units[w].generation) /\ units[w].expectation.state = execs[w].state
    \/ \E i \in 1..Len(queue) : LastEnd(queue, w, units[w].generation, i) /\ queue[i].transition[2] = execs[w].state

CatchesUp == \A w \in Workers : Heard(w)

LEMMA HeardMeaning ==
  ASSUME TypeOK, LoopOK, CatchesUp
  PROVE  EvaluatorCatchesUp
<1> SUFFICES ASSUME NEW w \in Workers, execs[w].pc # "broken"
             PROVE  LET inFlight == {i \in DOMAIN queue : IsEndOf(queue[i], w)} IN
                    IF execs[w].pc = "put" /\ execs[w].act.kind = "transition_end"
                    THEN execs[w].act.transition[2] = execs[w].state
                    ELSE IF inFlight = {} THEN units[w].expectation.state = execs[w].state
                    ELSE LET last == CHOOSE i \in inFlight : \A j \in inFlight : j <= i
                         IN  queue[last].transition[2] = execs[w].state
  BY DEF EvaluatorCatchesUp
<1> DEFINE inFlight == {i \in DOMAIN queue : IsEndOf(queue[i], w)}
           last == CHOOSE i \in inFlight : \A j \in inFlight : j <= i
<1>1. DOMAIN queue = 1..Len(queue) /\ Len(queue) \in Nat
  BY DEF TypeOK
<1>a. inFlight = {i \in 1..Len(queue) : EndIn(queue[i], w, units[w].generation)}
  BY <1>1 DEF IsEndOf, EndIn
<1>2. CASE execs[w].pc = "put" /\ execs[w].act.kind = "transition_end"
  BY <1>2 DEF LoopOK, ReportsTruly
<1>3. CASE NoEnd(queue, w, units[w].generation) /\ units[w].expectation.state = execs[w].state
  <2>1. inFlight = {}
    BY <1>3, <1>a DEF NoEnd
  <2> QED
    BY <1>2, <1>3, <2>1
<1>4. ASSUME NEW i \in 1..Len(queue), LastEnd(queue, w, units[w].generation, i), queue[i].transition[2] = execs[w].state
      PROVE  inFlight # {} /\ queue[last].transition[2] = execs[w].state
  <2>1. i \in inFlight /\ inFlight \subseteq 1..Len(queue)
    BY <1>4, <1>a DEF LastEnd
  <2>2. \A j \in inFlight : j <= i
    BY <1>1, <1>4, <1>a DEF LastEnd
  <2> HIDE DEF inFlight
  <2>3. last \in inFlight /\ \A j \in inFlight : j <= last
    BY <2>1, <2>2
  <2> HIDE DEF last
  <2>4. last = i
    BY <1>1, <2>1, <2>2, <2>3
  <2> QED
    BY <1>4, <2>1, <2>4 DEF last
<1>5. Heard(w)
  BY DEF CatchesUp
<1> QED
  BY <1>2, <1>3, <1>4, <1>5 DEF Heard

\* A step that keeps the queue, what is recorded of w and its loop.
LEMMA HeardFrame ==
  ASSUME NEW w \in Workers, Heard(w), SameLoop(w), queue' = queue,
         units'[w].generation = units[w].generation,
         units'[w].expectation = units[w].expectation
  PROVE  Heard(w)'
  BY DEF Heard, SameLoop

\* A unit that begins a generation no message is of.
LEMMA FreshHeard ==
  ASSUME NEW w \in Workers, execs'[w].state = InitialState(FSM),
         units'[w].expectation.state = InitialState(FSM),
         \A i \in 1..Len(queue') : queue'[i].worker_name = w =>
             queue'[i].generation # units'[w].generation
  PROVE  Heard(w)'
  BY DEF Heard, NoEnd, EndIn

LEMMA BootHeard ==
  ASSUME Typed, Fenced, CatchesUp, Boot \/ BootFails
  PROVE  CatchesUp'
<1> SUFFICES ASSUME NEW w \in Workers PROVE Heard(w)'
  BY DEF CatchesUp
<1>1. queue = <<>> /\ units = [v \in Workers |-> NewUnit(0, 0)] /\ queue' = <<>>
  BY DEF Boot, BootFails, Fenced, Pristine, Typed, ControlOK
<1>2. units[w].expectation.state = InitialState(FSM)
  BY <1>1, NewExpectationType DEF NewUnit
<1>3. units'[w].expectation = units[w].expectation /\ units'[w].generation = units[w].generation
  BY DEF Boot, BootFails, Typed, TypeOK, SupervisionUnits
<1>4. CASE SameLoop(w)
  BY <1>1, <1>3, <1>4, HeardFrame DEF CatchesUp
<1>5. CASE execs'[w].state = InitialState(FSM)
  BY <1>1, <1>2, <1>3, <1>5, FreshHeard
<1> QED
  BY <1>4, <1>5, SupervisorLeavesLoops DEF Tick, Failure

\* The drain never drops an end of the current incarnation, and takes the others
\* first; what it leaves behind the last end is none.
LEMMA DrainOneHeard ==
  ASSUME Typed, CatchesUp, DrainOne
  PROVE  CatchesUp'
<1> SUFFICES ASSUME NEW w \in Workers PROVE Heard(w)'
  BY DEF CatchesUp
<1> DEFINE a == Head(queue)
<1>1. /\ Len(queue) \in Nat \ {0} /\ Len(queue') = Len(queue) - 1
      /\ \A i \in 1..Len(queue') : i + 1 \in 1..Len(queue) /\ queue'[i] = queue[i + 1]
      /\ a = queue[1] /\ execs' = execs
      /\ units'[w].generation = units[w].generation
  BY DrainOneFacts DEF Typed, DrainOne
<1>3. EndIn(a, w, units[w].generation) => units'[w].expectation.state = a.transition[2]
  BY DrainOneFacts DEF EndIn, Drops, Typed
<1>4. ~EndIn(a, w, units[w].generation) => units'[w].expectation.state = units[w].expectation.state
  BY DrainOneFacts DEF EndIn, Drops, Typed
<1>5. CASE NoEnd(queue, w, units[w].generation) /\ units[w].expectation.state = execs[w].state
  <2>1. ~EndIn(a, w, units[w].generation)
    BY <1>1, <1>5 DEF NoEnd
  <2>2. NoEnd(queue', w, units'[w].generation)
    BY <1>1, <1>5 DEF NoEnd
  <2> QED
    BY <1>1, <1>4, <1>5, <2>1, <2>2 DEF Heard
<1>6. ASSUME NEW i \in 1..Len(queue), LastEnd(queue, w, units[w].generation, i), queue[i].transition[2] = execs[w].state
      PROVE  Heard(w)'
  <2>1. \A j \in 1..Len(queue') : j + 1 > i => ~EndIn(queue'[j], w, units[w].generation)
    BY <1>1, <1>6 DEF LastEnd
  <2>2. CASE i = 1
    <3>1. NoEnd(queue', w, units'[w].generation)
      BY <1>1, <2>1, <2>2 DEF NoEnd
    <3>2. units'[w].expectation.state = execs[w].state
      BY <1>1, <1>3, <1>6, <2>2 DEF LastEnd
    <3> QED
      BY <1>1, <3>1, <3>2 DEF Heard
  <2>3. CASE i # 1
    <3>1. i - 1 \in 1..Len(queue') /\ queue'[i - 1] = queue[i]
      BY <1>1, <2>3
    <3>2. EndIn(queue'[i - 1], w, units[w].generation)
      BY <1>6, <3>1 DEF LastEnd
    <3>3. LastEnd(queue', w, units'[w].generation, i - 1)
      BY <1>1, <2>1, <3>1, <3>2 DEF LastEnd
    <3> QED
      BY <1>1, <1>6, <3>1, <3>3 DEF Heard
  <2> QED
    BY <2>2, <2>3
<1> QED
  BY <1>1, <1>5, <1>6 DEF CatchesUp, Heard

LEMMA ReplaceHeard ==
  ASSUME Typed, Fenced, CatchesUp, NEW w \in Workers, Replace(w) \/ ReplaceFails(w)
  PROVE  CatchesUp'
<1>1. queue' = queue
  BY DEF Replace, ReplaceFails
<1>2. /\ units'[w].generation = units[w].generation + 1
      /\ units'[w].expectation.state = InitialState(FSM)
      /\ execs'[w].state = InitialState(FSM)
  <2>1. units'[w] = Successor(w) /\ execs'[w] \in {Started, NewExecutor}
    BY DEF Replace, ReplaceFails, Typed, TypeOK
  <2> QED
    BY <2>1, NewExpectationType DEF Successor, NewUnit, Started, NewExecutor
<1>3. Heard(w)'
  <2>1. ASSUME NEW i \in 1..Len(queue), queue[i].worker_name = w
        PROVE  queue[i].generation # units[w].generation + 1
    <3>1. queue[i] \in Messages /\ queue[i].generation <= units[w].generation
      BY <2>1, QueueFacts DEF Typed, Fenced, FenceHolds, SoundFor
    <3>2. queue[i].generation \in Nat /\ units[w].generation \in Nat
      BY <3>1 DEF Messages, Typed, TypeOK, SupervisionUnits
    <3> QED
      BY <3>1, <3>2
  <2> QED
    BY <1>1, <1>2, <2>1, FreshHeard
<1>4. ASSUME NEW v \in Workers, v # w PROVE Heard(v)'
  <2>1. /\ units'[v].generation = units[v].generation
        /\ units'[v].expectation = units[v].expectation
        /\ SameLoop(v)
    BY <1>4 DEF Replace, ReplaceFails, Typed, TypeOK, SupervisionUnits, Executors, SameLoop
  <2> QED
    BY <1>1, <2>1, HeardFrame DEF CatchesUp
<1> QED
  BY <1>3, <1>4 DEF CatchesUp

\* The supervisor's other steps.
LEMMA OtherHeard ==
  ASSUME Typed, CatchesUp,
         \/ FinishTransition \/ LoopEnds \/ StopRequested \/ BeginTick \/ DrainDone
         \/ Judge \/ ShutdownComplete \/ ExitSignal \/ Interrupted
         \/ \E w \in Workers : Supervise(w) \/ KillLingering(w)
         \/ \E late \in SUBSET Watched : ShutdownPass(late)
  PROVE  CatchesUp'
<1> SUFFICES ASSUME NEW w \in Workers
             PROVE  /\ queue' = queue /\ SameLoop(w)
                    /\ units'[w].generation = units[w].generation
                    /\ units'[w].expectation = units[w].expectation
  BY HeardFrame DEF CatchesUp
<1>1. CASE \/ FinishTransition \/ LoopEnds \/ StopRequested \/ BeginTick \/ DrainDone
           \/ Judge \/ ShutdownComplete \/ ExitSignal \/ \E v \in Workers : Supervise(v)
  BY <1>1 DEF FinishTransition, LoopEnds, StopRequested, BeginTick, DrainDone, Judge, ShutdownComplete, ExitSignal,
              Supervise, SameLoop
<1>2. ASSUME NEW v \in Workers, KillLingering(v)
      PROVE  /\ queue' = queue /\ SameLoop(w)
             /\ units'[w].generation = units[w].generation
             /\ units'[w].expectation = units[w].expectation
  BY <1>2, KillFacts DEF KillLingering, SameLoop, Typed
<1>3. CASE Interrupted
  BY <1>3, KillFacts DEF Interrupted, Abort, SameLoop, Typed
<1>4. ASSUME NEW late, ShutdownPass(late)
      PROVE  /\ queue' = queue /\ SameLoop(w)
             /\ units'[w].generation = units[w].generation
             /\ units'[w].expectation = units[w].expectation
  <2>1. queue' = queue
    BY <1>4 DEF ShutdownPass
  <2> QED
    BY <1>4, <2>1, ShutdownPassFacts, SMTT(30) DEF SameLoop, Typed
<1> QED
  BY <1>1, <1>2, <1>3, <1>4

\* A worker that puts keeps its state, and what it puts comes last.
LEMMA PutHeard ==
  ASSUME Typed, LoopOK, NEW w \in Workers, Heard(w), Put(w)
  PROVE  Heard(w)'
<1> DEFINE m == Stamped(w, execs[w].act)
<1>1. /\ queue' = Append(queue, m) /\ units' = units
      /\ execs'[w].state = execs[w].state
  <2>1. \/ execs'[w] = [execs[w] EXCEPT !.pc = "hooks"]
        \/ execs'[w] = [execs[w] EXCEPT !.pc = "loop", !.act = Beat]
    BY DEF Put, Typed, TypeOK
  <2> QED
    BY <2>1 DEF Put, UnchangedBySupervisor, Typed, TypeOK, Executors
<1>2. /\ Len(queue) \in Nat /\ Len(queue') = Len(queue) + 1
      /\ queue'[Len(queue) + 1] = m
      /\ \A i \in 1..Len(queue) : queue'[i] = queue[i]
  BY <1>1 DEF Typed, TypeOK
<1>4. EndIn(m, w, units[w].generation) <=> execs[w].act.kind = "transition_end"
  BY DEF EndIn, Stamped
<1>5. CASE execs[w].act.kind = "transition_end"
  <2>1. LastEnd(queue', w, units'[w].generation, Len(queue) + 1)
    BY <1>1, <1>2, <1>4, <1>5 DEF LastEnd
  <2>2. m.transition[2] = execs[w].state
    BY <1>5 DEF Stamped, LoopOK, ReportsTruly
  <2>3. Len(queue) + 1 \in 1..Len(queue')
    BY <1>2
  <2> QED
    BY <1>1, <1>2, <2>1, <2>2, <2>3 DEF Heard
<1>6. CASE execs[w].act.kind # "transition_end"
  <2> HIDE DEF m
  <2>1. CASE NoEnd(queue, w, units[w].generation) /\ units[w].expectation.state = execs[w].state
    <3>1. NoEnd(queue', w, units'[w].generation)
      BY <1>1, <1>2, <1>4, <1>6, <2>1 DEF NoEnd
    <3> QED
      BY <1>1, <2>1, <3>1 DEF Heard
  <2>2. ASSUME NEW i \in 1..Len(queue), LastEnd(queue, w, units[w].generation, i), queue[i].transition[2] = execs[w].state
        PROVE  Heard(w)'
    <3>1. LastEnd(queue', w, units'[w].generation, i)
      <4>1. i \in 1..Len(queue') /\ EndIn(queue'[i], w, units[w].generation)
        BY <1>2, <2>2 DEF LastEnd
      <4>2. ASSUME NEW j \in 1..Len(queue'), j > i PROVE ~EndIn(queue'[j], w, units[w].generation)
        <5>1. CASE j \in 1..Len(queue)
          BY <1>2, <2>2, <4>2, <5>1 DEF LastEnd
        <5>2. CASE j = Len(queue) + 1
          BY <1>2, <1>4, <1>6, <5>2
        <5> QED
          BY <1>2, <5>1, <5>2
      <4> QED
        BY <1>1, <4>1, <4>2 DEF LastEnd
    <3> QED
      BY <1>1, <1>2, <2>2, <3>1 DEF Heard
  <2> QED
    BY <1>6, <2>1, <2>2 DEF Heard, Put
<1> QED
  BY <1>5, <1>6

LEMMA WorkHeard ==
  ASSUME Typed, LoopOK, CatchesUp, NEW w \in Workers, Work(w)
  PROVE  CatchesUp'
<1>0. /\ UNCHANGED units
      /\ execs' = [execs EXCEPT ![w] = execs'[w]]
      /\ execs[w] \in Executors /\ ReportsTruly(execs[w]) /\ Heard(w)
  BY WorkFacts DEF Typed, TypeOK, LoopOK, CatchesUp, UnchangedBySupervisor
<1>1. Heard(w)'
  <2>1. CASE Put(w)
    BY <1>0, <2>1, PutHeard
  <2>2. CASE Raise(w) \/ Die(w)
    <3>1. execs'[w] = Ended(execs[w], "broken")
      BY <2>2 DEF Raise, Die, Typed, TypeOK
    <3>2. execs'[w].pc = "broken"
      BY <1>0, <3>1 DEF Ended, Executors
    <3> QED
      BY <3>2 DEF Heard
  <2>3. CASE EndTransition(w)
    <3> DEFINE tgt == execs[w].act.transition[2]
               act == Transition("transition_end", execs[w].act.transition[1], tgt)
    <3>1. execs'[w] = [execs[w] EXCEPT !.pc = "put", !.state = tgt, !.act = act]
      BY <2>3 DEF EndTransition, Typed, TypeOK
    <3>2. act.kind = "transition_end"
      BY DEF Transition
    <3> HIDE DEF act, tgt
    <3>3. execs'[w].pc = "put" /\ execs'[w].act = act
      BY <1>0, <3>1 DEF Executors
    <3> QED
      BY <3>2, <3>3 DEF Heard
  <2>4. ASSUME Keepalive(w) \/ Exit(w) \/ \E e \in Events(FSM, execs[w].state) : BeginTransition(w, e)
        PROVE  Heard(w)'
    <3>1. queue' = queue /\ execs[w].pc = "loop"
      BY <2>4 DEF Keepalive, Exit, BeginTransition, Acts
    <3>2. execs'[w].state = execs[w].state
      <4>1. CASE Keepalive(w)
        BY <1>0, <4>1 DEF Keepalive, Typed, TypeOK, Executors
      <4>2. CASE Exit(w)
        BY <1>0, <4>2 DEF Exit, Ended, Typed, TypeOK, Executors
      <4>3. ASSUME NEW e \in Events(FSM, execs[w].state), BeginTransition(w, e)
            PROVE  execs'[w].state = execs[w].state
        <5> DEFINE act == Transition("transition_begin", execs[w].state,
                                     TargetState(FSM, execs[w].state, e))
        <5>1. execs'[w] = [execs[w] EXCEPT !.pc = "put", !.act = act]
          BY <4>3 DEF BeginTransition, Typed, TypeOK
        <5> HIDE DEF act
        <5> QED
          BY <1>0, <5>1 DEF Executors
      <4> QED
        BY <2>4, <4>1, <4>2, <4>3
    <3> QED
      BY <1>0, <3>1, <3>2 DEF Heard
  <2> QED
    BY <2>1, <2>2, <2>3, <2>4 DEF Work
<1>2. ASSUME NEW v \in Workers, v # w PROVE Heard(v)'
  <2>1. execs'[v] = execs[v] /\ Heard(v) /\ Len(queue) \in Nat
    BY <1>0, <1>2 DEF Typed, TypeOK, CatchesUp
  <2>2. CASE queue' = queue
    BY <1>0, <2>1, <2>2 DEF Heard
  <2>3. CASE queue' = Append(queue, Stamped(w, execs[w].act))
    <3> DEFINE m == Stamped(w, execs[w].act)
    <3>1. /\ Len(queue') = Len(queue) + 1 /\ queue'[Len(queue) + 1] = m
          /\ \A i \in 1..Len(queue) : queue'[i] = queue[i]
      BY <2>3 DEF Typed, TypeOK
    <3>2. ~EndIn(m, v, units[v].generation)
      BY <1>2 DEF EndIn, Stamped
    <3> HIDE DEF m
    <3>4. \A i \in 1..Len(queue') :
             EndIn(queue'[i], v, units[v].generation)
                <=> i \in 1..Len(queue) /\ EndIn(queue[i], v, units[v].generation)
      BY <2>1, <3>1, <3>2
    <3>5. NoEnd(queue, v, units[v].generation) => NoEnd(queue', v, units'[v].generation)
      BY <1>0, <2>1, <3>1, <3>4 DEF NoEnd
    <3>6. \A i \in 1..Len(queue) : LastEnd(queue, v, units[v].generation, i) => LastEnd(queue', v, units'[v].generation, i) /\ i \in 1..Len(queue')
      BY <1>0, <2>1, <3>1, <3>4 DEF LastEnd
    <3> QED
      BY <1>0, <2>1, <3>1, <3>5, <3>6 DEF Heard
  <2> QED
    BY <2>2, <2>3, WorkFacts DEF Typed
<1> QED
  BY <1>1, <1>2 DEF CatchesUp

LEMMA InitHeard == Init => CatchesUp
  BY NewExpectationType DEF Init, CatchesUp, Heard, NoEnd, NewUnit, NewExecutor

LEMMA NextHeard == SafeEnd /\ Fenced /\ CatchesUp /\ [Next]_vars => CatchesUp'
<1> SUFFICES ASSUME SafeEnd, Fenced, CatchesUp, [Next]_vars PROVE CatchesUp'
  OBVIOUS
<1>0. Typed /\ LoopOK
  BY DEF SafeEnd
<1>1. CASE Tick \/ Failure \/ ExitSignal
  BY <1>0, <1>1, BootHeard, DrainOneHeard, ReplaceHeard, OtherHeard DEF Tick, Failure
<1>2. ASSUME NEW w \in Workers, Work(w) PROVE CatchesUp'
  BY <1>0, <1>2, WorkHeard
<1>3. CASE UNCHANGED vars
  BY <1>3 DEF vars, CatchesUp, Heard
<1> QED
  BY <1>1, <1>2, <1>3 DEF Next, Terminated

\* For every machine, queue size and number of restarts: recording what is in the
\* queue brings the supervisor to the state its worker is in, so a drain that keeps
\* up sees the truth, and no drop it makes costs a transition.
THEOREM NoTransitionIsLost == Spec => []EvaluatorCatchesUp
<1>1. SafeEnd /\ CatchesUp => EvaluatorCatchesUp
  BY HeardMeaning DEF SafeEnd, Typed
<1>2. Spec => []Fenced
  BY InitFenced, NextFenced, Safety, PTL DEF Spec
<1>3. Spec => []CatchesUp
  BY <1>2, InitHeard, NextHeard, Safety, PTL DEF Spec
<1> QED
  BY <1>1, <1>3, Safety, PTL
-----------------------------------------------------------------------------
(* What the supervisor does with its verdicts. *)

\* all_units_completed is believed of queued activities, and yet true of the workers.
LEMMA CompletedIsTrue ==
  ASSUME VerdictIsEarned, NEW w \in Workers, Status(w, FALSE) = "COMPLETED"
  PROVE  ~IsAlive(w) /\ TerminalOutcome(FSM, execs[w].state) = "OK"
<1>1. ~IsAlive(w) /\ Outcome(w) = "OK"
  BY DEF Status
<1>2. units[w].expectation.state = execs[w].state
  BY <1>1 DEF VerdictIsEarned
<1> QED
  BY <1>1, <1>2 DEF Outcome

\* The way from "running" to "terminating" is taken by order, or by the judgement of a tick.
LEMMA OnlyJudgeTerminates ==
  ASSUME Typed, LoopOK, [Next]_vars, target = "running", target' = "terminating", cmd # "stop"
  PROVE  AllUnitsCompleted
<1>1. ~FinishTransition /\ ~LoopEnds /\ ~Boot /\ ~BootFails /\ ~StopRequested /\ ~BeginTick
      /\ ~DrainOne /\ ~DrainDone /\ ~ExitSignal /\ ~Interrupted /\ ~Terminated
      /\ ~UNCHANGED vars
  BY EmitFacts
  DEF FinishTransition, LoopEnds, Abort, Boot, BootFails, StopRequested, BeginTick, DrainOne, DrainDone, ExitSignal,
         Interrupted, Terminated, vars
<1>2. \A w \in Workers : ~Supervise(w)
  BY EmitFacts DEF Supervise, Typed, ControlOK
<1>3. \A w \in Workers : ~KillLingering(w) /\ ~Replace(w) /\ ~ReplaceFails(w)
  BY DEF KillLingering, Replace, ReplaceFails
<1>4. ~ShutdownComplete /\ \A late : ~ShutdownPass(late)
  BY DEF ShutdownComplete, ShutdownPass, Typed, ControlOK
<1>5. \A w \in Workers : ~Work(w)
  BY WorkFacts DEF UnchangedBySupervisor, Typed
<1>6. Judge
  BY <1>1, <1>2, <1>3, <1>4, <1>5 DEF Next, Tick, Failure
<1> QED
  BY <1>6, EmitFacts DEF Judge

\* For every number of workers and whatever they do meanwhile: a supervisor nobody
\* stopped terminates only when each of them has itself ended in an OK state.
THEOREM StopsAreEarned == Spec => StopsOnlyWhenAllCompleted
<1> DEFINE Stops ==
      target = "running" /\ target' = "terminating" /\ cmd # "stop" =>
          \A w \in Workers : ~IsAlive(w) /\ TerminalOutcome(FSM, execs[w].state) = "OK"
<1>1. SafeEnd /\ VerdictIsEarned /\ [Next]_vars => [Stops]_vars
  BY OnlyJudgeTerminates, CompletedIsTrue DEF SafeEnd, Typed, AllUnitsCompleted
<1>2. Spec => [][Next]_vars
  BY DEF Spec
<1>3. [][Stops]_vars <=> StopsOnlyWhenAllCompleted
  BY DEF StopsOnlyWhenAllCompleted
<1> HIDE DEF Stops
<1> QED
  BY <1>1, <1>2, <1>3, Safety, VerdictsAreEarned, PTL

\* Where workers are coroutines none runs during a tick, so a drain empties the queue,
\* whose size is its budget, and a unit found failed has not ended well unheard.
DrainsEmpty ==
    /\ QueueMax > 0 => Len(queue) <= QueueMax
    /\ QueueMax > 0 /\ pc = "drain" => drained + Len(queue) <= QueueMax
    /\ pc = "supervise" => queue = <<>>

RestartsTheFailed == \A w \in restarting : ~EndedWell(w) \/ units[w].kill_requested

LEMMA WorkOnlyBetweenTicks ==
  ASSUME ExecutorType = "coroutine", Typed, LoopOK, DrainsEmpty, RestartsTheFailed,
         NEW w \in Workers, Work(w)
  PROVE  DrainsEmpty' /\ RestartsTheFailed'
<1>1. MayRun
  BY DEF Work, Put, Keepalive, EndTransition, Raise, Exit, Die, BeginTransition, Acts
<1>2. pc \notin {"drain", "supervise"} /\ UNCHANGED <<pc, restarting>>
  BY <1>1, WorkFacts DEF MayRun, UnchangedBySupervisor, Typed
<1>3. restarting = {}
  BY <1>2 DEF Typed, ControlOK
<1>4. QueueMax > 0 => Len(queue') <= QueueMax
  <2>1. CASE queue' = queue
    BY <2>1 DEF DrainsEmpty
  <2>2. CASE queue' # queue
    <3>1. Put(w)
      BY <2>2 DEF Work, Keepalive, EndTransition, Raise, Exit, Die, BeginTransition
    <3>2. Len(queue') = Len(queue) + 1 /\ Len(queue) \in Nat
      BY <3>1 DEF Put, Typed, TypeOK
    <3> QED
      BY <3>1, <3>2, QueueAssumption DEF Put, HasRoom
  <2> QED
    BY <2>1, <2>2
<1> QED
  BY <1>2, <1>3, <1>4 DEF DrainsEmpty, RestartsTheFailed

LEMMA DrainLeavesNothing ==
  ASSUME Typed, DrainsEmpty, RestartsTheFailed, BeginTick \/ DrainOne \/ DrainDone
  PROVE  DrainsEmpty' /\ RestartsTheFailed'
<1>0. Len(queue) \in Nat /\ drained \in Nat /\ (queue = <<>> <=> Len(queue) = 0)
      /\ (pc # "supervise" => restarting = {})
  BY DEF Typed, TypeOK, ControlOK
<1>1. CASE BeginTick
  BY <1>0, <1>1 DEF BeginTick, DrainsEmpty, RestartsTheFailed
<1>2. CASE DrainOne
  <2>1. Len(queue') = Len(queue) - 1 /\ Len(queue) > 0
    BY <1>2, DrainOneFacts DEF Typed
  <2>2. QueueMax > 0 => drained' = drained + 1
    BY <1>2 DEF DrainOne, Counted
  <2>3. pc = "drain" /\ pc' = pc /\ restarting' = restarting
    BY <1>2 DEF DrainOne
  <2> QED
    BY <1>0, <2>1, <2>2, <2>3, QueueAssumption DEF DrainsEmpty, RestartsTheFailed
<1>3. CASE DrainDone
  <2>1. /\ queue' = queue /\ restarting' = restarting /\ pc = "drain" /\ pc' # "drain"
        /\ BudgetSpent \/ queue = <<>>
    BY <1>3 DEF DrainDone
  <2>2. queue = <<>>
    BY <1>0, <2>1, QueueAssumption DEF BudgetSpent, DrainsEmpty
  <2> QED
    BY <1>0, <2>1, <2>2 DEF DrainsEmpty, RestartsTheFailed
<1> QED
  BY <1>1, <1>2, <1>3

\* The evaluator has heard of the end of every worker that ended well, so its unit is
\* not found failed.
LEMMA SuperviseSeesEnds ==
  ASSUME Typed, CatchesUp, DrainsEmpty, RestartsTheFailed, NEW w \in Workers, Supervise(w)
  PROVE  DrainsEmpty' /\ RestartsTheFailed'
<1>1. /\ pc = "supervise" /\ queue = <<>> /\ restarting = {}
      /\ UNCHANGED <<queue, units, execs>>
      /\ pc' \in {"supervise", "idle", "hooks"}
  BY EmitFacts DEF Supervise, DrainsEmpty
<1>2. DrainsEmpty'
  BY <1>1 DEF DrainsEmpty
<1>3. CASE restarting' = {}
  BY <1>2, <1>3 DEF RestartsTheFailed
<1>4. CASE restarting' # {}
  <2>1. PICK late \in BOOLEAN : Status(w, late) \in {"LINGERING", "FAILED"} /\ restarting' = {w}
    BY <1>1, <1>4 DEF Supervise
  <2>2. ASSUME EndedWell(w), ~units[w].kill_requested PROVE FALSE
    <3>1. ~IsAlive(w) /\ execs[w].pc = "finished"
      BY <2>2 DEF EndedWell, IsAlive
    <3>2. ~ \E i \in 1..Len(queue) : TRUE
      BY <1>1
    <3>3. units[w].expectation.state = execs[w].state
      BY <3>1, <3>2 DEF CatchesUp, Heard
    <3>4. Outcome(w) = "OK"
      BY <2>2, <3>3 DEF EndedWell, Outcome
    <3> QED
      BY <2>1, <2>2, <3>1, <3>4 DEF Status
  <2>3. ~EndedWell(w) \/ units[w].kill_requested
    BY <2>2
  <2>4. (EndedWell(w) <=> EndedWell(w)') /\ units' = units
    BY <1>1 DEF EndedWell
  <2> QED
    BY <1>2, <2>1, <2>3, <2>4 DEF RestartsTheFailed
<1> QED
  BY <1>3, <1>4

LEMMA OtherLeavesDrained ==
  ASSUME Typed, DrainsEmpty, RestartsTheFailed,
         \/ FinishTransition \/ LoopEnds \/ Boot \/ BootFails \/ StopRequested \/ Judge
         \/ ShutdownComplete \/ ExitSignal \/ Interrupted
         \/ \E w \in Workers : KillLingering(w) \/ Replace(w) \/ ReplaceFails(w)
         \/ \E late \in SUBSET Watched : ShutdownPass(late)
  PROVE  DrainsEmpty' /\ RestartsTheFailed'
<1>1. queue' = queue
  BY DEF FinishTransition, LoopEnds, Boot, BootFails, StopRequested, Judge,
         ShutdownComplete, ExitSignal, Interrupted, KillLingering, Replace, ReplaceFails, ShutdownPass
<1>2. CASE ExitSignal
  BY <1>2 DEF ExitSignal, DrainsEmpty, RestartsTheFailed, EndedWell
<1>3. CASE ~ExitSignal
  <2>1. restarting' = {}
    <3>1. CASE \E w \in Workers : KillLingering(w) \/ Replace(w) \/ ReplaceFails(w)
      BY <3>1 DEF KillLingering, Replace, ReplaceFails
    <3>2. CASE \/ FinishTransition \/ LoopEnds \/ Boot \/ BootFails \/ StopRequested \/ Interrupted \/ ShutdownComplete
               \/ \E late \in SUBSET Watched : ShutdownPass(late)
      <4>1. pc # "supervise" /\ restarting' = restarting
        BY <3>2 DEF FinishTransition, LoopEnds, Boot, BootFails, StopRequested, Interrupted, ShutdownComplete, ShutdownPass
      <4> QED
        BY <4>1 DEF Typed, ControlOK
    <3>3. CASE Judge
      BY <3>3 DEF Judge
    <3> QED
      BY <1>3, <3>1, <3>2, <3>3
  <2>2. pc' # "drain" /\ (pc' = "supervise" => pc = "supervise")
    <3>1. CASE Boot \/ StopRequested \/ Judge \/ ShutdownComplete
               \/ \E late \in SUBSET Watched : ShutdownPass(late)
      BY <3>1, EmitFacts DEF Boot, StopRequested, Judge, ShutdownComplete, ShutdownPass
    <3>2. CASE \/ FinishTransition \/ LoopEnds \/ BootFails \/ Interrupted
               \/ \E w \in Workers : ReplaceFails(w)
      BY <3>2 DEF FinishTransition, LoopEnds, BootFails, Interrupted, Abort, ReplaceFails
    <3>3. CASE \E w \in Workers : KillLingering(w) \/ Replace(w)
      BY <3>3 DEF KillLingering, Replace, Typed, ControlOK
    <3> QED
      BY <1>3, <3>1, <3>2, <3>3
  <2> QED
    BY <1>1, <2>1, <2>2 DEF DrainsEmpty, RestartsTheFailed
<1> QED
  BY <1>2, <1>3

LEMMA NextDrained ==
  ASSUME ExecutorType = "coroutine", SafeEnd, CatchesUp, DrainsEmpty, RestartsTheFailed,
         [Next]_vars
  PROVE  DrainsEmpty' /\ RestartsTheFailed'
<1>0. Typed /\ LoopOK
  BY DEF SafeEnd
<1>1. CASE Tick \/ Failure \/ ExitSignal
  BY <1>0, <1>1, DrainLeavesNothing, SuperviseSeesEnds, OtherLeavesDrained DEF Tick, Failure
<1>2. ASSUME NEW w \in Workers, Work(w) PROVE DrainsEmpty' /\ RestartsTheFailed'
  BY <1>0, <1>2, WorkOnlyBetweenTicks
<1>3. CASE UNCHANGED vars
  BY <1>3 DEF vars, DrainsEmpty, RestartsTheFailed, EndedWell
<1> QED
  BY <1>1, <1>2, <1>3 DEF Next, Terminated

\* Only restart_unit, its failure included, begins a generation.
LEMMA GenerationsBegin ==
  ASSUME Typed, LoopOK, [Next]_vars, NEW w \in Workers,
         units'[w].generation # units[w].generation
  PROVE  w \in restarting
<1>1. ASSUME FinishTransition \/ LoopEnds \/ Boot \/ StopRequested \/ BeginTick \/ DrainDone
             \/ Judge \/ ShutdownComplete \/ ExitSignal \/ Terminated \/ UNCHANGED vars \/ \E v \in Workers : Supervise(v)
      PROVE  FALSE
  BY <1>1 DEF FinishTransition, LoopEnds, Boot, StopRequested, BeginTick, DrainDone, Judge, ShutdownComplete, ExitSignal,
              Terminated, vars, Supervise
<1>2. ASSUME BootFails PROVE FALSE
  BY <1>2 DEF BootFails, Typed, TypeOK, SupervisionUnits
<1>3. ASSUME DrainOne PROVE FALSE
  BY <1>3, DrainOneFacts DEF Typed
<1>4. ASSUME Interrupted \/ \E v \in Workers : KillLingering(v) PROVE FALSE
  BY <1>4, KillFacts DEF Interrupted, Abort, KillLingering, Typed
<1>5. ASSUME NEW late, ShutdownPass(late) PROVE FALSE
  BY <1>5, ShutdownPassFacts DEF Typed
<1>6. ASSUME NEW v \in Workers, Work(v) PROVE FALSE
  BY <1>6, WorkFacts DEF UnchangedBySupervisor, Typed
<1>7. ASSUME NEW v \in Workers, v # w, Replace(v) \/ ReplaceFails(v) PROVE FALSE
  BY <1>7 DEF Replace, ReplaceFails, Typed, TypeOK, SupervisionUnits
<1>8. Replace(w) \/ ReplaceFails(w)
  BY <1>1, <1>2, <1>3, <1>4, <1>5, <1>6, <1>7 DEF Next, Tick, Failure
<1> QED
  BY <1>8 DEF Replace, ReplaceFails

\* Coroutine workers, for every machine, queue size and quota: one that ended in an OK
\* state is never restarted unless its kill had been requested, since each drain
\* takes all there is, and what it takes is all there is to know. (A thread may end
\* between the drain and the look at its unit; there the property fails.)
THEOREM CompletedCoroutinesStay ==
  ASSUME ExecutorType = "coroutine"
  PROVE  Spec => CompletedNeverRestarted
<1> DEFINE Stays ==
      \A w \in Workers : units'[w].generation # units[w].generation =>
          ~EndedWell(w) \/ units[w].kill_requested
<1>1. Init => DrainsEmpty /\ RestartsTheFailed
  BY QueueAssumption DEF Init, DrainsEmpty, RestartsTheFailed
<1>2. SafeEnd /\ CatchesUp /\ DrainsEmpty /\ RestartsTheFailed /\ [Next]_vars
         => DrainsEmpty' /\ RestartsTheFailed'
  BY NextDrained
<1>3. SafeEnd /\ RestartsTheFailed /\ [Next]_vars => [Stays]_vars
  BY GenerationsBegin DEF SafeEnd, RestartsTheFailed
<1>4. Spec => []CatchesUp
  BY InitFenced, NextFenced, InitHeard, NextHeard, Safety, PTL DEF Spec
<1>5. [][Stays]_vars <=> CompletedNeverRestarted
  BY DEF CompletedNeverRestarted
<1> HIDE DEF Stays
<1> QED
  BY <1>1, <1>2, <1>3, <1>4, <1>5, Safety, PTL DEF Spec
=============================================================================
