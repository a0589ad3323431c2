-------------------------- MODULE SupervisorProofs --------------------------
(***************************************************************************)
(* Supervisor: types, the phases of a tick, and the safety of its end, for *)
(* every set of workers, worker machine, queue size and restart quota.     *)
(***************************************************************************)
EXTENDS Supervisor, TLAPS

-----------------------------------------------------------------------------
(* The two machines. *)

\* The states and the transitions a supervisor's own loop takes (defaults.py).
LEMMA SupervisorMachine ==
  /\ States(SupervisorFSM) =
        {"idle", "starting", "running", "reaping", "terminating", "crashed", "stopped"}
  /\ TerminalStates(SupervisorFSM) = {"crashed", "stopped"}
  /\ TargetState(SupervisorFSM, "starting", "run") = "running"
  /\ TargetState(SupervisorFSM, "running", "complete") = "terminating"
  /\ TargetState(SupervisorFSM, "running", "error") = "reaping"
  /\ TargetState(SupervisorFSM, "reaping", "complete") = "crashed"
  /\ TargetState(SupervisorFSM, "terminating", "complete") = "stopped"
<1>1. /\ DOMAIN SupervisorFSM.next = {"idle", "starting", "running", "reaping", "terminating"}
      /\ SupervisorFSM.terminal = [crashed |-> "ERROR", stopped |-> "OK"]
  BY DEF SupervisorFSM, DefaultTerminals
<1>2. /\ SupervisorFSM.next["starting"] = [run |-> "running", error |-> "crashed"]
      /\ SupervisorFSM.next["running"] = [complete |-> "terminating", error |-> "reaping"]
      /\ SupervisorFSM.next["reaping"] = [complete |-> "crashed", error |-> "crashed"]
      /\ SupervisorFSM.next["terminating"] = [complete |-> "stopped", error |-> "crashed"]
  BY DEF SupervisorFSM
<1> QED
  BY <1>1, <1>2 DEF States, TerminalStates, TargetState

\* A machine whose every live state has a deadline, but for the initial one, which a
\* worker leaves at once and for which none is armed in time.
IsWatched(fsm) ==
    \A s \in DOMAIN fsm.next :
        s # InitialState(fsm) <=> s \in DOMAIN fsm.heartbeat_timeouts \cup DOMAIN fsm.state_timeouts

LEMMA InitialIsTheOne ==
  ASSUME NEW fsm, NEW initial \in DOMAIN fsm.next,
         \A s \in DOMAIN fsm.next : s # initial <=> HasIncomingEdge(fsm, s)
  PROVE  InitialState(fsm) = initial
BY DEF InitialState

LEMMA DefaultWorkerQualifies == IsStateMachine(DefaultWorkerFSM) /\ IsWatched(DefaultWorkerFSM)
<1> DEFINE F == DefaultWorkerFSM
<1>1. /\ DOMAIN F.next = {"idle", "starting", "running", "terminating"}
      /\ F.next["idle"] = [start |-> "starting"]
      /\ F.next["starting"] = [run |-> "running", error |-> "crashed"]
      /\ F.next["running"] = [complete |-> "terminating", error |-> "crashed"]
      /\ F.next["terminating"] = [complete |-> "stopped", error |-> "crashed"]
      /\ F.terminal = [crashed |-> "ERROR", stopped |-> "OK"]
      /\ F.initial_event = "start"
  BY DEF DefaultWorkerFSM, DefaultTerminals
<1>2. /\ F.heartbeat_timeouts = [running |-> 2]
      /\ F.transition_timeouts =
            [p \in {<<"idle", "starting">>, <<"starting", "running">>,
                    <<"running", "terminating">>, <<"terminating", "stopped">>} |-> 1]
      /\ F.state_timeouts = [starting |-> 10, terminating |-> 10]
  BY DEF DefaultWorkerFSM, DefaultTransitionTimeouts
<1> HIDE DEF F
<1>3. /\ States(F) = {"idle", "starting", "running", "terminating", "crashed", "stopped"}
      /\ TerminalStates(F) = {"crashed", "stopped"}
  BY <1>1 DEF States, TerminalStates
<1>4. /\ Events(F, "idle") = {"start"} /\ Events(F, "starting") = {"run", "error"}
      /\ Events(F, "running") = {"complete", "error"}
      /\ Events(F, "terminating") = {"complete", "error"}
  BY <1>1 DEF Events
<1>5. /\ TargetState(F, "idle", "start") = "starting"
      /\ TargetState(F, "starting", "run") = "running"
      /\ TargetState(F, "starting", "error") = "crashed"
      /\ TargetState(F, "running", "complete") = "terminating"
      /\ TargetState(F, "running", "error") = "crashed"
      /\ TargetState(F, "terminating", "complete") = "stopped"
      /\ TargetState(F, "terminating", "error") = "crashed"
  BY <1>1 DEF TargetState
<1>6. \A s \in States(F) : s # "idle" <=> HasIncomingEdge(F, s)
  BY <1>1, <1>3, <1>4, <1>5 DEF HasIncomingEdge
<1>7. InitialState(F) = "idle"
  BY <1>1, <1>3, <1>6, InitialIsTheOne
<1>8. /\ AreTimeouts(F.heartbeat_timeouts, States(F))
      /\ AreTimeouts(F.state_timeouts, States(F))
  BY <1>2, <1>3 DEF AreTimeouts
<1>9. AreTimeouts(F.transition_timeouts, Edges(F))
  <2>1. {<<"idle", "starting">>, <<"starting", "running">>,
         <<"running", "terminating">>, <<"terminating", "stopped">>} \subseteq Edges(F)
    BY <1>3, <1>4, <1>5 DEF Edges
  <2> QED
    BY <1>2, <2>1 DEF AreTimeouts
<1>10. \A s \in DOMAIN F.next : \A e \in Events(F, s) : TargetState(F, s, e) \in States(F)
  BY <1>1, <1>3, <1>4, <1>5
<1>11. IsStateMachine(F)
  BY <1>1, <1>4, <1>6, <1>7, <1>8, <1>9, <1>10 DEF IsStateMachine
<1>12. IsWatched(F)
  BY <1>1, <1>2, <1>7 DEF IsWatched
<1> QED
  BY <1>11, <1>12 DEF F

LEMMA SupervisorQualifies == IsStateMachine(SupervisorFSM) /\ IsWatched(SupervisorFSM)
<1> DEFINE F == SupervisorFSM
<1>1. /\ DOMAIN F.next = {"idle", "starting", "running", "reaping", "terminating"}
      /\ F.next["idle"] = [start |-> "starting"]
      /\ F.next["starting"] = [run |-> "running", error |-> "crashed"]
      /\ F.next["running"] = [complete |-> "terminating", error |-> "reaping"]
      /\ F.next["reaping"] = [complete |-> "crashed", error |-> "crashed"]
      /\ F.next["terminating"] = [complete |-> "stopped", error |-> "crashed"]
      /\ F.terminal = [crashed |-> "ERROR", stopped |-> "OK"]
      /\ F.initial_event = "start"
  BY DEF SupervisorFSM, DefaultTerminals
<1>2. /\ F.heartbeat_timeouts = [running |-> 2]
      /\ F.transition_timeouts =
            [p \in {<<"idle", "starting">>, <<"starting", "running">>,
                    <<"running", "terminating">>, <<"terminating", "stopped">>,
                    <<"running", "reaping">>, <<"reaping", "crashed">>} |-> 1]
      /\ F.state_timeouts = [starting |-> 10, terminating |-> 10, reaping |-> 10]
  BY DEF SupervisorFSM, DefaultTransitionTimeouts
<1> HIDE DEF F
<1>3. /\ States(F) = {"idle", "starting", "running", "reaping", "terminating", "crashed", "stopped"}
      /\ TerminalStates(F) = {"crashed", "stopped"}
  BY <1>1 DEF States, TerminalStates
<1>4. /\ Events(F, "idle") = {"start"} /\ Events(F, "starting") = {"run", "error"}
      /\ Events(F, "running") = {"complete", "error"}
      /\ Events(F, "reaping") = {"complete", "error"}
      /\ Events(F, "terminating") = {"complete", "error"}
  BY <1>1 DEF Events
<1>5. /\ TargetState(F, "idle", "start") = "starting"
      /\ TargetState(F, "starting", "run") = "running"
      /\ TargetState(F, "starting", "error") = "crashed"
      /\ TargetState(F, "running", "complete") = "terminating"
      /\ TargetState(F, "running", "error") = "reaping"
      /\ TargetState(F, "reaping", "complete") = "crashed"
      /\ TargetState(F, "reaping", "error") = "crashed"
      /\ TargetState(F, "terminating", "complete") = "stopped"
      /\ TargetState(F, "terminating", "error") = "crashed"
  BY <1>1 DEF TargetState
<1>6. \A s \in States(F) : s # "idle" <=> HasIncomingEdge(F, s)
  BY <1>1, <1>3, <1>4, <1>5 DEF HasIncomingEdge
<1>7. InitialState(F) = "idle"
  BY <1>1, <1>3, <1>6, InitialIsTheOne
<1>8. /\ AreTimeouts(F.heartbeat_timeouts, States(F))
      /\ AreTimeouts(F.state_timeouts, States(F))
  BY <1>2, <1>3 DEF AreTimeouts
<1>9. AreTimeouts(F.transition_timeouts, Edges(F))
  <2>1. {<<"idle", "starting">>, <<"starting", "running">>,
         <<"running", "terminating">>, <<"terminating", "stopped">>,
         <<"running", "reaping">>, <<"reaping", "crashed">>} \subseteq Edges(F)
    BY <1>3, <1>4, <1>5 DEF Edges
  <2> QED
    BY <1>2, <2>1 DEF AreTimeouts
<1>10. \A s \in DOMAIN F.next : \A e \in Events(F, s) : TargetState(F, s, e) \in States(F)
  BY <1>1, <1>3, <1>4, <1>5
<1>11. IsStateMachine(F)
  BY <1>1, <1>4, <1>6, <1>7, <1>8, <1>9, <1>10 DEF IsStateMachine
<1>12. IsWatched(F)
  BY <1>1, <1>2, <1>7 DEF IsWatched
<1> QED
  BY <1>11, <1>12 DEF F

\* The machines that are shipped (defaults.py) are what the theorems here and those of
\* Timing assume of a machine, and a worker that hangs in any of their states that it
\* does not leave at once has a deadline to miss.
THEOREM ShippedMachinesQualify ==
  \A fsm \in {DefaultWorkerFSM, SupervisorFSM} : IsStateMachine(fsm) /\ IsWatched(fsm)
BY DefaultWorkerQualifies, SupervisorQualifies

\* What the constructor of StateMachine guarantees of the workers' machine: its
\* initial state is a live one, and every transition leads to a state.
LEMMA WorkerMachine ==
  /\ InitialState(FSM) \in States(FSM)
  /\ InitialState(FSM) \notin TerminalStates(FSM)
  /\ \A s : \A e \in Events(FSM, s) : TargetState(FSM, s, e) \in States(FSM)
<1>1. InitialState(FSM) \in DOMAIN FSM.next
  <2>1. \E s \in DOMAIN FSM.next : ~HasIncomingEdge(FSM, s)
    BY FSMAssumption DEF IsStateMachine, States
  <2> QED
    BY <2>1 DEF InitialState
<1>2. ASSUME NEW s, NEW e \in Events(FSM, s) PROVE TargetState(FSM, s, e) \in States(FSM)
  <2>1. s \in DOMAIN FSM.next
    BY DEF Events
  <2> QED
    BY <2>1, FSMAssumption DEF IsStateMachine
<1> QED
  BY <1>1, <1>2, FSMAssumption DEF IsStateMachine, States, TerminalStates

\* A deadline is a time or is not armed.
LEMMA TimeoutType ==
  \A k : /\ TimeoutOf(FSM.heartbeat_timeouts, k) \in Nat \cup {Inf}
         /\ TimeoutOf(FSM.transition_timeouts, k) \in Nat \cup {Inf}
         /\ TimeoutOf(FSM.state_timeouts, k) \in Nat \cup {Inf}
  BY FSMAssumption DEF IsStateMachine, AreTimeouts, TimeoutOf

\* A new evaluator expects the initial state and has no deadline.
LEMMA NewExpectationType ==
  /\ NewExpectation(FSM) \in Expectations
  /\ NewExpectation(FSM).state = InitialState(FSM)
  BY WorkerMachine DEF NewExpectation, Expectations

\* WorkerStatusEvaluator.record keeps the type of the expectation, and only the
\* end of a transition changes the state it expects.
LEMMA RecordFacts ==
  ASSUME NEW exp \in Expectations, NEW a \in Messages
  PROVE  /\ Record(FSM, exp, a.kind, a.transition, 0) \in Expectations
         /\ a.kind = "transition_end" =>
                Record(FSM, exp, a.kind, a.transition, 0).state = a.transition[2]
         /\ a.kind # "transition_end" =>
                Record(FSM, exp, a.kind, a.transition, 0).state = exp.state
<1> DEFINE r == Record(FSM, exp, a.kind, a.transition, 0)
<1>0. \A t \in Nat \cup {Inf} : After(0, t) \in Nat \cup {Inf}
  BY DEF After, Inf
<1>1. CASE a.kind = "heartbeat"
  <2>1. r = RecordHeartbeat(FSM, exp, 0)
    BY <1>1 DEF Record
  <2> QED
    BY <1>0, <1>1, <2>1, TimeoutType DEF RecordHeartbeat, Expectations
<1>2. CASE a.kind = "transition_begin"
  <2>1. r = RecordTransitionBegin(FSM, exp, a.transition[1], a.transition[2], 0)
    BY <1>2 DEF Record
  <2> QED
    BY <1>0, <1>2, <2>1, TimeoutType DEF RecordTransitionBegin, Expectations
<1>3. CASE a.kind = "transition_end"
  <2>1. r = RecordTransitionEnd(FSM, exp, a.transition[2], 0)
    BY <1>3 DEF Record
  <2>2. a.transition[2] \in States(FSM)
    BY <1>3 DEF Messages
  <2>3. /\ ArmedFor(FSM, a.transition[2], FSM.heartbeat_timeouts, 0) \in Nat \cup {Inf}
        /\ ArmedFor(FSM, a.transition[2], FSM.state_timeouts, 0) \in Nat \cup {Inf}
    BY <1>0, TimeoutType DEF ArmedFor
  <2> QED
    BY <1>3, <2>1, <2>2, <2>3 DEF RecordTransitionEnd, Expectations
<1> QED
  BY <1>1, <1>2, <1>3 DEF Messages

-----------------------------------------------------------------------------
(* Units and executors. *)

\* Fresh units and executors, started or not, are well typed.
LEMMA FreshType ==
  /\ NewExecutor \in Executors /\ Started \in Executors
  /\ \A g, r \in Nat : NewUnit(g, r) \in SupervisionUnits
<1>1. Beat \in Activities
  BY DEF Beat, Activities
<1> QED
  BY <1>1, WorkerMachine, NewExpectationType
  DEF NewExecutor, Started, Executors, NewUnit, SupervisionUnits

\* SupervisionUnit.kill marks units and executors, and changes nothing else.
LEMMA KillFacts ==
  ASSUME TypeOK, NEW victims, Kill(victims)
  PROVE  /\ units' \in [Workers -> SupervisionUnits]
         /\ execs' \in [Workers -> Executors]
         /\ \A w \in Workers :
              /\ execs'[w].pc = execs[w].pc
              /\ execs'[w].state = execs[w].state
              /\ execs'[w].act = execs[w].act
              /\ execs'[w].term = execs[w].term
              /\ execs'[w].killed =
                    (execs[w].killed \/ (w \in victims /\ IsAlive(w) /\ ~units[w].kill_requested))
              /\ units'[w].generation = units[w].generation
              /\ units'[w].restart_count = units[w].restart_count
              /\ units'[w].expectation = units[w].expectation
              /\ units'[w].kill_requested = (units[w].kill_requested \/ w \in victims)
<1>1. units' \in [Workers -> SupervisionUnits]
  BY DEF Kill, TypeOK, SupervisionUnits
<1>2. execs' \in [Workers -> Executors]
  BY DEF Kill, TypeOK, Executors
<1> QED
  BY <1>1, <1>2 DEF Kill, TypeOK, SupervisionUnits, Executors

\* A yield of the supervisor, by the event it emits.
LEMMA EmitFacts ==
  ASSUME NEW event, Emit(event)
  PROVE  /\ state' = state /\ cmd' \in {"tick", "stop"}
         /\ event = "keepalive" => target' = target
         /\ event = "run" /\ state = "starting" => target' = "running"
         /\ event = "complete" /\ state = "running" => target' = "terminating"
         /\ event = "error" /\ state = "running" => target' = "reaping"
         /\ event = "complete" /\ state = "reaping" => target' = "crashed"
         /\ event = "complete" /\ state = "terminating" => target' = "stopped"
         /\ pc' = IF event = "keepalive" THEN "idle" ELSE "hooks"
  BY SupervisorMachine DEF Emit, Command

-----------------------------------------------------------------------------
(* Types and phases. *)

Typed == TypeOK /\ ControlOK

\* _boot and its failure.
LEMMA BootTyped ==
  ASSUME Typed, Boot \/ BootFails
  PROVE  Typed'
<1>1. CASE Boot
  <2>1. /\ state = "starting" /\ state' = state /\ target' = "running"
        /\ pc' = "hooks" /\ cmd' \in {"tick", "stop"}
    BY <1>1, EmitFacts DEF Boot
  <2>2. execs' \in [Workers -> Executors]
    BY <1>1, FreshType DEF Boot
  <2> QED
    BY <1>1, <2>1, <2>2, SupervisorMachine DEF Boot, Typed, TypeOK, ControlOK
<1>2. CASE BootFails
  <2>1. PICK started \in SUBSET Workers :
        /\ units' = [w \in Workers |-> [units[w] EXCEPT !.kill_requested = w \in started]]
        /\ execs' = [w \in Workers |->
                IF w \in started THEN [Started EXCEPT !.killed = TRUE] ELSE execs[w]]
    BY <1>2 DEF BootFails
  <2>2. units' \in [Workers -> SupervisionUnits]
    <3>1. \A w \in Workers : (w \in started) \in BOOLEAN
      OBVIOUS
    <3>2. \A w \in Workers : \A b \in BOOLEAN :
             [units[w] EXCEPT !.kill_requested = b] \in SupervisionUnits
      BY DEF Typed, TypeOK, SupervisionUnits
    <3> QED
      BY <2>1, <3>1, <3>2, Zenon
  <2>3. execs' \in [Workers -> Executors]
    BY <2>1, FreshType DEF Typed, TypeOK, Executors
  <2> QED
    BY <1>2, <2>2, <2>3 DEF BootFails, Typed, TypeOK, ControlOK
<1> QED
  BY <1>1, <1>2

\* drain_activity_queue takes messages off the queue and records some of them.
LEMMA DrainOneFacts ==
  ASSUME TypeOK, DrainOne
  PROVE  /\ queue \in Seq(Messages) /\ queue # <<>>
         /\ Head(queue) \in Messages /\ queue' \in Seq(Messages)
         /\ Len(queue) \in Nat \ {0} /\ Len(queue') = Len(queue) - 1
         /\ \A i \in 1..Len(queue') : queue'[i] = queue[i + 1]
         /\ units' \in [Workers -> SupervisionUnits]
         /\ \A w \in Workers :
              /\ units'[w].generation = units[w].generation
              /\ units'[w].restart_count = units[w].restart_count
              /\ units'[w].kill_requested = units[w].kill_requested
              /\ units'[w].expectation.state =
                    IF /\ Head(queue).worker_name = w
                       /\ ~Drops(Head(queue)) /\ Head(queue).kind = "transition_end"
                    THEN Head(queue).transition[2] ELSE units[w].expectation.state
<1> DEFINE a == Head(queue)
<1>1. /\ queue \in Seq(Messages) /\ queue # <<>>
      /\ a \in Messages /\ queue' \in Seq(Messages)
      /\ Len(queue) \in Nat \ {0} /\ Len(queue') = Len(queue) - 1
      /\ \A i \in 1..Len(queue') : queue'[i] = queue[i + 1]
  BY DEF DrainOne, TypeOK
<1>2. a.worker_name \in Workers
  BY <1>1 DEF Messages
<1> DEFINE exp == units[a.worker_name].expectation
           rec == Record(FSM, exp, a.kind, a.transition, 0)
<1>3. exp \in Expectations
  BY <1>2 DEF TypeOK, SupervisionUnits
<1>4. /\ rec \in Expectations
      /\ a.kind = "transition_end" => rec.state = a.transition[2]
      /\ a.kind # "transition_end" => rec.state = exp.state
  BY <1>1, <1>3, RecordFacts
<1>5. units' = IF Drops(a) THEN units
               ELSE [units EXCEPT ![a.worker_name] = [@ EXCEPT !.expectation = rec]]
  BY DEF DrainOne
<1> HIDE DEF rec, exp
<1>6. units' \in [Workers -> SupervisionUnits]
  BY <1>2, <1>4, <1>5 DEF TypeOK, SupervisionUnits
<1>7. ASSUME NEW w \in Workers
      PROVE  /\ units'[w].generation = units[w].generation
             /\ units'[w].restart_count = units[w].restart_count
             /\ units'[w].kill_requested = units[w].kill_requested
             /\ units'[w].expectation =
                    IF a.worker_name = w /\ ~Drops(a) THEN rec ELSE units[w].expectation
  BY <1>2, <1>4, <1>5 DEF TypeOK, SupervisionUnits
<1> QED
  BY <1>1, <1>4, <1>6, <1>7 DEF exp

\* The rest of a tick: statuses, restarts and judgements.
LEMMA SuperviseTyped ==
  ASSUME Typed, NEW w \in Workers, Supervise(w)
  PROVE  Typed'
<1>1. /\ UNCHANGED <<exit_signal, units, execs, queue, drained>>
      /\ state = "running" /\ target = "running" /\ pc = "supervise"
      /\ todo' \subseteq Workers /\ restarting' \subseteq Workers
  BY DEF Supervise, Typed, TypeOK, ControlOK
<1>2. \/ UNCHANGED <<state, target, pc, cmd, exception>>
      \/ /\ exception' = "retry_exhausted" /\ Emit("error") /\ restarting' = {}
  BY DEF Supervise
<1>3. CASE UNCHANGED <<state, target, pc, cmd, exception>>
  BY <1>1, <1>3 DEF Typed, TypeOK, ControlOK
<1>4. CASE exception' = "retry_exhausted" /\ Emit("error") /\ restarting' = {}
  <2>1. state' = state /\ target' = "reaping" /\ pc' = "hooks" /\ cmd' \in {"tick", "stop"}
    BY <1>1, <1>4, EmitFacts
  <2> QED
    BY <1>1, <1>4, <2>1, SupervisorMachine DEF Typed, TypeOK, ControlOK
<1> QED
  BY <1>2, <1>3, <1>4

\* restart_unit, all its outcomes.
LEMMA RestartTyped ==
  ASSUME Typed, NEW w \in Workers, KillLingering(w) \/ Replace(w) \/ ReplaceFails(w)
  PROVE  Typed'
<1>1. state = "running" /\ target = "running" /\ pc = "supervise"
  BY DEF KillLingering, Replace, ReplaceFails, Typed, ControlOK
<1>2. Successor(w) \in SupervisionUnits
  <2>1. units[w].generation + 1 \in Nat /\ units[w].restart_count + 1 \in Nat
    BY DEF Typed, TypeOK, SupervisionUnits
  <2> QED
    BY <2>1, FreshType DEF Successor
<1>3. CASE KillLingering(w)
  <2>1. /\ units' \in [Workers -> SupervisionUnits]
        /\ execs' \in [Workers -> Executors]
    BY <1>3, KillFacts DEF KillLingering, Typed
  <2> QED
    BY <1>1, <1>3, <2>1 DEF KillLingering, Typed, TypeOK, ControlOK
<1>4. CASE Replace(w)
  <2>1. /\ units' \in [Workers -> SupervisionUnits]
        /\ execs' \in [Workers -> Executors]
    BY <1>2, <1>4, FreshType DEF Replace, Typed, TypeOK
  <2> QED
    BY <1>1, <1>4, <2>1 DEF Replace, Typed, TypeOK, ControlOK
<1>5. CASE ReplaceFails(w)
  <2> DEFINE others == {v \in Workers \ {w} : IsAlive(v)}
  <2>1. units' \in [Workers -> SupervisionUnits]
    <3>1. units' = [v \in Workers |->
                IF v = w THEN Successor(w)
                ELSE [units[v] EXCEPT !.kill_requested = @ \/ v \in others]]
      BY <1>5 DEF ReplaceFails
    <3> HIDE DEF others
    <3> QED
      BY <1>2, <3>1 DEF Typed, TypeOK, SupervisionUnits
  <2>2. execs' \in [Workers -> Executors]
    <3>1. execs' = [v \in Workers |->
                IF v = w THEN NewExecutor
                ELSE [execs[v] EXCEPT !.killed =
                        @ \/ (v \in others /\ ~units[v].kill_requested)]]
      BY <1>5 DEF ReplaceFails
    <3> HIDE DEF others
    <3> QED
      BY <3>1, FreshType DEF Typed, TypeOK, Executors
  <2> QED
    BY <1>1, <1>5, <2>1, <2>2 DEF ReplaceFails, Typed, TypeOK, ControlOK
<1> QED
  BY <1>3, <1>4, <1>5

\* The steps that only move the supervisor's own control.
LEMMA ControlTyped ==
  ASSUME Typed,
         \/ FinishTransition \/ LoopEnds \/ StopRequested \/ BeginTick
         \/ DrainDone \/ Judge \/ ShutdownComplete \/ ExitSignal
  PROVE  Typed'
<1>1. CASE StopRequested
  <2>1. /\ state = "running" /\ state' = state /\ target' = "terminating"
        /\ pc' = "hooks" /\ cmd' \in {"tick", "stop"}
    BY <1>1, EmitFacts DEF StopRequested
  <2> QED
    BY <1>1, <2>1, SupervisorMachine DEF StopRequested, Typed, TypeOK, ControlOK
<1>2. CASE BeginTick
  BY <1>2 DEF BeginTick, Typed, TypeOK, ControlOK
<1>3. CASE DrainDone
  BY <1>3 DEF DrainDone, Typed, TypeOK, ControlOK
<1>4. CASE Judge
  <2>1. /\ state = "running" /\ target = "running" /\ state' = state
        /\ \/ target' = target /\ pc' = "idle"
           \/ target' = "terminating" /\ pc' = "hooks"
        /\ cmd' \in {"tick", "stop"}
    BY <1>4, EmitFacts DEF Judge, Typed, ControlOK
  <2> QED
    BY <1>4, <2>1, SupervisorMachine DEF Judge, Typed, TypeOK, ControlOK
<1>5. CASE ShutdownComplete
  <2>1. /\ state \in {"reaping", "terminating"} /\ state' = state
        /\ target' \in {"crashed", "stopped"} /\ pc' = "hooks" /\ cmd' \in {"tick", "stop"}
    BY <1>5, EmitFacts DEF ShutdownComplete, Typed, ControlOK
  <2> QED
    BY <1>5, <2>1, SupervisorMachine DEF ShutdownComplete, Typed, TypeOK, ControlOK
<1>6. CASE ExitSignal
  BY <1>6 DEF ExitSignal, Typed, TypeOK, ControlOK, AllExecutorsDown, IsAlive
<1>7. CASE FinishTransition
  BY <1>7 DEF FinishTransition, Command, Typed, TypeOK, ControlOK
<1>8. CASE LoopEnds
  BY <1>8, SupervisorMachine DEF LoopEnds, Typed, TypeOK, ControlOK
<1> QED
  BY <1>1, <1>2, <1>3, <1>4, <1>5, <1>6, <1>7, <1>8

\* stop_executors and drain_units keep every field but the marks.
LEMMA ShutdownPassFacts ==
  ASSUME TypeOK, NEW late, ShutdownPass(late)
  PROVE  /\ units' \in [Workers -> SupervisionUnits]
         /\ execs' \in [Workers -> Executors]
         /\ \A w \in Workers :
              /\ execs'[w].pc = execs[w].pc
              /\ execs'[w].state = execs[w].state
              /\ execs'[w].act = execs[w].act
              /\ execs[w].killed => execs'[w].killed
              /\ units'[w].generation = units[w].generation
              /\ units'[w].restart_count = units[w].restart_count
              /\ units'[w].expectation = units[w].expectation
              /\ units'[w].kill_requested =>
                    units[w].kill_requested \/ execs'[w].killed
<1> DEFINE lingering == {w \in Workers : Status(w, w \in late) = "LINGERING"}
<1>1. /\ units' = [w \in Workers |->
                [units[w] EXCEPT !.kill_requested = @ \/ w \in lingering]]
      /\ execs' = [w \in Workers |->
                [execs[w] EXCEPT
                    !.term = TRUE,
                    !.killed = @ \/ (w \in lingering /\ ~units[w].kill_requested)]]
  BY DEF ShutdownPass
<1> HIDE DEF lingering
<1>2. units' \in [Workers -> SupervisionUnits]
  BY <1>1 DEF TypeOK, SupervisionUnits
<1>3. execs' \in [Workers -> Executors]
  BY <1>1 DEF TypeOK, Executors
<1>4. ASSUME NEW w \in Workers
      PROVE  /\ execs'[w].pc = execs[w].pc
             /\ execs'[w].state = execs[w].state
             /\ execs'[w].act = execs[w].act
             /\ execs'[w].killed =
                    (execs[w].killed \/ (w \in lingering /\ ~units[w].kill_requested))
             /\ units'[w].generation = units[w].generation
             /\ units'[w].restart_count = units[w].restart_count
             /\ units'[w].expectation = units[w].expectation
             /\ units'[w].kill_requested = (units[w].kill_requested \/ w \in lingering)
  BY <1>1, ZenonT(40) DEF TypeOK, SupervisionUnits, Executors
<1> QED
  BY <1>2, <1>3, <1>4

LEMMA ShutdownPassTyped ==
  ASSUME Typed, NEW late, ShutdownPass(late)
  PROVE  Typed'
<1>1. /\ state' = state /\ target' = target /\ state = target
      /\ pc' = "idle" /\ cmd' \in {"tick", "stop"} /\ target \in {"terminating", "reaping"}
  BY EmitFacts DEF ShutdownPass, Typed, ControlOK
<1> QED
  BY <1>1, ShutdownPassFacts DEF ShutdownPass, Typed, TypeOK, ControlOK

LEMMA DrainOneTyped ==
  ASSUME Typed, DrainOne
  PROVE  Typed'
<1>1. /\ units' \in [Workers -> SupervisionUnits] /\ queue' \in Seq(Messages)
  BY DrainOneFacts DEF Typed
<1>2. drained' \in Nat
  BY DEF DrainOne, Counted, Typed, TypeOK
<1> QED
  BY <1>1, <1>2 DEF DrainOne, Counted, Typed, TypeOK, ControlOK

LEMMA InterruptedTyped ==
  ASSUME Typed, Interrupted
  PROVE  Typed'
<1>1. /\ units' \in [Workers -> SupervisionUnits]
      /\ execs' \in [Workers -> Executors]
  BY KillFacts DEF Interrupted, Abort, Typed
<1> QED
  BY <1>1 DEF Interrupted, Abort, Typed, TypeOK, ControlOK

-----------------------------------------------------------------------------
(* What a step does to the executors. *)

SameLoop(w) ==
    /\ execs'[w].pc = execs[w].pc
    /\ execs'[w].state = execs[w].state
    /\ execs'[w].act = execs[w].act

\* The supervisor never touches the main loop of an executor: it starts one, with
\* a fresh incarnation, or leaves it where it is.
LEMMA SupervisorLeavesLoops ==
  ASSUME Typed, Tick \/ Failure \/ ExitSignal, NEW w \in Workers
  PROVE  \/ SameLoop(w)
         \/ /\ execs'[w].pc \in {"put", "unstarted"}
            /\ execs'[w].act = Beat
            /\ execs'[w].state = InitialState(FSM)
<1>1. ASSUME Boot \/ BootFails
      PROVE  \/ SameLoop(w)
             \/ /\ execs'[w].pc \in {"put", "unstarted"}
                /\ execs'[w].act = Beat
                /\ execs'[w].state = InitialState(FSM)
  <2>1. CASE Boot
    BY <2>1 DEF Boot, Started, NewExecutor
  <2>2. CASE BootFails
    <3>1. execs'[w] \in {[Started EXCEPT !.killed = TRUE], execs[w]}
      BY <2>2 DEF BootFails
    <3> QED
      BY <3>1 DEF Started, NewExecutor, SameLoop
  <2> QED
    BY <1>1, <2>1, <2>2
<1>2. CASE \/ FinishTransition \/ LoopEnds \/ StopRequested \/ BeginTick \/ DrainOne
           \/ DrainDone \/ Judge \/ ShutdownComplete \/ ExitSignal
           \/ \E v \in Workers : Supervise(v)
  BY <1>2 DEF FinishTransition, LoopEnds, StopRequested, BeginTick, DrainOne, DrainDone, Judge, ShutdownComplete,
              ExitSignal, Supervise, SameLoop
<1>3. ASSUME NEW v \in Workers, KillLingering(v)
      PROVE  SameLoop(w)
  BY <1>3, KillFacts DEF KillLingering, SameLoop, Typed
<1>4. ASSUME NEW v \in Workers, Replace(v) \/ ReplaceFails(v)
      PROVE  SameLoop(w) \/ execs'[w] \in {Started, NewExecutor}
  <2>1. CASE w = v
    BY <1>4, <2>1 DEF Replace, ReplaceFails, Typed, TypeOK
  <2>2. CASE w # v
    BY <1>4, <2>2 DEF Replace, ReplaceFails, SameLoop, Typed, TypeOK, Executors
  <2> QED
    BY <2>1, <2>2
<1>5. ASSUME NEW late, ShutdownPass(late)
      PROVE  SameLoop(w)
  BY <1>5, ShutdownPassFacts DEF SameLoop, Typed
<1>6. CASE Interrupted
  BY <1>6, KillFacts DEF Interrupted, Abort, SameLoop, Typed
<1>7. ASSUME execs'[w] \in {Started, NewExecutor}
      PROVE  /\ execs'[w].pc \in {"put", "unstarted"}
             /\ execs'[w].act = Beat
             /\ execs'[w].state = InitialState(FSM)
  BY <1>7 DEF Started, NewExecutor
<1> DEFINE Fresh == /\ execs'[w].pc \in {"put", "unstarted"}
                    /\ execs'[w].act = Beat
                    /\ execs'[w].state = InitialState(FSM)
<1>8. SameLoop(w) \/ Fresh
  <2>1. CASE Tick
    BY <2>1, <1>1, <1>2, <1>3, <1>4, <1>5, <1>7 DEF Tick
  <2>2. CASE Failure
    BY <2>2, <1>1, <1>4, <1>6, <1>7 DEF Failure
  <2>3. CASE ExitSignal
    BY <2>3, <1>2
  <2> QED
    BY <2>1, <2>2, <2>3
<1> QED
  BY <1>8

\* A worker's step is its own: it moves its executor, which stays well typed and
\* is not started by it, and at most appends what it was putting.
LEMMA WorkFacts ==
  ASSUME TypeOK, LoopOK, NEW w \in Workers, Work(w)
  PROVE  /\ UnchangedBySupervisor
         /\ IsAlive(w)
         /\ execs' = [execs EXCEPT ![w] = execs'[w]]
         /\ execs'[w] \in Executors /\ execs'[w].pc # "unstarted"
         /\ \/ queue' = queue
            \/ /\ Stamped(w, execs[w].act) \in Messages
               /\ queue' = Append(queue, Stamped(w, execs[w].act))
<1>0. execs[w] \in Executors /\ Beat \in Activities
  BY DEF TypeOK, Beat, Activities
<1>1. CASE Put(w)
  <2>1. Stamped(w, execs[w].act) \in Messages
    BY <1>0 DEF Stamped, Messages, Activities, Executors, TypeOK, SupervisionUnits
  <2>2. execs'[w] \in Executors /\ execs' = [execs EXCEPT ![w] = execs'[w]]
        /\ execs'[w].pc # "unstarted"
    BY <1>0, <1>1 DEF Put, Executors, TypeOK
  <2> QED
    BY <1>1, <2>1, <2>2 DEF Put, IsAlive
<1>2. CASE Keepalive(w)
  BY <1>0, <1>2 DEF Keepalive, Acts, Executors, TypeOK, IsAlive
<1>3. ASSUME NEW event \in Events(FSM, execs[w].state), BeginTransition(w, event)
      PROVE  /\ UnchangedBySupervisor /\ IsAlive(w) /\ queue' = queue
             /\ execs' = [execs EXCEPT ![w] = execs'[w]]
             /\ execs'[w] \in Executors /\ execs'[w].pc # "unstarted"
  <2> DEFINE act == Transition("transition_begin", execs[w].state,
                               TargetState(FSM, execs[w].state, event))
  <2>1. act \in Activities
    BY <1>0, <1>3, WorkerMachine DEF Transition, Activities, Executors
  <2>2. execs' = [execs EXCEPT ![w] = [@ EXCEPT !.pc = "put", !.act = act]]
    BY <1>3 DEF BeginTransition
  <2> HIDE DEF act
  <2>3. execs'[w] = [execs[w] EXCEPT !.pc = "put", !.act = act]
        /\ execs' = [execs EXCEPT ![w] = execs'[w]]
    BY <2>2 DEF TypeOK
  <2>4. execs'[w] \in Executors /\ execs'[w].pc # "unstarted"
    BY <1>0, <2>1, <2>3 DEF Executors
  <2> QED
    BY <1>3, <2>3, <2>4 DEF BeginTransition, Acts, IsAlive
<1>4. CASE EndTransition(w)
  <2> DEFINE src == execs[w].act.transition[1]
             tgt == execs[w].act.transition[2]
             act == Transition("transition_end", src, tgt)
  <2>1. src \in States(FSM) /\ tgt \in States(FSM)
    <3>1. execs[w].act \in Activities /\ execs[w].act.kind = "transition_begin"
      BY <1>0, <1>4 DEF EndTransition, LoopOK, ReportsTruly, Executors
    <3> QED
      BY <3>1 DEF Activities
  <2>2. act \in Activities
    BY <2>1 DEF Transition, Activities
  <2>3. execs' = [execs EXCEPT ![w] = [@ EXCEPT !.pc = "put", !.state = tgt, !.act = act]]
    BY <1>4 DEF EndTransition
  <2> HIDE DEF src, tgt, act
  <2>4. execs'[w] = [execs[w] EXCEPT !.pc = "put", !.state = tgt, !.act = act]
        /\ execs' = [execs EXCEPT ![w] = execs'[w]]
    BY <2>3 DEF TypeOK
  <2>5. execs'[w] \in Executors /\ execs'[w].pc # "unstarted"
    BY <1>0, <2>1, <2>2, <2>4 DEF Executors
  <2> QED
    BY <1>4, <2>4, <2>5 DEF EndTransition, IsAlive
<1>5. CASE Raise(w)
  BY <1>0, <1>5 DEF Raise, Ended, Executors, TypeOK, IsAlive
<1>6. CASE Exit(w)
  BY <1>0, <1>6 DEF Exit, Ended, Executors, TypeOK, IsAlive
<1>7. CASE Die(w)
  BY <1>0, <1>7 DEF Die, Ended, Executors, TypeOK, IsAlive
<1> QED
  BY <1>1, <1>2, <1>3, <1>4, <1>5, <1>6, <1>7 DEF Work

\* A worker's step keeps types and phases: no step of a worker starts an executor.
LEMMA WorkTyped ==
  ASSUME Typed, LoopOK, NEW w \in Workers, Work(w)
  PROVE  Typed'
<1>1. execs' \in [Workers -> Executors] /\ queue' \in Seq(Messages)
  BY WorkFacts, SMTT(30) DEF Typed, TypeOK
<1>2. UnchangedBySupervisor /\ IsAlive(w)
  BY WorkFacts DEF Typed
<1>3. ~(target = "starting" /\ pc # "aborted")
  BY <1>2 DEF Typed, ControlOK, AllExecutorsDown
<1> QED
  BY <1>1, <1>2, <1>3 DEF UnchangedBySupervisor, Typed, TypeOK, ControlOK

\* The loops the supervisor leaves alone or starts afresh keep LoopOK.
LEMMA SupervisorLoopOK ==
  ASSUME Typed, LoopOK, Tick \/ Failure \/ ExitSignal
  PROVE  LoopOK'
<1> SUFFICES ASSUME NEW w \in Workers PROVE ReportsTruly(execs'[w])
  BY DEF LoopOK
<1>1. CASE SameLoop(w)
  BY <1>1 DEF SameLoop, LoopOK, ReportsTruly
<1>2. CASE execs'[w].pc \in {"put", "unstarted"} /\ execs'[w].act = Beat
  BY <1>2 DEF Beat, ReportsTruly
<1> QED
  BY <1>1, <1>2, SupervisorLeavesLoops

\* main_loop reports what it does.
LEMMA WorkReportsTruly ==
  ASSUME TypeOK, LoopOK, NEW w \in Workers, Work(w)
  PROVE  ReportsTruly(execs'[w])
<1>0. execs[w] \in Executors /\ ReportsTruly(execs[w])
  BY DEF TypeOK, LoopOK
<1>1. CASE Put(w)
  <2>1. CASE execs[w].act.kind = "transition_begin"
    <3>1. execs'[w] = [execs[w] EXCEPT !.pc = "hooks"]
      BY <1>1, <2>1 DEF Put, TypeOK
    <3> QED
      BY <1>0, <2>1, <3>1 DEF ReportsTruly, Executors
  <2>2. CASE execs[w].act.kind # "transition_begin"
    <3>1. execs'[w] = [execs[w] EXCEPT !.pc = "loop", !.act = Beat]
      BY <1>1, <2>2 DEF Put, TypeOK
    <3> QED
      BY <1>0, <3>1 DEF Beat, ReportsTruly, Executors
  <2> QED
    BY <2>1, <2>2
<1>2. CASE Keepalive(w)
  <2>1. execs'[w] = [execs[w] EXCEPT !.pc = "put"] /\ execs[w].pc = "loop"
    BY <1>2 DEF Keepalive, Acts, TypeOK
  <2> QED
    BY <1>0, <2>1 DEF ReportsTruly, Executors, Beat
<1>3. ASSUME NEW event \in Events(FSM, execs[w].state), BeginTransition(w, event)
      PROVE  ReportsTruly(execs'[w])
  <2> DEFINE tgt == TargetState(FSM, execs[w].state, event)
             act == Transition("transition_begin", execs[w].state, tgt)
  <2>1. execs'[w] = [execs[w] EXCEPT !.pc = "put", !.act = act]
    BY <1>3 DEF BeginTransition, TypeOK
  <2>2. act.kind = "transition_begin" /\ act.transition[1] = execs[w].state
    BY DEF Transition
  <2>3. execs[w].state \notin TerminalStates(FSM)
    BY <1>3 DEF BeginTransition, Acts
  <2> HIDE DEF act
  <2>4. /\ execs'[w].pc = "put" /\ execs'[w].act = act
        /\ execs'[w].state = execs[w].state
    BY <1>0, <2>1 DEF Executors
  <2> QED
    BY <2>2, <2>3, <2>4 DEF ReportsTruly
<1>4. CASE EndTransition(w)
  <2> DEFINE tgt == execs[w].act.transition[2]
             act == Transition("transition_end", execs[w].act.transition[1], tgt)
  <2>1. execs'[w] = [execs[w] EXCEPT !.pc = "put", !.state = tgt, !.act = act]
    BY <1>4 DEF EndTransition, TypeOK
  <2>2. act.kind = "transition_end" /\ act.transition[2] = tgt
    BY DEF Transition
  <2> HIDE DEF act, tgt
  <2> QED
    BY <1>0, <2>1, <2>2 DEF ReportsTruly, Executors
<1>5. CASE Raise(w) \/ Exit(w) \/ Die(w)
  <2>1. execs'[w] \in {Ended(execs[w], "broken"), Ended(execs[w], "finished")}
    BY <1>5 DEF Raise, Exit, Die, TypeOK
  <2>2. execs'[w].pc \in {"broken", "finished"} /\ execs'[w].act = Beat
    BY <1>0, <2>1 DEF Ended, Executors
  <2> QED
    BY <2>2 DEF Beat, ReportsTruly
<1> QED
  BY <1>1, <1>2, <1>3, <1>4, <1>5 DEF Work

LEMMA WorkLoopOK ==
  ASSUME TypeOK, LoopOK, NEW w \in Workers, Work(w)
  PROVE  LoopOK'
<1>1. execs' = [execs EXCEPT ![w] = execs'[w]]
  BY WorkFacts
<1>2. \A v \in Workers : v # w => execs'[v] = execs[v]
  BY <1>1 DEF TypeOK
<1> QED
  BY <1>2, WorkReportsTruly DEF LoopOK

-----------------------------------------------------------------------------
(* The end of the supervisor. *)

AtEnd == {state, target} \cap {"stopped", "crashed"} # {}

\* The only way towards a terminal state is a shutdown tick that found every executor
\* down; what follows it only takes the announced transition to its end.
LEMMA OnlyShutdownEnds ==
  ASSUME Typed, Tick \/ Failure \/ ExitSignal, AtEnd'
  PROVE  \/ ShutdownComplete
         \/ AtEnd /\ (FinishTransition \/ LoopEnds \/ Interrupted \/ ExitSignal)
<1>1. FinishTransition \/ LoopEnds \/ Interrupted \/ ExitSignal => AtEnd
  BY DEF FinishTransition, LoopEnds, Interrupted, Abort, ExitSignal, AtEnd
<1>2. ~Boot
  BY EmitFacts DEF Boot, AtEnd
<1>3. ~StopRequested
  BY EmitFacts DEF StopRequested, AtEnd
<1>4. ~BeginTick /\ ~DrainOne /\ ~DrainDone /\ ~BootFails
  BY DEF BeginTick, DrainOne, DrainDone, BootFails, Typed, ControlOK, AtEnd
<1>5. \A w \in Workers : ~Supervise(w)
  BY EmitFacts DEF Supervise, Typed, ControlOK, AtEnd
<1>6. \A w \in Workers : ~KillLingering(w) /\ ~Replace(w) /\ ~ReplaceFails(w)
  BY DEF KillLingering, Replace, ReplaceFails, Typed, ControlOK, AtEnd
<1>7. ~Judge
  BY EmitFacts DEF Judge, Typed, ControlOK, AtEnd
<1>8. \A late : ~ShutdownPass(late)
  BY EmitFacts DEF ShutdownPass, Typed, ControlOK, AtEnd
<1> QED
  BY <1>1, <1>2, <1>3, <1>4, <1>5, <1>6, <1>7, <1>8 DEF Tick, Failure

LEMMA SupervisorLeavesNoOrphans ==
  ASSUME Typed, NoOrphans, Tick \/ Failure \/ ExitSignal
  PROVE  NoOrphans'
<1> SUFFICES ASSUME AtEnd' PROVE \A w \in Workers : ~IsAlive(w)'
  BY DEF NoOrphans, AtEnd
<1>1. CASE ShutdownComplete
  BY <1>1 DEF ShutdownComplete, AllExecutorsDown, IsAlive
<1>2. CASE AtEnd /\ (FinishTransition \/ LoopEnds \/ Interrupted \/ ExitSignal)
  <2>1. \A w \in Workers : execs'[w].pc = execs[w].pc
    BY <1>2, KillFacts DEF FinishTransition, LoopEnds, Interrupted, Abort, ExitSignal, Typed
  <2> QED
    BY <1>2, <2>1 DEF NoOrphans, AtEnd, IsAlive
<1> QED
  BY <1>1, <1>2, OnlyShutdownEnds

LEMMA WorkLeavesNoOrphans ==
  ASSUME TypeOK, LoopOK, NoOrphans, NEW w \in Workers, Work(w)
  PROVE  NoOrphans'
<1>1. IsAlive(w) /\ state' = state /\ target' = target
  BY WorkFacts DEF UnchangedBySupervisor
<1> QED
  BY <1>1 DEF NoOrphans

-----------------------------------------------------------------------------
(* The inductive invariant. *)

SafeEnd == Typed /\ LoopOK /\ NoOrphans

LEMMA InitSafeEnd == Init => SafeEnd
<1> SUFFICES ASSUME Init PROVE SafeEnd
  OBVIOUS
<1>1. TypeOK
  <2>1. units \in [Workers -> SupervisionUnits] /\ execs \in [Workers -> Executors]
    BY FreshType DEF Init
  <2>2. queue \in Seq(Messages)
    BY DEF Init
  <2>3. state \in States(SupervisorFSM) /\ target \in States(SupervisorFSM)
    BY SupervisorMachine DEF Init
  <2> QED
    BY <2>1, <2>2, <2>3 DEF Init, TypeOK
<1>2. ControlOK /\ NoOrphans
  BY SupervisorMachine DEF Init, ControlOK, NoOrphans, AllExecutorsDown, IsAlive, NewExecutor
<1>3. LoopOK
  BY DEF Init, LoopOK, ReportsTruly, NewExecutor, Beat
<1> QED
  BY <1>1, <1>2, <1>3 DEF SafeEnd, Typed

LEMMA NextSafeEnd == SafeEnd /\ [Next]_vars => SafeEnd'
<1> SUFFICES ASSUME SafeEnd, [Next]_vars PROVE SafeEnd'
  OBVIOUS
<1>1. CASE Tick \/ Failure \/ ExitSignal
  <2>1. Typed'
    BY <1>1, BootTyped, SuperviseTyped, RestartTyped, ControlTyped, ShutdownPassTyped,
       DrainOneTyped, InterruptedTyped DEF Tick, Failure, SafeEnd
  <2> QED
    BY <1>1, <2>1, SupervisorLoopOK, SupervisorLeavesNoOrphans DEF SafeEnd
<1>2. ASSUME NEW w \in Workers, Work(w) PROVE SafeEnd'
  BY <1>2, WorkTyped, WorkLoopOK, WorkLeavesNoOrphans DEF SafeEnd, Typed
<1>3. CASE UNCHANGED vars
  BY <1>3 DEF vars, SafeEnd, Typed, TypeOK, ControlOK, LoopOK, NoOrphans, AllExecutorsDown, IsAlive
<1> QED
  BY <1>1, <1>2, <1>3 DEF Next, Terminated

\* The conjunction of types, phases, truthful reports and the safe end is invariant.
THEOREM Safety == Spec => []SafeEnd
  BY InitSafeEnd, NextSafeEnd, PTL DEF Spec

\* Every reachable state is well typed.
THEOREM TypeCorrect == Spec => []TypeOK
<1>1. SafeEnd => TypeOK
  BY DEF SafeEnd, Typed
<1> QED
  BY <1>1, Safety, PTL

\* Units are supervised, and replaced, only while the supervisor is "running".
THEOREM PhasesHold == Spec => []ControlOK
<1>1. SafeEnd => ControlOK
  BY DEF SafeEnd, Typed
<1> QED
  BY <1>1, Safety, PTL

\* A supervisor that announces or has reached a terminal state left no executor running.
THEOREM NoOrphansLeft == Spec => []NoOrphans
<1>1. SafeEnd => NoOrphans
  BY DEF SafeEnd
<1> QED
  BY <1>1, Safety, PTL

\* Wherever a worker is interrupted, what it was about to report is true of it.
THEOREM ReportsHold == Spec => []LoopOK
<1>1. SafeEnd => LoopOK
  BY DEF SafeEnd
<1> QED
  BY <1>1, Safety, PTL
=============================================================================
