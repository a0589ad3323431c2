---------------------- MODULE SupervisorContractProofs ----------------------
(***************************************************************************)
(* Supervisor: a kill is pending for every incarnation that was marked or  *)
(* abandoned, the supervisor escalates only over a quota that is used up,  *)
(* and from these: Supervisor implements SupervisionContract, every step   *)
(* of the supervisor or of an executor is one of the contract's or changes *)
(* nothing it sees - for every set of workers, machine, queue size and     *)
(* quota.                                                                  *)
(***************************************************************************)
EXTENDS SupervisorFenceProofs

-----------------------------------------------------------------------------
(* Kills. *)

KillOK(w) == IsAlive(w) /\ (units[w].kill_requested \/ pc = "aborted") => execs[w].killed

LEMMA KillMeaning == KillsArePending <=> \A w \in Workers : KillOK(w)
  BY DEF KillsArePending, KillOK

\* A request reaches the executor or has reached it before; it may come with the
\* end of the supervisor if every live executor is asked.
LEMMA KillKeepsPending ==
  ASSUME TypeOK, KillsArePending, NEW victims, Kill(victims),
         pc' # "aborted" \/ pc = "aborted" \/ \A w \in Workers : IsAlive(w) => w \in victims
  PROVE  KillsArePending'
<1>1. ASSUME NEW w \in Workers PROVE KillOK(w)'
  <2>1. /\ IsAlive(w)' <=> IsAlive(w)
        /\ execs'[w].killed <=>
              execs[w].killed \/ (w \in victims /\ IsAlive(w) /\ ~units[w].kill_requested)
        /\ units'[w].kill_requested <=> units[w].kill_requested \/ w \in victims
    BY KillFacts DEF IsAlive
  <2>2. KillOK(w)
    BY KillMeaning
  <2> QED
    BY <2>1, <2>2 DEF KillOK
<1> QED
  BY <1>1 DEF KillsArePending, KillOK

\* _boot starts executors of units nobody has asked to kill.
LEMMA BootKeepsPending ==
  ASSUME Typed, Fenced, Boot \/ BootFails
  PROVE  KillsArePending'
<1>2. CASE Boot
  <2>1. units = [w \in Workers |-> NewUnit(0, 0)] /\ units' = units /\ pc' # "aborted"
    BY <1>2, EmitFacts DEF Boot, Fenced, Pristine, Typed, ControlOK
  <2> QED
    BY <2>1 DEF KillsArePending, NewUnit
<1>3. CASE BootFails
  <2>1. PICK started \in SUBSET Workers :
              execs' = [w \in Workers |->
                            IF w \in started THEN [Started EXCEPT !.killed = TRUE]
                            ELSE execs[w]]
    BY <1>3 DEF BootFails
  <2>2. \A w \in Workers : ~IsAlive(w)
    BY <1>3 DEF BootFails, Typed, ControlOK, AllExecutorsDown
  <2>3. ASSUME NEW w \in Workers, IsAlive(w)' PROVE execs'[w].killed
    <3>1. w \in started
      BY <2>1, <2>2, <2>3 DEF IsAlive
    <3> QED
      BY <2>1, <3>1 DEF Started, NewExecutor
  <2> QED
    BY <2>3 DEF KillsArePending
<1> QED
  BY <1>2, <1>3

\* The successor starts with a clean mark, and the failure to start it asks all
\* the others to die.
LEMMA RestartKeepsPending ==
  ASSUME Typed, KillsArePending, NEW w \in Workers, KillLingering(w) \/ Replace(w) \/ ReplaceFails(w)
  PROVE  KillsArePending'
<1>0. pc = "supervise"
  BY DEF KillLingering, Replace, ReplaceFails, Typed, ControlOK
<1>1. CASE KillLingering(w)
  BY <1>0, <1>1, KillKeepsPending DEF KillLingering, Typed
<1>2. CASE Replace(w)
  <2>1. units'[w].kill_requested = FALSE /\ pc' = pc
    BY <1>2 DEF Replace, Successor, NewUnit, Typed, TypeOK
  <2>2. \A v \in Workers : v # w => units'[v] = units[v] /\ execs'[v] = execs[v]
    BY <1>2 DEF Replace, Typed, TypeOK
  <2> QED
    BY <1>0, <2>1, <2>2 DEF KillsArePending, IsAlive
<1>3. CASE ReplaceFails(w)
  <2> DEFINE others == {v \in Workers \ {w} : IsAlive(v)}
  <2>1. execs' = [v \in Workers |->
                IF v = w THEN NewExecutor
                ELSE [execs[v] EXCEPT !.killed =
                        @ \/ (v \in others /\ ~units[v].kill_requested)]]
    BY <1>3 DEF ReplaceFails
  <2>2. ~IsAlive(w)'
    BY <2>1 DEF IsAlive, NewExecutor
  <2>3. ASSUME NEW v \in Workers, v # w, IsAlive(v)'
        PROVE  execs'[v].killed
    <3>1. execs'[v] = [execs[v] EXCEPT !.killed =
                        execs[v].killed \/ (v \in others /\ ~units[v].kill_requested)]
      BY <2>1, <2>3
    <3>2. /\ execs'[v].pc = execs[v].pc
          /\ execs'[v].killed = (execs[v].killed \/ (v \in others /\ ~units[v].kill_requested))
      BY <3>1 DEF Typed, TypeOK, Executors
    <3>3. v \in others
      BY <2>3, <3>2 DEF IsAlive
    <3>4. units[v].kill_requested => execs[v].killed
      BY <3>3 DEF KillsArePending
    <3> QED
      BY <3>2, <3>3, <3>4
  <2> QED
    BY <2>2, <2>3 DEF KillsArePending
<1> QED
  BY <1>1, <1>2, <1>3

\* The rest of the supervisor's steps.
LEMMA SupervisorKeepsPending ==
  ASSUME Typed, Fenced, KillsArePending, Tick \/ Failure \/ ExitSignal
  PROVE  KillsArePending'
<1>1. CASE \/ FinishTransition \/ LoopEnds \/ StopRequested \/ BeginTick \/ DrainDone
           \/ Judge \/ ShutdownComplete \/ ExitSignal \/ \E w \in Workers : Supervise(w)
  <2>1. UNCHANGED <<units, execs>>
    BY <1>1
    DEF FinishTransition, LoopEnds, StopRequested, BeginTick, DrainDone, Judge,
        ShutdownComplete, ExitSignal, Supervise
  <2>2. pc' = "aborted" => pc = "aborted"
    BY <1>1, EmitFacts
    DEF FinishTransition, LoopEnds, StopRequested, BeginTick, DrainDone, Judge,
        ShutdownComplete, ExitSignal, Supervise
  <2> QED
    BY <2>1, <2>2 DEF KillsArePending, IsAlive
<1>2. CASE DrainOne
  BY <1>2, DrainOneFacts DEF DrainOne, KillsArePending, IsAlive, Typed
<1>3. ASSUME NEW late, ShutdownPass(late) PROVE KillsArePending'
  <2>1. pc' # "aborted" /\ pc # "aborted"
    BY <1>3, EmitFacts DEF ShutdownPass
  <2>2. ASSUME NEW w \in Workers, IsAlive(w)', units'[w].kill_requested
        PROVE  execs'[w].killed
    <3>1. IsAlive(w) /\ (units[w].kill_requested => execs[w].killed)
      BY <1>3, <2>2, ShutdownPassFacts DEF KillsArePending, IsAlive, Typed
    <3> QED
      BY <1>3, <2>2, <3>1, ShutdownPassFacts DEF Typed
  <2> QED
    BY <2>1, <2>2 DEF KillsArePending
<1>4. CASE Interrupted
  BY <1>4, KillKeepsPending DEF Interrupted, Abort, Typed
<1> QED
  BY <1>1, <1>2, <1>3, <1>4, BootKeepsPending, RestartKeepsPending DEF Tick, Failure

\* A worker never forgets a kill: it goes on with it or ends.
LEMMA WorkKeepsKill ==
  ASSUME Typed, LoopOK, NEW w \in Workers, Work(w)
  PROVE  IsAlive(w)' => execs'[w].killed = execs[w].killed
<1>0. execs[w] \in Executors /\ execs' = [execs EXCEPT ![w] = execs'[w]]
  BY WorkFacts DEF Typed, TypeOK
<1>1. CASE Put(w)
  <2>1. \/ execs'[w] = [execs[w] EXCEPT !.pc = "hooks"]
        \/ execs'[w] = [execs[w] EXCEPT !.pc = "loop", !.act = Beat]
    BY <1>1 DEF Put, Typed, TypeOK
  <2> QED
    BY <1>0, <2>1 DEF Executors
<1>2. CASE Keepalive(w)
  <2>1. execs'[w] = [execs[w] EXCEPT !.pc = "put"]
    BY <1>2 DEF Keepalive, Typed, TypeOK
  <2> QED
    BY <1>0, <2>1 DEF Executors
<1>3. CASE Raise(w) \/ Exit(w) \/ Die(w)
  <2>1. execs'[w] \in {Ended(execs[w], "broken"), Ended(execs[w], "finished")}
    BY <1>3 DEF Raise, Exit, Die, Typed, TypeOK
  <2>2. ~IsAlive(w)'
    BY <1>0, <2>1 DEF Ended, Executors, IsAlive
  <2> QED
    BY <2>2
<1>4. ASSUME NEW event \in Events(FSM, execs[w].state), BeginTransition(w, event)
      PROVE  execs'[w].killed = execs[w].killed
  <2> DEFINE act == Transition("transition_begin", execs[w].state,
                               TargetState(FSM, execs[w].state, event))
  <2>1. execs'[w] = [execs[w] EXCEPT !.pc = "put", !.act = act]
    BY <1>4 DEF BeginTransition, Typed, TypeOK
  <2> HIDE DEF act
  <2> QED
    BY <1>0, <2>1 DEF Executors
<1>5. CASE EndTransition(w)
  <2> DEFINE tgt == execs[w].act.transition[2]
             act == Transition("transition_end", execs[w].act.transition[1], tgt)
  <2>1. execs'[w] = [execs[w] EXCEPT !.pc = "put", !.state = tgt, !.act = act]
    BY <1>5 DEF EndTransition, Typed, TypeOK
  <2> HIDE DEF tgt, act
  <2> QED
    BY <1>0, <2>1 DEF Executors
<1> QED
  BY <1>1, <1>2, <1>3, <1>4, <1>5 DEF Work

LEMMA WorkKeepsPending ==
  ASSUME Typed, LoopOK, KillsArePending, NEW w \in Workers, Work(w)
  PROVE  KillsArePending'
<1>1. /\ UNCHANGED <<units, pc>> /\ IsAlive(w)
      /\ \A v \in Workers : v # w => execs'[v] = execs[v]
  BY WorkFacts DEF UnchangedBySupervisor, Typed, TypeOK
<1> QED
  BY <1>1, WorkKeepsKill DEF KillsArePending, IsAlive

LEMMA InitPending == Init => KillsArePending
  BY DEF Init, KillsArePending, IsAlive, NewExecutor

LEMMA NextPending ==
  SafeEnd /\ Fenced /\ KillsArePending /\ [Next]_vars => KillsArePending'
<1> SUFFICES ASSUME SafeEnd, Fenced, KillsArePending, [Next]_vars PROVE KillsArePending'
  OBVIOUS
<1>1. CASE Tick \/ Failure \/ ExitSignal
  BY <1>1, SupervisorKeepsPending DEF SafeEnd
<1>2. ASSUME NEW w \in Workers, Work(w) PROVE KillsArePending'
  BY <1>2, WorkKeepsPending DEF SafeEnd
<1>3. CASE UNCHANGED vars
  BY <1>3 DEF vars, KillsArePending, IsAlive
<1> QED
  BY <1>1, <1>2, <1>3 DEF Next, Terminated

\* Although a unit passes on only its first kill request, no incarnation that was
\* marked, and none that an abort left behind, runs without its kill pending.
THEOREM KillsReachTheLiving == Spec => []KillsArePending
<1>1. Init => Fenced
  BY InitFenced
<1>2. SafeEnd /\ Fenced /\ [Next]_vars => Fenced'
  BY NextFenced
<1> QED
  BY <1>1, <1>2, InitPending, NextPending, Safety, PTL DEF Spec
-----------------------------------------------------------------------------
(* Escalation. *)

\* A unit whose status asked for a restart has an attempt left until it gets it.
Escalates ==
    /\ EscalationIsJustified
    /\ \A w \in restarting : Retryable(w)

\* Steps that keep the counters keep the quota; the report of an exhausted one and
\* the announcement must be made together.
LEMMA EscalationFrame ==
  ASSUME Escalates, restarting' \subseteq restarting, restarting \subseteq Workers,
         \A w \in Workers : /\ units'[w].restart_count = units[w].restart_count
                            /\ units'[w].generation = units[w].generation,
         exception' = exception \/ (exception' = "other" /\ target \notin {"reaping", "crashed"}),
         target' \in {"reaping", "crashed"} <=> target \in {"reaping", "crashed"}
  PROVE  Escalates'
<1>1. exception' = "retry_exhausted" <=> exception = "retry_exhausted"
  BY DEF Escalates, EscalationIsJustified
<1>2. \A w \in restarting' : Retryable(w)'
  BY DEF Escalates, Retryable
<1> QED
  BY <1>1, <1>2 DEF Escalates, EscalationIsJustified, Retryable

\* The two ends of a look at a unit.
LEMMA SuperviseEscalates ==
  ASSUME Typed, Escalates, NEW w \in Workers, Supervise(w)
  PROVE  Escalates'
<1>1. /\ UNCHANGED units /\ restarting = {} /\ pc = "supervise"
      /\ state = "running" /\ target = "running" /\ exception # "retry_exhausted"
      /\ units[w].restart_count \in Nat /\ units[w].restart_count <= RestartQuota
  BY DEF Supervise, Typed, TypeOK, ControlOK, SupervisionUnits, Escalates, EscalationIsJustified
<1>2. CASE /\ UNCHANGED <<target, exception>>
           /\ restarting' = restarting \/ (restarting' = {w} /\ Retryable(w))
  BY <1>1, <1>2 DEF Escalates, EscalationIsJustified, Retryable
<1>3. CASE ~Retryable(w) /\ exception' = "retry_exhausted" /\ Emit("error") /\ restarting' = restarting
  <2>1. units[w].restart_count = RestartQuota
    BY <1>1, <1>3, QuotaAssumption DEF Retryable
  <2>2. target' = "reaping"
    BY <1>1, <1>3, EmitFacts
  <2> QED
    BY <1>1, <1>3, <2>1, <2>2 DEF Escalates, EscalationIsJustified, Retryable
<1> QED
  BY <1>2, <1>3 DEF Supervise

\* A replacement takes one of the attempts the unit has left.
LEMMA ReplaceEscalates ==
  ASSUME Typed, Escalates, NEW w \in Workers, Replace(w) \/ ReplaceFails(w)
  PROVE  Escalates'
<1>1. /\ restarting' = {} /\ target' = target /\ target = "running"
      /\ exception # "retry_exhausted" /\ exception' # "retry_exhausted"
  BY DEF Replace, ReplaceFails, Typed, ControlOK, Escalates, EscalationIsJustified
<1>2. /\ units'[w].restart_count = units[w].restart_count + 1
      /\ units'[w].generation = units[w].generation + 1
  <2>1. units'[w] = Successor(w)
    BY DEF Replace, ReplaceFails, Typed, TypeOK
  <2> QED
    BY <2>1 DEF Successor, NewUnit
<1>3. /\ units[w].restart_count \in Nat /\ units[w].restart_count < RestartQuota
      /\ units[w].generation = units[w].restart_count
  BY DEF Replace, ReplaceFails, Escalates, EscalationIsJustified, Retryable,
         Typed, TypeOK, SupervisionUnits
<1>4. ASSUME NEW v \in Workers, v # w
      PROVE  /\ units'[v].restart_count = units[v].restart_count
             /\ units'[v].generation = units[v].generation
  BY <1>4 DEF Replace, ReplaceFails, Typed, TypeOK, SupervisionUnits
<1>5. ASSUME NEW v \in Workers
      PROVE  /\ units'[v].restart_count <= RestartQuota
             /\ units'[v].generation = units'[v].restart_count
  <2>1. CASE v = w
    BY <1>2, <1>3, <2>1, QuotaAssumption
  <2>2. CASE v # w
    BY <1>4, <2>2 DEF Escalates, EscalationIsJustified
  <2> QED
    BY <2>1, <2>2
<1> QED
  BY <1>1, <1>5 DEF Escalates, EscalationIsJustified

\* The rest keeps counters and reports.
LEMMA OtherEscalates ==
  ASSUME Typed, Escalates,
         \/ FinishTransition \/ LoopEnds \/ Boot \/ BootFails \/ StopRequested \/ BeginTick
         \/ DrainOne \/ DrainDone \/ Judge \/ ShutdownComplete \/ ExitSignal \/ Interrupted
         \/ \E w \in Workers : KillLingering(w)
         \/ \E late \in SUBSET Watched : ShutdownPass(late)
  PROVE  Escalates'
<1>1. CASE \/ FinishTransition \/ LoopEnds \/ Boot \/ StopRequested \/ BeginTick
           \/ DrainDone \/ Judge \/ ShutdownComplete \/ ExitSignal
  <2>1. UNCHANGED <<units, exception, restarting>>
    BY <1>1 DEF FinishTransition, LoopEnds, Boot, StopRequested, BeginTick, DrainDone,
                Judge, ShutdownComplete, ExitSignal
  <2>2. target' \in {"reaping", "crashed"} <=> target \in {"reaping", "crashed"}
    <3>1. CASE Boot
      BY <3>1, EmitFacts DEF Boot, Typed, ControlOK
    <3>2. CASE StopRequested \/ Judge
      BY <3>2, EmitFacts DEF StopRequested, Judge, Typed, ControlOK
    <3>3. CASE ShutdownComplete
      BY <3>3, EmitFacts DEF ShutdownComplete, Typed, ControlOK
    <3>4. CASE FinishTransition \/ LoopEnds \/ BeginTick \/ DrainDone \/ ExitSignal
      BY <3>4 DEF FinishTransition, LoopEnds, BeginTick, DrainDone, ExitSignal
    <3> QED
      BY <1>1, <3>1, <3>2, <3>3, <3>4
  <2> QED
    BY <2>1, <2>2, EscalationFrame DEF Typed, TypeOK
<1>2. CASE BootFails
  <2>1. /\ restarting' = restarting /\ target' = target /\ target = "starting"
        /\ exception' = "other"
    BY <1>2 DEF BootFails, Typed, ControlOK
  <2>2. \A w \in Workers : /\ units'[w].restart_count = units[w].restart_count
                           /\ units'[w].generation = units[w].generation
    BY <1>2 DEF BootFails, Typed, TypeOK, SupervisionUnits
  <2> QED
    BY <2>1, <2>2, EscalationFrame DEF Typed, TypeOK
<1>3. CASE DrainOne
  BY <1>3, DrainOneFacts, EscalationFrame DEF DrainOne, Typed, TypeOK
<1>4. CASE Interrupted
  BY <1>4, KillFacts, EscalationFrame DEF Interrupted, Abort, Typed, TypeOK
<1>5. ASSUME NEW w \in Workers, KillLingering(w) PROVE Escalates'
  BY <1>5, KillFacts, EscalationFrame DEF KillLingering, Typed, TypeOK
<1>6. ASSUME NEW late, ShutdownPass(late) PROVE Escalates'
  <2>1. UNCHANGED <<exception, restarting, target>>
    BY <1>6, EmitFacts DEF ShutdownPass
  <2> QED
    BY <1>6, <2>1, ShutdownPassFacts, EscalationFrame, SMTT(30) DEF Typed, TypeOK
<1> QED
  BY <1>1, <1>2, <1>3, <1>4, <1>5, <1>6

LEMMA InitEscalates == Init => Escalates
  BY QuotaAssumption DEF Init, Escalates, EscalationIsJustified, NewUnit

LEMMA NextEscalates == SafeEnd /\ Escalates /\ [Next]_vars => Escalates'
<1> SUFFICES ASSUME SafeEnd, Escalates, [Next]_vars PROVE Escalates'
  OBVIOUS
<1>0. Typed /\ LoopOK
  BY DEF SafeEnd
<1>1. CASE Tick \/ Failure \/ ExitSignal
  BY <1>0, <1>1, SuperviseEscalates, ReplaceEscalates, OtherEscalates DEF Tick, Failure
<1>2. ASSUME NEW w \in Workers, Work(w) PROVE Escalates'
  <2>1. UNCHANGED <<units, exception, restarting, target>>
    BY <1>0, <1>2, WorkFacts DEF UnchangedBySupervisor, Typed
  <2> QED
    BY <1>0, <2>1, EscalationFrame DEF Typed, TypeOK
<1>3. CASE UNCHANGED vars
  BY <1>0, <1>3, EscalationFrame DEF vars, Typed, TypeOK
<1> QED
  BY <1>1, <1>2, <1>3 DEF Next, Terminated

\* For every quota: the supervisor reports an exhausted quota exactly when it has
\* announced that it goes down over one - also if a callback then ends run() before it
\* does - and no unit is replaced more often than its quota allows.
THEOREM EscalationsAreJustified == Spec => []EscalationIsJustified
<1>1. Escalates => EscalationIsJustified
  BY DEF Escalates
<1> QED
  BY <1>1, InitEscalates, NextEscalates, Safety, PTL DEF Spec

-----------------------------------------------------------------------------
(* The contract. *)

\* What the contract sees.
Alive == {w \in Workers : IsAlive(w)}

Doomed == {w \in Workers : IsAlive(w) /\ execs[w].killed}

Incarnation == [w \in Workers |-> units[w].generation]

View == <<Phase, Alive, Doomed, Incarnation>>

Step == Contract!Next \/ UNCHANGED View

Sane == SafeEnd /\ Fenced /\ KillsArePending /\ Escalates

\* A step that keeps what the contract reads of the units and the executors.
LEMMA SameWorkers ==
  ASSUME \A w \in Workers : /\ IsAlive(w)' <=> IsAlive(w)
                            /\ execs'[w].killed <=> execs[w].killed
                            /\ units'[w].generation = units[w].generation
  PROVE  UNCHANGED <<Alive, Doomed, Incarnation>>
BY DEF Alive, Doomed, Incarnation

\* The phases, by what the supervisor announced last.
LEMMA PhaseFacts ==
  ASSUME Typed
  PROVE  /\ pc = "aborted" => Phase = "aborted"
         /\ pc = "done" => Phase = "ended"
         /\ pc \notin {"done", "aborted"} =>
              /\ target = "starting" => Phase = "booting"
              /\ target = "running" => Phase = "supervising"
              /\ target \notin {"starting", "running"} => Phase = "draining"
BY DEF Phase, Typed, ControlOK

LEMMA BootSteps ==
  ASSUME Sane, Boot \/ BootFails, Typed'
  PROVE  Step
<1>0. /\ Typed /\ state = "starting" /\ target = "starting" /\ pc = "idle"
      /\ \A w \in Workers : ~IsAlive(w)
  BY DEF Sane, SafeEnd, Typed, ControlOK, Boot, BootFails, AllExecutorsDown
<1>1. Phase = "booting" /\ Alive = {} /\ Doomed = {}
  BY <1>0, PhaseFacts DEF Alive, Doomed
<1>2. CASE Boot
  <2>1. target' = "running" /\ pc' = "hooks"
    BY <1>0, <1>2, EmitFacts DEF Boot
  <2>2. Phase' = "supervising"
    BY <2>1, PhaseFacts DEF Phase
  <2>3. Alive' = Workers /\ Doomed' = {} /\ Incarnation' = Incarnation
    BY <1>2 DEF Boot, Alive, Doomed, Incarnation, IsAlive, Started, NewExecutor
  <2>4. Contract!Launch
    BY <1>1, <2>2, <2>3 DEF Contract!Launch, Alive, Doomed, Incarnation
  <2> QED
    BY <2>4 DEF Step, Contract!Next
<1>3. CASE BootFails
  <2>1. Phase' = "aborted"
    BY <1>3 DEF BootFails, Phase
  <2>2. PICK started \in SUBSET Workers :
              /\ units' = [w \in Workers |->
                              [units[w] EXCEPT !.kill_requested = w \in started]]
              /\ execs' = [w \in Workers |->
                              IF w \in started THEN [Started EXCEPT !.killed = TRUE]
                              ELSE execs[w]]
    BY <1>3 DEF BootFails
  <2>3. Alive' = started /\ Doomed' = started
    <3>1. \A w \in started : IsAlive(w)' /\ execs'[w].killed
      BY <2>2 DEF IsAlive, Started, NewExecutor
    <3>2. \A w \in Workers \ started : ~IsAlive(w)'
      BY <1>0, <2>2 DEF IsAlive
    <3> QED
      BY <3>1, <3>2 DEF Alive, Doomed
  <2>4. Incarnation' = Incarnation
    BY <1>0, <2>2 DEF Incarnation, Typed, TypeOK, SupervisionUnits
  <2>5. Contract!AbortBoot
    BY <1>1, <2>1, <2>3, <2>4 DEF Contract!AbortBoot, Alive, Doomed, Incarnation
  <2> QED
    BY <2>5 DEF Step, Contract!Next
<1> QED
  BY <1>2, <1>3

\* The steps of the supervisor's control, and the look at a unit.
LEMMA ControlSteps ==
  ASSUME Sane, Typed',
         \/ FinishTransition \/ LoopEnds \/ StopRequested \/ BeginTick \/ DrainOne \/ DrainDone
         \/ Judge \/ ShutdownComplete \/ ExitSignal
         \/ \E w \in Workers : Supervise(w)
  PROVE  Step
<1>0. Typed /\ NoOrphans
  BY DEF Sane, SafeEnd
<1>1. UNCHANGED <<Alive, Doomed, Incarnation>>
  <2>1. CASE DrainOne
    BY <1>0, <2>1, DrainOneFacts, SameWorkers DEF DrainOne, Typed, IsAlive
  <2>2. CASE ~DrainOne
    <3>1. UNCHANGED <<units, execs>>
      BY <2>2
      DEF FinishTransition, LoopEnds, StopRequested, BeginTick, DrainDone, Judge,
          ShutdownComplete, ExitSignal, Supervise
    <3> QED
      BY <3>1 DEF Alive, Doomed, Incarnation, IsAlive
  <2> QED
    BY <2>1, <2>2
<1>2. CASE /\ target' = target
           /\ pc' \in {"done", "aborted"} <=> pc \in {"done", "aborted"}
           /\ pc' = "aborted" <=> pc = "aborted"
  <2>1. Phase' = Phase
    BY <1>2 DEF Phase
  <2> QED
    BY <1>1, <2>1 DEF Step, View
<1>3. CASE /\ target = "running" /\ pc \notin {"done", "aborted"}
           /\ target' \in {"terminating", "reaping"} /\ pc' = "hooks"
  <2>1. Phase = "supervising" /\ Phase' = "draining"
    BY <1>3 DEF Phase
  <2>2. Contract!Drain
    BY <1>1, <2>1 DEF Contract!Drain, Alive, Doomed, Incarnation
  <2> QED
    BY <2>2 DEF Step, Contract!Next
<1>4. CASE ShutdownComplete
  <2>1. /\ target \in {"terminating", "reaping"} /\ pc = "shutdown"
        /\ target' \in {"crashed", "stopped"} /\ pc' = "hooks"
    BY <1>0, <1>4, EmitFacts DEF ShutdownComplete, Typed, ControlOK
  <2>2. Phase' = Phase
    BY <2>1 DEF Phase
  <2> QED
    BY <1>1, <2>2 DEF Step, View
<1>5. CASE StopRequested
  <2>1. /\ target = "running" /\ pc = "idle"
        /\ target' = "terminating" /\ pc' = "hooks"
    BY <1>0, <1>5, EmitFacts DEF StopRequested, Typed, ControlOK
  <2> QED
    BY <1>3, <2>1
<1>6. CASE FinishTransition \/ BeginTick \/ DrainOne \/ DrainDone \/ ExitSignal
  <2>1. /\ target' = target /\ pc \notin {"done", "aborted"} /\ pc' \notin {"done", "aborted"}
    BY <1>6 DEF FinishTransition, BeginTick, DrainOne, DrainDone, ExitSignal
  <2> QED
    BY <1>2, <2>1
<1>7. CASE Judge
  <2>1. /\ target = "running" /\ pc = "supervise"
        /\ \/ target' = target /\ pc' = "idle"
           \/ target' = "terminating" /\ pc' = "hooks"
    BY <1>0, <1>7, EmitFacts DEF Judge, Typed, ControlOK
  <2> QED
    BY <1>2, <1>3, <2>1
<1>8. ASSUME NEW w \in Workers, Supervise(w) PROVE Step
  <2>1. state = "running" /\ target = "running" /\ pc = "supervise"
    BY <1>0, <1>8 DEF Supervise, Typed, ControlOK
  <2>2. \/ target' = target /\ pc' = pc
        \/ target' = "reaping" /\ pc' = "hooks"
    BY <1>8, <2>1, EmitFacts DEF Supervise
  <2> QED
    BY <1>2, <1>3, <2>1, <2>2
<1>9. CASE LoopEnds
  <2>1. /\ state \in {"crashed", "stopped"} /\ target = state /\ pc = "idle" /\ pc' = "done"
    BY <1>0, <1>9, SupervisorMachine DEF LoopEnds, Typed, ControlOK
  <2>2. Phase = "draining" /\ Phase' = "ended"
    BY <2>1 DEF Phase
  <2>3. Alive = {}
    BY <1>0, <2>1 DEF NoOrphans, Alive
  <2>4. Contract!End
    BY <1>1, <2>2, <2>3 DEF Contract!End, Alive, Doomed, Incarnation
  <2> QED
    BY <2>4 DEF Step, Contract!Next
<1> QED
  BY <1>4, <1>5, <1>6, <1>7, <1>8, <1>9

\* restart_unit: the kill of a live unit, or the replacement of a dead one.
LEMMA RestartSteps ==
  ASSUME Sane, NEW w \in Workers, KillLingering(w) \/ Replace(w) \/ ReplaceFails(w)
  PROVE  Step
<1>0. /\ Typed /\ pc = "supervise" /\ target = "running" /\ Phase = "supervising"
      /\ units \in [Workers -> SupervisionUnits] /\ execs \in [Workers -> Executors]
  BY PhaseFacts DEF KillLingering, Replace, ReplaceFails, Sane, SafeEnd, Typed, TypeOK, ControlOK
<1>1. /\ units[w].generation < RestartQuota
  BY DEF KillLingering, Replace, ReplaceFails, Sane, Escalates, EscalationIsJustified, Retryable
<1>2. CASE KillLingering(w)
  <2>1. Phase' = "supervising"
    BY <1>0, <1>2 DEF KillLingering, Phase
  <2>2. Alive' = Alive /\ Incarnation' = Incarnation
    BY <1>0, <1>2, KillFacts DEF KillLingering, Alive, Incarnation, IsAlive, Typed
  <2>3. Doomed' = Doomed \cup {w} /\ {w} \subseteq Alive
    <3>1. /\ IsAlive(w) /\ (units[w].kill_requested => execs[w].killed)
      BY <1>2 DEF KillLingering, Sane, KillsArePending
    <3>2. \A v \in Workers : /\ IsAlive(v)' <=> IsAlive(v)
                             /\ execs'[v].killed <=> execs[v].killed \/
                                    (v \in {w} /\ IsAlive(v) /\ ~units[v].kill_requested)
      BY <1>0, <1>2, KillFacts DEF KillLingering, IsAlive, Typed
    <3> QED
      BY <3>1, <3>2 DEF Doomed, Alive
  <2>4. Contract!Doom({w})
    BY <1>0, <2>1, <2>2, <2>3 DEF Contract!Doom, Alive, Doomed, Incarnation
  <2>5. \E victims \in SUBSET Alive : Contract!Doom(victims)
    BY <2>3, <2>4
  <2> QED
    BY <2>5 DEF Step, Contract!Next, Alive
<1>3. CASE Replace(w)
  <2>1. Phase' = "supervising"
    BY <1>0, <1>3 DEF Replace, Phase
  <2>2. ~IsAlive(w) /\ IsAlive(w)' /\ ~execs'[w].killed
        /\ units'[w].generation = units[w].generation + 1
    BY <1>0, <1>3 DEF Replace, Successor, NewUnit, Started, NewExecutor, IsAlive
  <2>3. \A v \in Workers : v # w => /\ units'[v] = units[v] /\ execs'[v] = execs[v]
    BY <1>0, <1>3 DEF Replace
  <2>4. /\ w \notin Alive /\ Alive' = Alive \cup {w} /\ Doomed' = Doomed
    BY <2>2, <2>3 DEF Alive, Doomed, IsAlive
  <2>5. Incarnation' = [Incarnation EXCEPT ![w] = @ + 1] /\ Incarnation[w] < RestartQuota
    BY <1>1, <2>2, <2>3 DEF Incarnation
  <2>6. Contract!Replace(w)
    BY <1>0, <2>1, <2>4, <2>5 DEF Contract!Replace, Alive, Doomed, Incarnation
  <2> QED
    BY <2>6 DEF Step, Contract!Next
<1>4. CASE ReplaceFails(w)
  <2> DEFINE others == {v \in Workers \ {w} : IsAlive(v)}
  <2>1. Phase' = "aborted"
    BY <1>4 DEF ReplaceFails, Phase
  <2>2. /\ ~IsAlive(w)
        /\ execs' = [v \in Workers |->
                IF v = w THEN NewExecutor
                ELSE [execs[v] EXCEPT !.killed =
                        @ \/ (v \in others /\ ~units[v].kill_requested)]]
        /\ units' = [v \in Workers |->
                IF v = w THEN Successor(w)
                ELSE [units[v] EXCEPT !.kill_requested = @ \/ v \in others]]
    BY <1>4 DEF ReplaceFails
  <2>3. ~IsAlive(w)'
    BY <2>2 DEF IsAlive, NewExecutor
  <2>4. ASSUME NEW v \in Workers, v # w
        PROVE  /\ IsAlive(v)' <=> IsAlive(v)
               /\ IsAlive(v) => execs'[v].killed
               /\ units'[v].generation = units[v].generation
    <3> HIDE DEF others
    <3>1. /\ execs'[v].pc = execs[v].pc
          /\ execs'[v].killed = (execs[v].killed \/ (v \in others /\ ~units[v].kill_requested))
          /\ units'[v].generation = units[v].generation
      BY <1>0, <2>2, <2>4 DEF Executors, SupervisionUnits
    <3>2. IsAlive(v) => v \in others
      BY <2>4 DEF others
    <3>3. IsAlive(v) /\ units[v].kill_requested => execs[v].killed
      BY DEF Sane, KillsArePending
    <3> QED
      BY <3>1, <3>2, <3>3 DEF IsAlive
  <2>5. units'[w].generation = units[w].generation + 1
    BY <2>2 DEF Successor, NewUnit
  <2>6. w \notin Alive /\ Alive' = Alive /\ Doomed' = Alive
    BY <2>2, <2>3, <2>4 DEF Alive, Doomed
  <2>7. Incarnation' = [Incarnation EXCEPT ![w] = @ + 1] /\ Incarnation[w] < RestartQuota
    BY <1>1, <2>4, <2>5 DEF Incarnation
  <2>8. Contract!Abort
    BY <1>0, <2>1, <2>6, <2>7 DEF Contract!Abort, Alive, Doomed, Incarnation
  <2> QED
    BY <2>8 DEF Step, Contract!Next
<1> QED
  BY <1>2, <1>3, <1>4

\* A shutdown pass tells some of the living to die, an interruption all of them.
LEMMA ShutdownSteps ==
  ASSUME Sane, NEW late, ShutdownPass(late)
  PROVE  Step
<1>0. Typed /\ TypeOK /\ target \in {"terminating", "reaping"} /\ pc = "shutdown"
  BY DEF ShutdownPass, Sane, SafeEnd, Typed, ControlOK
<1>1. target' = target /\ pc' = "idle"
  BY <1>0, EmitFacts DEF ShutdownPass
<1>2. Phase = "draining" /\ Phase' = "draining"
  BY <1>0, <1>1 DEF Phase
<1>3. \A w \in Workers : /\ IsAlive(w)' <=> IsAlive(w)
                         /\ execs[w].killed => execs'[w].killed
                         /\ units'[w].generation = units[w].generation
  BY <1>0, ShutdownPassFacts DEF IsAlive
<1>4. /\ Alive' = Alive /\ Incarnation' = Incarnation
      /\ Doomed' \subseteq Alive /\ Doomed' = Doomed \cup Doomed'
  BY <1>3 DEF Alive, Doomed, Incarnation
<1>5. PICK victims \in SUBSET Alive : Doomed' = Doomed \cup victims
  BY <1>4
<1>6. Contract!Doom(victims)
  BY <1>2, <1>4, <1>5 DEF Contract!Doom, Alive, Doomed, Incarnation
<1> QED
  BY <1>6 DEF Step, Contract!Next, Alive

LEMMA InterruptSteps ==
  ASSUME Sane, Interrupted
  PROVE  Step
<1>0. /\ Typed /\ TypeOK /\ pc \in {"idle", "hooks"}
      /\ target = "starting" => AllExecutorsDown
  BY DEF Interrupted, Sane, SafeEnd, Typed, ControlOK
<1>1. Phase' = "aborted" /\ Phase \in {"booting", "supervising", "draining"}
      /\ (Phase = "booting" => AllExecutorsDown)
  BY <1>0 DEF Interrupted, Abort, Phase
<1>2. Kill({w \in Workers : IsAlive(w)})
  BY DEF Interrupted, Abort
<1>3. ASSUME NEW w \in Workers
      PROVE  /\ IsAlive(w)' <=> IsAlive(w)
             /\ IsAlive(w) => execs'[w].killed
             /\ units'[w].generation = units[w].generation
  <2>1. IsAlive(w) /\ units[w].kill_requested => execs[w].killed
    BY DEF Sane, KillsArePending
  <2>2. /\ IsAlive(w)' <=> IsAlive(w)
        /\ execs'[w].killed <=> execs[w].killed \/
              (w \in {v \in Workers : IsAlive(v)} /\ IsAlive(w) /\ ~units[w].kill_requested)
        /\ units'[w].generation = units[w].generation
    BY <1>0, <1>2, KillFacts DEF IsAlive
  <2> QED
    BY <2>1, <2>2
<1>4. Alive' = Alive /\ Doomed' = Alive /\ Incarnation' = Incarnation
  BY <1>3 DEF Alive, Doomed, Incarnation
<1>5. CASE Phase = "booting"
  <2>1. Contract!AbortBoot
    BY <1>1, <1>4, <1>5 DEF Contract!AbortBoot, Alive, Doomed, Incarnation
  <2> QED
    BY <2>1 DEF Step, Contract!Next
<1>6. CASE Phase # "booting"
  <2>1. Contract!Abort
    BY <1>1, <1>4, <1>6 DEF Contract!Abort, Alive, Doomed, Incarnation
  <2> QED
    BY <2>1 DEF Step, Contract!Next
<1> QED
  BY <1>5, <1>6

\* A worker goes on, or leaves.
LEMMA WorkSteps ==
  ASSUME Sane, NEW w \in Workers, Work(w)
  PROVE  Step
<1>0. Typed /\ LoopOK
  BY DEF Sane, SafeEnd
<1>1. /\ UNCHANGED <<units, pc, target>> /\ IsAlive(w)
      /\ \A v \in Workers : v # w => execs'[v] = execs[v]
  BY <1>0, WorkFacts DEF UnchangedBySupervisor, Typed, TypeOK
<1>2. Phase' = Phase /\ Incarnation' = Incarnation
  BY <1>1 DEF Phase, Incarnation
<1>3. CASE IsAlive(w)'
  <2>1. execs'[w].killed = execs[w].killed
    BY <1>0, <1>3, WorkKeepsKill
  <2>2. Alive' = Alive /\ Doomed' = Doomed
    BY <1>1, <1>3, <2>1 DEF Alive, Doomed, IsAlive
  <2> QED
    BY <1>2, <2>2 DEF Step, View
<1>4. CASE ~IsAlive(w)'
  <2>1. w \in Alive /\ Alive' = Alive \ {w} /\ Doomed' = Doomed \ {w}
    BY <1>1, <1>4 DEF Alive, Doomed, IsAlive
  <2>2. Contract!Leave(w)
    BY <1>2, <2>1 DEF Contract!Leave, Alive, Doomed, Incarnation
  <2> QED
    BY <2>2 DEF Step, Contract!Next
<1> QED
  BY <1>3, <1>4

LEMMA EveryStep == Sane /\ Typed' /\ [Next]_vars => Step
<1> SUFFICES ASSUME Sane, Typed', [Next]_vars PROVE Step
  OBVIOUS
<1>1. CASE Tick \/ Failure \/ ExitSignal
  BY <1>1, BootSteps, ControlSteps, RestartSteps, ShutdownSteps, InterruptSteps
  DEF Tick, Failure
<1>2. ASSUME NEW w \in Workers, Work(w) PROVE Step
  BY <1>2, WorkSteps
<1>3. CASE UNCHANGED vars
  BY <1>3 DEF vars, Step, View, Phase, Alive, Doomed, Incarnation, IsAlive
<1> QED
  BY <1>1, <1>2, <1>3 DEF Next, Terminated

LEMMA InitMapped == Init => Contract!Init
<1> SUFFICES ASSUME Init PROVE Contract!Init
  OBVIOUS
<1>1. Phase = "booting" /\ Alive = {} /\ Doomed = {}
  BY DEF Init, Phase, Alive, Doomed, IsAlive, NewExecutor
<1>2. Incarnation = [w \in Workers |-> 0]
  BY DEF Init, Incarnation, NewUnit
<1> QED
  BY <1>1, <1>2 DEF Contract!Init, Alive, Doomed, Incarnation

\* The supervisor keeps its contract, whatever its workers, its caller and the
\* signals do to it: for any number of workers and any restart quota.
THEOREM ImplementsContract == Spec => ContractSpec
<1>1. Step => [Contract!Next]_Contract!vars
  BY DEF Step, View, Alive, Doomed, Incarnation, Contract!vars
<1>2. SafeEnd => Typed
  BY DEF SafeEnd
<1> QED
  BY <1>1, <1>2, InitMapped, EveryStep, Safety, InitFenced, NextFenced, InitPending,
     NextPending, InitEscalates, NextEscalates, PTL DEF Spec, ContractSpec, Contract!Spec, Sane

-----------------------------------------------------------------------------
(* What the contract promises, and with it the supervisor.                 *)

LEMMA PromisesBegin == Contract!Init => Contract!Promises
BY QuotaAssumption DEF Contract!Init, Contract!Promises

\* The quota covers one more replacement of a worker that has not used it up.
LEMMA OneMoreReplacement ==
  ASSUME NEW before \in [Workers -> Nat], NEW after, NEW w \in Workers,
         after = [before EXCEPT ![w] = @ + 1], before[w] < RestartQuota,
         \A v \in Workers : before[v] <= RestartQuota
  PROVE  /\ after \in [Workers -> Nat]
         /\ \A v \in Workers : after[v] <= RestartQuota
BY QuotaAssumption

LEMMA PromisesStay == Contract!Promises /\ [Contract!Next]_(Contract!vars) => Contract!Promises'
<1> SUFFICES ASSUME Contract!Promises, [Contract!Next]_(Contract!vars)
             PROVE  Contract!Promises'
  OBVIOUS
<1>0. /\ Doomed \subseteq Alive /\ Alive \subseteq Workers
      /\ Incarnation \in [Workers -> Nat]
      /\ \A w \in Workers : Incarnation[w] <= RestartQuota
  BY DEF Contract!Promises, Alive, Doomed, Incarnation
<1>1. CASE Contract!Launch
  BY <1>1 DEF Contract!Launch, Contract!Promises
<1>2. CASE Contract!Drain
  BY <1>2 DEF Contract!Drain, Contract!Promises
<1>3. CASE Contract!End
  BY <1>3 DEF Contract!End, Contract!Promises
<1>4. CASE Contract!AbortBoot
  BY <1>4 DEF Contract!AbortBoot, Contract!Promises
<1>5. CASE Contract!Abort
  <2>1. /\ Phase' = "aborted" /\ Alive' = Alive /\ Doomed' = Alive
        /\ \/ Incarnation' = Incarnation
           \/ \E w \in Workers : /\ Incarnation[w] < RestartQuota
                                 /\ Incarnation' = [Incarnation EXCEPT ![w] = @ + 1]
    BY <1>5 DEF Contract!Abort, Alive, Doomed, Incarnation
  <2>2. Incarnation' \in [Workers -> Nat] /\ \A v \in Workers : Incarnation'[v] <= RestartQuota
    BY <1>0, <2>1, OneMoreReplacement
  <2> QED
    BY <1>0, <2>1, <2>2 DEF Contract!Promises, Alive, Doomed, Incarnation
<1>6. ASSUME NEW w \in Workers, Contract!Leave(w)
      PROVE  Contract!Promises'
  BY <1>6 DEF Contract!Leave, Contract!Promises
<1>7. ASSUME NEW w \in Workers, Contract!Replace(w)
      PROVE  Contract!Promises'
  <2>1. /\ Phase' = Phase /\ Phase = "supervising"
        /\ Alive' = Alive \cup {w} /\ Doomed' = Doomed
        /\ Incarnation[w] < RestartQuota
        /\ Incarnation' = [Incarnation EXCEPT ![w] = @ + 1]
    BY <1>7 DEF Contract!Replace, Alive, Doomed, Incarnation
  <2>2. Incarnation' \in [Workers -> Nat] /\ \A v \in Workers : Incarnation'[v] <= RestartQuota
    BY <1>0, <2>1, OneMoreReplacement
  <2> QED
    BY <1>0, <2>1, <2>2 DEF Contract!Promises, Alive, Doomed, Incarnation
<1>8. ASSUME NEW victims \in SUBSET Alive, Contract!Doom(victims)
      PROVE  Contract!Promises'
  BY <1>8 DEF Contract!Doom, Contract!Promises, Alive
<1>9. CASE UNCHANGED Contract!vars
  BY <1>9 DEF Contract!vars, Contract!Promises
<1> QED
  BY <1>1, <1>2, <1>3, <1>4, <1>5, <1>6, <1>7, <1>8, <1>9 DEF Contract!Next, Alive

LEMMA StepsArePromised ==
  Contract!Promises /\ [Contract!Next]_(Contract!vars) => [Contract!LetsDie]_(Contract!vars)
<1> SUFFICES ASSUME Contract!Promises, [Contract!Next]_(Contract!vars)
             PROVE  \/ UNCHANGED Contract!vars
                    \/ /\ \A w \in Doomed : w \in Alive' => w \in Doomed'
                       /\ Phase \notin {"booting", "supervising"} => Alive' \subseteq Alive
  BY DEF Contract!LetsDie, Alive, Doomed
<1>0. Doomed \subseteq Alive /\ (Phase = "booting" => Alive = {})
  BY DEF Contract!Promises, Alive, Doomed
<1>1. CASE Contract!Launch \/ Contract!AbortBoot
  BY <1>0, <1>1 DEF Contract!Launch, Contract!AbortBoot, Alive, Doomed
<1>2. CASE Contract!Drain \/ Contract!End
  BY <1>2 DEF Contract!Drain, Contract!End, Alive, Doomed
<1>3. CASE Contract!Abort
  BY <1>0, <1>3 DEF Contract!Abort, Alive, Doomed
<1>4. ASSUME NEW w \in Workers, Contract!Leave(w)
      PROVE  Alive' = Alive \ {w} /\ Doomed' = Doomed \ {w}
  BY <1>4 DEF Contract!Leave, Alive, Doomed
<1>5. ASSUME NEW w \in Workers, Contract!Replace(w)
      PROVE  Phase = "supervising" /\ Doomed' = Doomed
  BY <1>5 DEF Contract!Replace, Doomed
<1>6. ASSUME NEW victims \in SUBSET Alive, Contract!Doom(victims)
      PROVE  Alive' = Alive /\ Doomed' = Doomed \cup victims
  BY <1>6 DEF Contract!Doom, Alive, Doomed
<1> QED
  BY <1>1, <1>2, <1>3, <1>4, <1>5, <1>6 DEF Contract!Next, Alive

\* What the caller of run() may rely on whatever happens: no worker is replaced beyond
\* its quota, none is left when run() returns, and after an abort only some that were
\* told to die.
THEOREM PromisesAreKept == Spec => []Contract!Promises
BY ImplementsContract, PromisesBegin, PromisesStay, PTL DEF ContractSpec, Contract!Spec

\* And at every step: a kill is not taken back, and a supervisor that drains or has
\* ended starts nothing.
THEOREM KillsAreFinal == Spec => Contract!DoomIsFinal
BY ImplementsContract, PromisesBegin, PromisesStay, StepsArePromised, PTL
DEF ContractSpec, Contract!Spec, Contract!DoomIsFinal
=============================================================================
