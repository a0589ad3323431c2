---------------------------- MODULE WorkerWatch -----------------------------
(***************************************************************************)
(* How a supervisor judges one live worker by the clock: the worker's main *)
(* loop stamps activities, the queue delays them, drain_activity_queue     *)
(* records them (evaluator.py) and status asks is_healthy.                 *)
(*                                                                         *)
(* The worker may be slow or hang anywhere; if punctual it keeps its       *)
(* contract, each step that much early as the queue and the tick may lose  *)
(* (PutDelay, Lag). Ends and restarts of the worker are in Supervisor.     *)
(***************************************************************************)
EXTENDS Evaluator, Sequences

CONSTANTS
    FSM,        \* the worker's state machine, timeouts in clock ticks
    QueueMax,   \* settings.activity_queue_maxsize, also the budget of a drain
    MaxTime,    \* the bound of the clock, for either value of punctual
    PutDelay,   \* if punctual: the longest a put may be blocked
    Lag         \* if punctual: the longest from the start of a drain to its verdict

ASSUME WatchAssumption ==
    /\ IsStateMachine(FSM)
    /\ QueueMax \in Nat \ {0} /\ PutDelay \in Nat /\ Lag \in Nat

VARIABLES
    punctual,     \* whether the worker and its surroundings are in time
    now,          \* time.monotonic()
    pc,           \* the worker: in an "actor", in "hooks" or in a "put"
    state,        \* its FSM state
    act,          \* the activity it is putting, or whose hooks it runs
    entered,      \* when it entered its state
    queue,        \* the activity queue
    term,         \* the worker's term_event
    told_at,      \* history: when it was set
    expectation,  \* the evaluator's
    watch,        \* the supervisor: "away", "draining" or "judging"
    looked_at,    \* when the drain in course began
    drained,      \* activities taken by it
    verdict       \* what the last judgement said

worker == <<pc, state, act, entered>>
watcher == <<expectation, watch, looked_at, drained, verdict>>
vars == <<punctual, now, worker, queue, term, told_at, watcher>>

Activity(kind, transition) == [kind |-> kind, transition |-> transition, ts |-> now]

-----------------------------------------------------------------------------
(* The worker's main loop; every activity is stamped when it is made. *)

InActor == pc = "actor" /\ state \notin TerminalStates(FSM)

Keepalive ==
    /\ InActor /\ state # InitialState(FSM)
    /\ act' = Activity("heartbeat", <<>>) /\ pc' = "put"
    /\ UNCHANGED <<punctual, now, state, entered, queue, term, told_at, watcher>>

BeginTransition(event) ==
    /\ InActor /\ event \in Events(FSM, state)
    /\ state = InitialState(FSM) => event = FSM.initial_event
    /\ act' = Activity("transition_begin", <<state, TargetState(FSM, state, event)>>)
    /\ pc' = "put"
    /\ UNCHANGED <<punctual, now, state, entered, queue, term, told_at, watcher>>

EndTransition ==
    /\ pc = "hooks" /\ pc' = "put"
    /\ act' = Activity("transition_end", act.transition)
    /\ state' = act.transition[2] /\ entered' = now
    /\ UNCHANGED <<punctual, now, queue, term, told_at, watcher>>

Put ==
    /\ pc = "put" /\ Len(queue) < QueueMax
    /\ queue' = Append(queue, act)
    /\ pc' = IF act.kind = "transition_begin" THEN "hooks" ELSE "actor"
    /\ UNCHANGED <<punctual, now, state, act, entered, term, told_at, watcher>>

-----------------------------------------------------------------------------
(* The supervisor's tick, as far as this worker is concerned. *)

BeginDrain ==
    /\ watch = "away" /\ watch' = "draining"
    /\ looked_at' = now /\ drained' = 0
    /\ UNCHANGED <<punctual, now, worker, queue, term, told_at, expectation, verdict>>

MutDropsNothing(a) == FALSE

\* The heartbeats of a worker that was told to stop are dropped.
Drops(a) == a.kind = "heartbeat" /\ term

DrainOne ==
    /\ watch = "draining" /\ queue # <<>> /\ drained < QueueMax
    /\ LET a == Head(queue) IN
        expectation' = IF Drops(a) THEN expectation
                       ELSE Record(FSM, expectation, a.kind, a.transition, a.ts)
    /\ queue' = Tail(queue) /\ drained' = drained + 1
    /\ UNCHANGED <<punctual, now, worker, term, told_at, watch, looked_at, verdict>>

DrainDone ==
    /\ watch = "draining" /\ (queue = <<>> \/ drained = QueueMax)
    /\ watch' = "judging"
    /\ UNCHANGED <<punctual, now, worker, queue, term, told_at, expectation, looked_at, drained, verdict>>

\* status of a unit whose executor is alive and was not killed.
Judge ==
    /\ watch = "judging" /\ watch' = "away"
    /\ verdict' = IF IsHealthy(expectation, now) THEN "HEALTHY" ELSE "LINGERING"
    /\ UNCHANGED <<punctual, now, worker, queue, term, told_at, expectation, looked_at, drained>>

\* stop_executors: in a shutdown tick, between the drain and the statuses.
Stop ==
    /\ watch = "judging" /\ ~term /\ term' = TRUE /\ told_at' = now
    /\ UNCHANGED <<punctual, now, worker, queue, watcher>>

-----------------------------------------------------------------------------
(* Time. *)

Edge == act.transition

\* How long the worker may still stay where it is, if it is to keep its contract
\* with PutDelay + Lag to spare: a heartbeat after the last activity, the hooks
\* of a transition, and its whole stay in a state.
Slack == PutDelay + Lag

\* In its state and not yet about to leave it, a blocked put included.
Staying == InActor \/ (pc = "put" /\ act.kind # "transition_begin")

StillInTime(since, timeout) == timeout # Inf => now - since < timeout - Slack

WorkerInTime ==
    /\ pc = "put"   => now - act.ts < PutDelay
    /\ pc = "hooks" => StillInTime(act.ts, TimeoutOf(FSM.transition_timeouts, Edge))
    /\ InActor => /\ state # InitialState(FSM)
                  /\ StillInTime(act.ts, TimeoutOf(FSM.heartbeat_timeouts, state))
    /\ Staying => StillInTime(entered, TimeoutOf(FSM.state_timeouts, state))

WatcherInTime == watch # "away" => now - looked_at < Lag

\* Bound: the clock stops at MaxTime[punctual].
TimePasses ==
    /\ now < MaxTime[punctual] /\ now' = now + 1
    /\ punctual => WorkerInTime /\ WatcherInTime
    /\ UNCHANGED <<punctual, worker, queue, term, told_at, watcher>>

\* The worker has just yielded its initial heartbeat.
Init ==
    /\ punctual \in BOOLEAN
    /\ now = 0
    /\ pc = "put" /\ state = InitialState(FSM) /\ entered = 0
    /\ act = Activity("heartbeat", <<>>)
    /\ queue = <<>> /\ term = FALSE /\ told_at = 0
    /\ expectation = NewExpectation(FSM)
    /\ watch = "away" /\ looked_at = 0 /\ drained = 0 /\ verdict = "HEALTHY"

Next ==
    \/ Keepalive \/ EndTransition \/ Put
    \/ \E event \in Events(FSM, state) : BeginTransition(event)
    \/ BeginDrain \/ DrainOne \/ DrainDone \/ Judge \/ Stop \/ TimePasses

Spec == Init /\ [][Next]_vars

-----------------------------------------------------------------------------
(***************************************************************************)
(* What the properties ask of the machine.                                 *)
(***************************************************************************)

\* A heartbeat or state timeout of the initial state is never armed if the worker is
\* told to stop before its first heartbeat is recorded, or at all: the state is not
\* entered by a transition.
InitialIsUntimed ==
    InitialState(FSM) \notin DOMAIN FSM.heartbeat_timeouts \cup DOMAIN FSM.state_timeouts

\* No timeout is so short that a worker which loses no time itself may break it.
TimeoutsLeaveRoom ==
    /\ \A s \in DOMAIN FSM.heartbeat_timeouts : FSM.heartbeat_timeouts[s] >= PutDelay + Slack
    /\ \A p \in DOMAIN FSM.transition_timeouts : FSM.transition_timeouts[p] >= PutDelay + Slack
    /\ \A s \in DOMAIN FSM.state_timeouts : FSM.state_timeouts[s] >= Slack

-----------------------------------------------------------------------------
(***************************************************************************)
(* Properties.                                                             *)
(***************************************************************************)

\* The supervisor has recorded all there is.
UpToDate == queue = <<>> /\ pc # "put"

Overran(since, timeout) == timeout # Inf /\ now - since > timeout

\* A worker that gave no sign for longer than its state allows, or whose hooks
\* overran their transition's timeout, is unhealthy as soon as all it sent is
\* recorded: no activity, no stop request and no delay of the queue disarms the
\* deadline it broke.
SilenceIsNoticed ==
    UpToDate =>
        /\ InActor /\ Overran(act.ts, TimeoutOf(FSM.heartbeat_timeouts, state))
                => ~IsHealthy(expectation, now)
        /\ pc = "hooks" /\ Overran(act.ts, TimeoutOf(FSM.transition_timeouts, Edge))
                => ~IsHealthy(expectation, now)

\* A worker that stays in a state beyond its StateTimeout is unhealthy while its
\* actor runs, however many heartbeats it sends.
ActorResidenceIsNoticed ==
    UpToDate /\ InActor /\ Overran(entered, TimeoutOf(FSM.state_timeouts, state))
        => ~IsHealthy(expectation, now)

\* No transition is on its way.
OnlyBeats ==
    /\ \A i \in DOMAIN queue : queue[i].kind = "heartbeat"
    /\ InActor \/ (pc = "put" /\ act.kind = "heartbeat")

\* From when on the heartbeats of a worker that was told to stop buy no time: from then
\* on, or from its last transition.
UnheededSince == IF entered > told_at THEN entered ELSE told_at

\* A worker that was told to stop and stays in its state is unhealthy once a heartbeat's
\* time has passed, however many heartbeats it sends, recorded or on their way: a
\* shutdown waits no longer for a worker that beats than for one that hangs.
HeartbeatsBuyNoTime ==
    term /\ OnlyBeats /\ Overran(UnheededSince, TimeoutOf(FSM.heartbeat_timeouts, state))
        => ~IsHealthy(expectation, now)

\* What the docs say of a StateTimeout: the whole time in the state counts, the
\* hooks that are to leave it included (the worker is still in the state then).
ResidenceIsNoticed ==
    UpToDate /\ Overran(entered, TimeoutOf(FSM.state_timeouts, state))
        => ~IsHealthy(expectation, now)

\* A worker that keeps its contract with the delay of the queue and of the tick
\* to spare is never found lingering, unless it was told to stop.
PunctualIsHealthy == punctual /\ ~term => verdict # "LINGERING"
=============================================================================
