----------------------------- MODULE Evaluator ------------------------------
(***************************************************************************)
(* runsmith/evaluator.py: what a supervisor expects of one worker.         *)
(*                                                                         *)
(* An Expectation is the record [state, transition_deadline,               *)
(* next_heartbeat, state_expiry]; Record is WorkerStatusEvaluator.record,  *)
(* split by the kind of activity. Every deadline is absolute, and Inf when *)
(* it is not armed.                                                        *)
(***************************************************************************)
EXTENDS StateMachine

ActivityKinds == {"heartbeat", "transition_begin", "transition_end"}

NewExpectation(fsm) ==
    [state               |-> InitialState(fsm),
     transition_deadline |-> Inf,
     next_heartbeat      |-> Inf,
     state_expiry        |-> Inf]

\* ts + timeout, with ts + math.inf = math.inf.
After(ts, timeout) == IF timeout = Inf THEN Inf ELSE ts + timeout

RecordTransitionBegin(fsm, exp, src, tgt, ts) ==
    [exp EXCEPT !.transition_deadline = After(ts, TimeoutOf(fsm.transition_timeouts, <<src, tgt>>)),
                !.next_heartbeat = Inf,
                !.state_expiry = Inf]

\* A deadline of the state just entered; a terminal state expects nothing more.
ArmedFor(fsm, tgt, timeouts, ts) ==
    IF tgt \in TerminalStates(fsm) THEN Inf ELSE After(ts, TimeoutOf(timeouts, tgt))

MutEndKeepsDeadline(fsm, exp, tgt, ts) ==
    [exp EXCEPT !.state = tgt,
                !.next_heartbeat = ArmedFor(fsm, tgt, fsm.heartbeat_timeouts, ts),
                !.state_expiry = ArmedFor(fsm, tgt, fsm.state_timeouts, ts)]

MutEndArmsNothing(fsm, exp, tgt, ts) ==
    [exp EXCEPT !.state = tgt, !.transition_deadline = Inf,
                !.next_heartbeat = Inf, !.state_expiry = Inf]

RecordTransitionEnd(fsm, exp, tgt, ts) ==
    [exp EXCEPT !.state = tgt,
                !.transition_deadline = Inf,
                !.next_heartbeat = ArmedFor(fsm, tgt, fsm.heartbeat_timeouts, ts),
                !.state_expiry = ArmedFor(fsm, tgt, fsm.state_timeouts, ts)]

MutBeatExtendsStay(fsm, exp, ts) ==
    [exp EXCEPT !.next_heartbeat = After(ts, TimeoutOf(fsm.heartbeat_timeouts, exp.state)),
                !.state_expiry = After(ts, TimeoutOf(fsm.state_timeouts, exp.state))]

RecordHeartbeat(fsm, exp, ts) ==
    [exp EXCEPT !.next_heartbeat = After(ts, TimeoutOf(fsm.heartbeat_timeouts, exp.state))]

\* transition is the pair <<src, tgt>>; a heartbeat carries none.
Record(fsm, exp, kind, transition, ts) ==
    CASE kind = "transition_begin" ->
            RecordTransitionBegin(fsm, exp, transition[1], transition[2], ts)
      [] kind = "transition_end" -> RecordTransitionEnd(fsm, exp, transition[2], ts)
      [] kind = "heartbeat" -> RecordHeartbeat(fsm, exp, ts)

Deadlines(exp) == {exp.transition_deadline, exp.next_heartbeat, exp.state_expiry}

IsHealthy(exp, now) == \A d \in Deadlines(exp) : d = Inf \/ now <= d

\* Some deadline is armed, so that a late enough look finds the worker unhealthy.
IsArmed(exp) == \E d \in Deadlines(exp) : d # Inf
=============================================================================
