---------------------------- MODULE StateMachine ----------------------------
(***************************************************************************)
(* The worker state machines of runsmith/state.py, as values.              *)
(*                                                                         *)
(* A machine is a record                                                   *)
(*   initial_event        the event the initial state always emits         *)
(*   next                 state |-> (event |-> target): the rows of the    *)
(*                        TransitionTable that are dictionaries            *)
(*   terminal             state |-> "OK" or "ERROR": the rows that are a   *)
(*                        Terminal                                         *)
(*   heartbeat_timeouts, transition_timeouts, state_timeouts               *)
(*                        the constraints, already compiled into the three *)
(*                        partial functions of evaluator.WorkerConstraints *)
(* so that, as in the code, one table can drive a worker and its watcher.  *)
(***************************************************************************)
EXTENDS Integers

\* math.inf: the value of a deadline nobody has set, and of a timeout nobody
\* has configured. Deadlines and timeouts are otherwise natural numbers.
Inf == -1

(***************************************************************************)
(* Queries (StateMachine.get_...).                                         *)
(***************************************************************************)
TerminalStates(fsm) == DOMAIN fsm.terminal

States(fsm) == DOMAIN fsm.next \cup TerminalStates(fsm)

\* get_events: the outgoing events of a state; a terminal state has none.
Events(fsm, s) == IF s \in DOMAIN fsm.next THEN DOMAIN fsm.next[s] ELSE {}

TargetState(fsm, s, e) == fsm.next[s][e]

HasIncomingEdge(fsm, s) ==
    \E src \in DOMAIN fsm.next : \E e \in Events(fsm, src) : TargetState(fsm, src, e) = s

\* __build_states: the initial state is the one without incoming edges.
InitialState(fsm) == CHOOSE s \in DOMAIN fsm.next : ~HasIncomingEdge(fsm, s)

TerminalOutcome(fsm, s) == IF s \in TerminalStates(fsm) THEN fsm.terminal[s] ELSE "none"

\* dict.get(key, math.inf) on a compiled constraint map.
TimeoutOf(timeouts, key) == IF key \in DOMAIN timeouts THEN timeouts[key] ELSE Inf

(***************************************************************************)
(* What the constructor accepts (exactly one row without incoming edges,   *)
(* which takes the initial event; some terminal row; constraints on rows   *)
(* and edges that exist), plus the one thing it leaves to the user: that   *)
(* every target is itself a row of the table.                              *)
(***************************************************************************)
AreTimeouts(timeouts, keys) ==
    DOMAIN timeouts \subseteq keys /\ \A k \in DOMAIN timeouts : timeouts[k] \in Nat \ {0}

Edges(fsm) ==
    {p \in States(fsm) \X States(fsm) :
        \E e \in Events(fsm, p[1]) : TargetState(fsm, p[1], e) = p[2]}

IsStateMachine(fsm) ==
    /\ DOMAIN fsm.next \cap DOMAIN fsm.terminal = {}
    /\ DOMAIN fsm.terminal # {}
    /\ \A s \in DOMAIN fsm.terminal : fsm.terminal[s] \in {"OK", "ERROR"}
    /\ \A s \in DOMAIN fsm.next : \A e \in Events(fsm, s) :
            TargetState(fsm, s, e) \in States(fsm)
    /\ \E initial \in DOMAIN fsm.next :
            \A s \in States(fsm) : s # initial <=> HasIncomingEdge(fsm, s)
    /\ fsm.initial_event \in Events(fsm, InitialState(fsm))
    /\ AreTimeouts(fsm.heartbeat_timeouts, States(fsm))
    /\ AreTimeouts(fsm.transition_timeouts, Edges(fsm))
    /\ AreTimeouts(fsm.state_timeouts, States(fsm))
=============================================================================
