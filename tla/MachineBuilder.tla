--------------------------- MODULE MachineBuilder ---------------------------
(***************************************************************************)
(* From a transition table and a list of constraints to a machine and the  *)
(* life of a worker on it: the constructor of StateMachine (state.py), the *)
(* compilation of constraints (evaluator.py), the actors a worker finds    *)
(* for its states (worker.get_actor_func), its watcher's expectation, and  *)
(* what the pretty printer shows of it all (defaults.py).                  *)
(*                                                                         *)
(* The other modules assume a machine is a record for which IsStateMachine *)
(* holds. Here a table is whatever a user may write: rows missing, targets *)
(* that are no rows, several initial states, constraints on nothing.       *)
(* Activities are stamped 0, so a deadline is the timeout that set it.     *)
(***************************************************************************)
EXTENDS Evaluator, FiniteSets, Sequences

CONSTANTS
    Names,           \* the names of states
    EventNames,
    InitialEvent,
    Constraints,     \* the constraints a user may list: [kind, when, timeout]
    ActorSets,       \* sets of states for which the worker has an actor
    MaxConstraints   \* bound: the length of the list

ASSUME NamesAssumption == IsFiniteSet(Names)

\* A timeout is any number; Timeout.__post_init__ looks whether it is positive.
ASSUME ConstraintsAssumption ==
    Constraints \subseteq
        [kind : {"heartbeat", "state"}, when : Names, timeout : Int]
        \cup [kind : {"transition"}, when : Names \X Names, timeout : Int]

Row ==
    [kind : {"terminal"}, outcome : {"OK", "ERROR"}, next : {<<>>}]
    \cup [kind : {"ellipsis"}, outcome : {"none"}, next : {<<>>}]
    \cup [kind : {"dict"}, outcome : {"none"},
          next : UNION {[events -> Names] : events \in SUBSET EventNames}]

Tables == UNION {[rows -> Row] : rows \in SUBSET Names}

VARIABLES
    table,           \* the transitions given
    todo,            \* rows __build_states has not walked through
    initial_states,  \* its candidates for the initial state
    constraints,     \* the constraints verified so far
    pc,              \* "build", "verify", "rejected"; then "compile", "started", "loop",
                     \* "hooks" and how the loop ended
    timeouts,        \* the three dictionaries from_fsm fills
    compiled,        \* how many constraints it has taken
    actors,          \* the states for which the worker has an actor
    at,              \* the worker's _state
    edge,            \* the transition it is taking
    expectation      \* its evaluator's

vars == <<table, todo, initial_states, constraints, pc, timeouts, compiled, actors, at, edge,
          expectation>>

Init ==
    /\ table \in Tables /\ todo = DOMAIN table /\ initial_states = DOMAIN table
    /\ constraints = <<>>
    /\ timeouts = [kind \in {"heartbeat", "transition", "state"} |-> <<>>] /\ compiled = 0
    /\ pc = "build" /\ actors = {} /\ at = "nowhere" /\ edge = <<>> /\ expectation = <<>>

construction == <<table, todo, initial_states, constraints>>
compilation == <<timeouts, compiled>>
worker == <<actors, at, edge, expectation>>

IsDict(s) == s \in DOMAIN table /\ table[s].kind = "dict"

Targets(s) == {table[s].next[e] : e \in DOMAIN table[s].next}

Terminals == {s \in DOMAIN table : table[s].kind = "terminal"}

-----------------------------------------------------------------------------
(* StateMachine.__init__ *)

Reject ==
    /\ pc' = "rejected"
    /\ UNCHANGED <<constraints, compilation, worker>>

\* __build_states, in the order of the dictionary, whatever it is.
BuildRow(s) ==
    /\ pc = "build" /\ s \in todo /\ todo' = todo \ {s}
    /\ IF table[s].kind = "ellipsis" THEN Reject /\ UNCHANGED initial_states
       ELSE /\ initial_states' = initial_states \ Targets(s)
            /\ UNCHANGED <<constraints, pc, compilation, worker>>
    /\ UNCHANGED table

MutStatesBuiltUnchecked ==
    /\ pc = "build" /\ todo = {} /\ UNCHANGED <<table, todo, initial_states>>
    /\ IF initial_states = {} \/ Terminals = {}
       THEN Reject
       ELSE pc' = "verify" /\ UNCHANGED <<constraints, compilation, worker>>

StatesBuilt ==
    /\ pc = "build" /\ todo = {} /\ UNCHANGED <<table, todo, initial_states>>
    /\ IF Cardinality(initial_states) # 1 \/ Terminals = {}
       THEN Reject
       ELSE pc' = "verify" /\ UNCHANGED <<constraints, compilation, worker>>

\* A terminal source has no options either: asked for them it raises an error of
\* another class.
IsVerified(c) ==
    /\ c.timeout > 0
    /\ IF c.kind = "transition" THEN IsDict(c.when[1]) /\ c.when[2] \in Targets(c.when[1])
                                ELSE c.when \in DOMAIN table

\* A constraint is made (Timeout.__post_init__), listed and verified.
VerifyConstraint(c) ==
    /\ pc = "verify" /\ Len(constraints) < MaxConstraints
    /\ constraints' = Append(constraints, c)
    /\ pc' = IF IsVerified(c) THEN "verify" ELSE "rejected"
    /\ UNCHANGED <<table, todo, initial_states, compilation, worker>>

-----------------------------------------------------------------------------
(* The machine as the other modules know it: what from_fsm has compiled so far is part *)
(* of it. *)

Machine ==
    [initial_event |-> InitialEvent,
     next     |-> [s \in {r \in DOMAIN table : IsDict(r)} |-> table[s].next],
     terminal |-> [s \in Terminals |-> table[s].outcome],
     heartbeat_timeouts  |-> timeouts["heartbeat"],
     transition_timeouts |-> timeouts["transition"],
     state_timeouts      |-> timeouts["state"]]

TheInitialState == CHOOSE s \in initial_states : TRUE

\* The initial event is checked last. The worker that gets the machine starts in
\* the initial state, and so does its evaluator's expectation.
Constructed ==
    /\ pc = "verify"
    /\ IF IsDict(TheInitialState) /\ InitialEvent \in DOMAIN table[TheInitialState].next
       THEN /\ pc' = "compile" /\ actors' \in ActorSets
            /\ at' = TheInitialState /\ expectation' = NewExpectation(Machine)
            /\ UNCHANGED <<constraints, compilation, edge>>
       ELSE Reject
    /\ UNCHANGED <<table, todo, initial_states>>

-----------------------------------------------------------------------------
(* WorkerConstraints.from_fsm, for that expectation. *)

MutAssigned(maps, c) ==
    [maps EXCEPT ![c.kind] =
        [key \in DOMAIN @ \cup {c.when} |-> IF key \in DOMAIN @ THEN @[key] ELSE c.timeout]]

\* One turn of the loop: a later constraint on the same key wins.
Assigned(maps, c) ==
    [maps EXCEPT ![c.kind] =
        [key \in DOMAIN @ \cup {c.when} |-> IF key = c.when THEN c.timeout ELSE @[key]]]

Compile ==
    /\ pc = "compile" /\ compiled < Len(constraints) /\ compiled' = compiled + 1
    /\ timeouts' = Assigned(timeouts, constraints[compiled'])
    /\ UNCHANGED <<construction, pc, worker>>

Compiled ==
    /\ pc = "compile" /\ compiled = Len(constraints) /\ pc' = "started"
    /\ UNCHANGED <<construction, compilation, worker>>

-----------------------------------------------------------------------------
(* A worker on the machine: get_actor_func and the loop around it. *)

\* What the actor of the current state may return, apart from a keepalive: of the
\* initial state and of a state without actor it is the machine's choice.
Emits ==
    IF at = TheInitialState THEN {InitialEvent}
    ELSE IF at \in actors THEN EventNames
    ELSE IF Cardinality(Events(Machine, at)) = 1 THEN Events(Machine, at) ELSE {}

InLoop == pc = "loop" /\ at \notin TerminalStates(Machine)

Observe(kind, transition) ==
    expectation' = Record(Machine, expectation, kind, transition, 0)

\* The heartbeat that main_loop yields before anything else.
FirstBeat ==
    /\ pc = "started" /\ pc' = "loop"
    /\ Observe("heartbeat", <<>>)
    /\ UNCHANGED <<construction, compilation, actors, at, edge>>

Keepalive ==
    /\ InLoop /\ at # TheInitialState /\ at \in actors
    /\ Observe("heartbeat", <<>>)
    /\ UNCHANGED <<construction, compilation, pc, actors, at, edge>>

BeginTransition(e) ==
    /\ InLoop /\ e \in Emits /\ e \in Events(Machine, at)
    /\ edge' = <<at, TargetState(Machine, at, e)>> /\ pc' = "hooks"
    /\ Observe("transition_begin", edge')
    /\ UNCHANGED <<construction, compilation, actors, at>>

EndTransition ==
    /\ pc = "hooks" /\ pc' = "loop"
    /\ at' = edge[2] /\ edge' = <<>>
    /\ Observe("transition_end", edge)
    /\ UNCHANGED <<construction, compilation, actors>>

End(how) ==
    /\ pc' = how
    /\ UNCHANGED <<construction, compilation, worker>>

\* get_target_state knows no such transition.
InvalidEvent(e) == InLoop /\ e \in Emits \ Events(Machine, at) /\ End("raised")

\* There is neither an actor nor one event to fall back to.
NoActor == InLoop /\ Emits = {} /\ End("stranded")

LoopEnds == pc = "loop" /\ at \in TerminalStates(Machine) /\ End("finished")

Over == pc \in {"rejected", "raised", "stranded", "finished"} /\ UNCHANGED vars

Next ==
    \/ \E s \in Names : BuildRow(s)
    \/ StatesBuilt \/ Constructed \/ Compile \/ Compiled
    \/ \E c \in Constraints : VerifyConstraint(c)
    \/ FirstBeat \/ Keepalive \/ EndTransition \/ NoActor \/ LoopEnds
    \/ \E e \in EventNames : BeginTransition(e) \/ InvalidEvent(e)
    \/ Over

Spec == Init /\ [][Next]_vars

-----------------------------------------------------------------------------
(* DefaultFSNPrettyPrinter: what is printed, whatever the layout. *)

PrintedStates == DOMAIN table \cup UNION {Targets(s) : s \in DOMAIN table}

\* _constraint_print_hints: the printer's own dictionaries, filled from the machine's
\* constraints, where what is listed later on a key takes the place of what was before.
Hints(kind) ==
    LET listed == {i \in DOMAIN constraints : constraints[i].kind = kind}
        last(key) == CHOOSE i \in listed : /\ constraints[i].when = key
                                           /\ \A j \in listed : constraints[j].when = key => j <= i
    IN  [key \in {constraints[i].when : i \in listed} |-> constraints[last(key)].timeout]

\* The tags of states and the details of edges.
PrintedTimeouts ==
    {<<"keepalive", s, Hints("heartbeat")[s]>> :
        s \in PrintedStates \cap DOMAIN Hints("heartbeat")}
    \cup {<<"state_timeout", s, Hints("state")[s]>> :
        s \in PrintedStates \cap DOMAIN Hints("state")}
    \cup {<<"timeout", p, Hints("transition")[p]>> :
        p \in DOMAIN Hints("transition") \cap {q \in Names \X Names : q[2] \in Targets(q[1])}}

-----------------------------------------------------------------------------
(* Properties. *)

Accepted == pc \notin {"build", "verify", "rejected"}

\* The rules docs/source/advanced.md lists, asked of the table as a whole.
Unentered == {s \in DOMAIN table : \A r \in DOMAIN table : s \notin Targets(r)}

IsLegal ==
    /\ \A s \in DOMAIN table : table[s].kind # "ellipsis"
    /\ Cardinality(Unentered) = 1
    /\ \E s \in DOMAIN table : table[s].kind = "terminal"
    /\ \A s \in Unentered : IsDict(s) /\ InitialEvent \in DOMAIN table[s].next
    /\ \A i \in DOMAIN constraints : IsVerified(constraints[i])

IsClosed == \A s \in DOMAIN table : Targets(s) \subseteq DOMAIN table

\* The constructor walks the rows in the order they were written, discards targets
\* it has met from candidates it has not, and checks the initial event last. A table
\* and constraints are accepted exactly when they satisfy the rules as a whole:
\* neither the order of the rows nor that of the checks decides (state.py:43-99). And
\* what is accepted is a machine as the other modules assume one, but for the one
\* thing the constructor does not look at: that each target is a row (state.py:88).
ConstructorIsExact ==
    /\ Accepted => IsLegal /\ (IsClosed <=> IsStateMachine(Machine))
    /\ pc = "rejected" => ~IsLegal

\* The last constraint listed for a key, which is the one that counts.
Declared(kind, key) ==
    LET listed == {i \in DOMAIN constraints :
                    constraints[i].kind = kind /\ constraints[i].when = key}
    IN IF listed = {} THEN Inf
       ELSE constraints[CHOOSE i \in listed : \A j \in listed : j <= i].timeout

IsWhatWasDeclared ==
    /\ expectation.transition_deadline =
            IF pc = "hooks" THEN Declared("transition", edge) ELSE Inf
    /\ expectation.next_heartbeat =
            IF pc = "hooks" \/ at \in Terminals THEN Inf ELSE Declared("heartbeat", at)
    /\ expectation.state_expiry =
            IF pc = "hooks" \/ at \in Terminals \/ at = TheInitialState THEN Inf
            ELSE Declared("state", at)

IsPrinted ==
    /\ expectation.next_heartbeat # Inf =>
            <<"keepalive", at, expectation.next_heartbeat>> \in PrintedTimeouts
    /\ expectation.state_expiry # Inf =>
            <<"state_timeout", at, expectation.state_expiry>> \in PrintedTimeouts
    /\ expectation.transition_deadline # Inf =>
            <<"timeout", edge, expectation.transition_deadline>> \in PrintedTimeouts

\* Through any life of a worker on an accepted table, what its evaluator expects is
\* what was declared of where the worker is and of nothing else: the heartbeat and
\* the stay of the state, or the timeout of the edge (evaluator.py:40-105). Of the
\* initial state it expects the heartbeat alone, whatever was declared. And each
\* such deadline is on the page the printer makes of the machine, that of a target
\* that is no row included (defaults.py:76-160).
DeadlinesAreDeclared == pc \in {"loop", "hooks"} => IsWhatWasDeclared /\ IsPrinted

\* A worker is lost, that is without a next step in a state that is not terminal, only
\* where a look at the table and the actors would have told: at a target that is
\* no row, or at a row without actor and without a single event to fall back to.
\* Its evaluator stays where the worker is and never takes it for completed, so
\* its crash is answered by a restart (state.py:88, worker.py:230-252).
MissingRows == (UNION {Targets(s) : s \in DOMAIN table}) \ DOMAIN table

MuteRows ==
    {s \in DOMAIN table \ initial_states :
        IsDict(s) /\ s \notin actors /\ Cardinality(DOMAIN table[s].next) # 1}

Holes == MissingRows \cup MuteRows

LostOnlyInHoles ==
    /\ pc = "stranded" => at \in Holes
    /\ pc \in {"stranded", "raised"} =>
            /\ TerminalOutcome(Machine, expectation.state) = "none"
            /\ expectation.state = at

=============================================================================
