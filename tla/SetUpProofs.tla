----------------------------- MODULE SetUpProofs -----------------------------
(***************************************************************************)
(* What holds of construction, hooks, clones, registration and settings    *)
(* for every table, list of constraints, class body, signature, set of     *)
(* workers and class of settings. Each part has an invariant of its own    *)
(* variables; a step of another part leaves them alone.                    *)
(***************************************************************************)
EXTENDS SetUp, FiniteSetTheorems, SequenceTheorems, WellFoundedInduction, NaturalsInduction,
        TLAPS

-----------------------------------------------------------------------------
(* The constructor. What it has walked is a part of the table, and what it knows of the *)
(* initial state is what that part says of it. *)

Dicts == {r \in DOMAIN table : IsDict(r)}

IsEntered(s) == \E r \in DOMAIN table : s \in Targets(r)

TableInv ==
    /\ table \in Tables /\ todo \subseteq DOMAIN table
    /\ initial_states = {s \in DOMAIN table : \A r \in DOMAIN table \ todo : s \notin Targets(r)}
    /\ pc # "rejected" => \A s \in DOMAIN table \ todo : table[s].kind # "ellipsis"

ConstraintsInv ==
    /\ constraints \in Seq(Constraints)
    /\ pc # "rejected" => \A i \in DOMAIN constraints : IsVerified(constraints[i])

\* The walk is over and has found one initial state.
IsWalked == todo = {} /\ Cardinality(initial_states) = 1 /\ Terminals # {}

InitialIsRight ==
    IsDict(TheInitialState) /\ InitialEvent \in DOMAIN table[TheInitialState].next

AcceptedPhases == {"compile", "started", "loop", "hooks", "raised", "stranded", "finished"}

ControlInv ==
    /\ pc \in {"build", "verify", "rejected"} \cup AcceptedPhases
    /\ pc \in {"verify"} \cup AcceptedPhases => IsWalked
    /\ pc \in AcceptedPhases => InitialIsRight
    /\ pc = "rejected" => ~IsLegal

TimeoutKinds == {"heartbeat", "transition", "state"}

IsOf(c, kind, key) == c.kind = kind /\ c.when = key

\* i is the last of the constraints taken that is on this key.
IsLastOf(i, kind, key) ==
    /\ i \in 1..compiled /\ IsOf(constraints[i], kind, key)
    /\ \A j \in 1..compiled : IsOf(constraints[j], kind, key) => j <= i

CompileInv ==
    /\ compiled \in 0..Len(constraints)
    /\ pc \in AcceptedPhases \ {"compile"} => compiled = Len(constraints)
    /\ pc \notin AcceptedPhases => compiled = 0
    /\ DOMAIN timeouts = TimeoutKinds
    /\ \A i \in 1..compiled : constraints[i].when \in DOMAIN timeouts[constraints[i].kind]
    /\ \A kind \in TimeoutKinds : \A key \in DOMAIN timeouts[kind] :
            \E i \in 1..compiled : IsLastOf(i, kind, key)
                                   /\ timeouts[kind][key] = constraints[i].timeout

ConstructionInv == TableInv /\ ConstraintsInv /\ ControlInv /\ CompileInv

-----------------------------------------------------------------------------
(* Of one table. *)

LEMMA RowsOfTable ==
    ASSUME table \in Tables
    PROVE  /\ DOMAIN table \subseteq Names
           /\ \A s \in DOMAIN table : table[s].kind \in {"terminal", "ellipsis", "dict"}
           /\ \A s \in DOMAIN table : table[s].kind # "dict" => DOMAIN table[s].next = {}
           /\ \A s \in DOMAIN table : table[s].kind = "dict" =>
                /\ DOMAIN table[s].next \subseteq EventNames
                /\ \A e \in DOMAIN table[s].next : table[s].next[e] \in Names
           /\ \A s \in DOMAIN table : table[s].kind = "terminal" =>
                table[s].outcome \in {"OK", "ERROR"}
<1>1. PICK rows \in SUBSET Names : table \in [rows -> Row]
  BY DEF Tables
<1>2. DOMAIN table \subseteq Names /\ \A s \in DOMAIN table : table[s] \in Row
  BY <1>1
<1>3. ASSUME NEW row \in Row
      PROVE  /\ row.kind \in {"terminal", "ellipsis", "dict"}
             /\ row.kind # "dict" => row.next = <<>>
             /\ row.kind = "dict" =>
                    \E events \in SUBSET EventNames : row.next \in [events -> Names]
             /\ row.kind = "terminal" => row.outcome \in {"OK", "ERROR"}
  BY DEF Row
<1>4. DOMAIN <<>> = {}
  OBVIOUS
<1>5. ASSUME NEW s \in DOMAIN table, table[s].kind = "dict"
      PROVE  /\ DOMAIN table[s].next \subseteq EventNames
             /\ \A e \in DOMAIN table[s].next : table[s].next[e] \in Names
  <2>1. PICK events \in SUBSET EventNames : table[s].next \in [events -> Names]
    BY <1>2, <1>3, <1>5
  <2> QED BY <2>1
<1> QED BY <1>2, <1>3, <1>4, <1>5

LEMMA TargetsOfRows ==
    ASSUME table \in Tables
    PROVE  /\ \A s \in DOMAIN table : Targets(s) \subseteq Names
           /\ \A s \in DOMAIN table : ~IsDict(s) => Targets(s) = {}
<1>1. ASSUME NEW s \in DOMAIN table
      PROVE  Targets(s) \subseteq Names
  <2>1. CASE table[s].kind = "dict"
    BY <2>1, RowsOfTable DEF Targets
  <2>2. CASE table[s].kind # "dict"
    BY <2>2, RowsOfTable DEF Targets
  <2> QED BY <2>1, <2>2
<1>2. ASSUME NEW s \in DOMAIN table, ~IsDict(s)
      PROVE  Targets(s) = {}
  BY <1>2, RowsOfTable DEF IsDict, Targets
<1> QED BY <1>1, <1>2

LEMMA TableStays ==
    ASSUME UNCHANGED table
    PROVE  /\ \A s : Targets(s)' = Targets(s) /\ (IsDict(s)' <=> IsDict(s))
           /\ Terminals' = Terminals /\ Unentered' = Unentered
           /\ \A c : IsVerified(c)' <=> IsVerified(c)
<1>1. \A s : Targets(s)' = Targets(s) /\ (IsDict(s)' <=> IsDict(s))
  BY DEF Targets, IsDict
<1>2. Terminals' = Terminals /\ Unentered' = Unentered
  BY <1>1 DEF Terminals, Unentered
<1> QED BY <1>1, <1>2 DEF IsVerified

LEMMA TheInitialIsOne ==
    ASSUME TableInv, IsWalked
    PROVE  /\ initial_states = {TheInitialState} /\ initial_states = Unentered
           /\ TheInitialState \in DOMAIN table
           /\ \A s \in DOMAIN table : s = TheInitialState <=> ~IsEntered(s)
<1>1. initial_states = Unentered
  BY DEF TableInv, IsWalked, Unentered
<1>2. IsFiniteSet(initial_states)
  <2>1. initial_states \subseteq Names
    BY RowsOfTable DEF TableInv
  <2> QED BY <2>1, NamesAssumption, FS_Subset
<1>3. PICK s : initial_states = {s}
  BY <1>2, FS_Singleton DEF IsWalked
<1>4. initial_states = {TheInitialState}
  BY <1>3 DEF TheInitialState
<1>5. TheInitialState \in DOMAIN table
  BY <1>1, <1>4 DEF Unentered
<1>6. \A r \in DOMAIN table : r = TheInitialState <=> ~IsEntered(r)
  BY <1>1, <1>4 DEF Unentered, IsEntered
<1> QED BY <1>1, <1>4, <1>5, <1>6

\* A machine asked what its table says.
LEMMA QueriesOfMachine ==
    ASSUME TableInv, IsWalked, pc # "rejected"
    PROVE  /\ TerminalStates(Machine) = Terminals /\ States(Machine) = DOMAIN table
           /\ DOMAIN Machine.next = Dicts /\ DOMAIN Machine.terminal = Terminals
           /\ \A s \in Dicts : Events(Machine, s) = DOMAIN table[s].next
           /\ \A s : s \notin Dicts => Events(Machine, s) = {}
           /\ \A s \in Dicts : \A e : TargetState(Machine, s, e) = table[s].next[e]
           /\ \A s \in Terminals : Machine.terminal[s] = table[s].outcome
           /\ Machine.initial_event = InitialEvent
           /\ Machine.heartbeat_timeouts = timeouts["heartbeat"]
           /\ Machine.transition_timeouts = timeouts["transition"]
           /\ Machine.state_timeouts = timeouts["state"]
<1> DEFINE nexts == [s \in Dicts |-> table[s].next]
           terminals == [s \in Terminals |-> table[s].outcome]
<1>1. /\ Machine.next = nexts /\ Machine.terminal = terminals
      /\ Machine.initial_event = InitialEvent
      /\ Machine.heartbeat_timeouts = timeouts["heartbeat"]
      /\ Machine.transition_timeouts = timeouts["transition"]
      /\ Machine.state_timeouts = timeouts["state"]
  BY DEF Machine, Dicts
<1>2. DOMAIN nexts = Dicts /\ \A s \in Dicts : nexts[s] = table[s].next
  OBVIOUS
<1>3. DOMAIN terminals = Terminals /\ \A s \in Terminals : terminals[s] = table[s].outcome
  OBVIOUS
<1>4. Dicts \cup Terminals = DOMAIN table
  <2>1. \A s \in DOMAIN table : table[s].kind \in {"terminal", "dict"}
    BY RowsOfTable DEF TableInv, IsWalked
  <2> QED BY <2>1 DEF Dicts, IsDict, Terminals
<1> HIDE DEF nexts, terminals
<1> QED BY <1>1, <1>2, <1>3, <1>4 DEF TerminalStates, States, Events, TargetState

LEMMA IncomingIsEntered ==
    ASSUME TableInv, IsWalked, pc # "rejected"
    PROVE  \A s : HasIncomingEdge(Machine, s) <=> IsEntered(s)
<1> TAKE s
<1>1. HasIncomingEdge(Machine, s)
        <=> \E r \in Dicts : \E e \in DOMAIN table[r].next : table[r].next[e] = s
  BY QueriesOfMachine DEF HasIncomingEdge
<1>2. IsEntered(s) <=> \E r \in Dicts : s \in Targets(r)
  BY TargetsOfRows DEF IsEntered, Dicts, TableInv
<1> QED BY <1>1, <1>2 DEF Targets

LEMMA InitialStateIsRight ==
    ASSUME TableInv, IsWalked, pc # "rejected", IsDict(TheInitialState)
    PROVE  InitialState(Machine) = TheInitialState
<1>1. \A s \in Dicts : ~HasIncomingEdge(Machine, s) <=> s = TheInitialState
  BY TheInitialIsOne, IncomingIsEntered DEF Dicts
<1>2. TheInitialState \in Dicts
  BY TheInitialIsOne DEF Dicts
<1>3. InitialState(Machine) = CHOOSE s \in Dicts : ~HasIncomingEdge(Machine, s)
  BY QueriesOfMachine DEF InitialState
<1> QED BY <1>1, <1>2, <1>3

-----------------------------------------------------------------------------
(* The steps of the construction. *)

LEMMA BuildRowKeeps ==
    ASSUME ConstructionInv, NEW s \in Names, BuildRow(s)
    PROVE  ConstructionInv'
<1>1. /\ pc = "build" /\ s \in todo /\ todo' = todo \ {s}
      /\ UNCHANGED <<table, constraints, compilation>>
  BY DEF BuildRow, Reject
<1>2. s \in DOMAIN table /\ table \in Tables
  BY <1>1 DEF ConstructionInv, TableInv
<1>3. CompileInv'
  <2>1. UNCHANGED <<timeouts, compiled, constraints>> /\ pc' \in {"build", "rejected"}
    BY <1>1 DEF BuildRow, Reject, compilation
  <2> QED BY <1>1, <2>1 DEF ConstructionInv, CompileInv, IsLastOf, AcceptedPhases
<1>4. CASE table[s].kind = "ellipsis"
  <2>1. pc' = "rejected" /\ initial_states' = initial_states
    BY <1>4 DEF BuildRow, Reject
  <2>2. Targets(s) = {}
    BY <1>2, <1>4, TargetsOfRows DEF IsDict
  <2>3. TableInv'
    BY <1>1, <1>2, <2>1, <2>2, TableStays DEF ConstructionInv, TableInv
  <2>4. ~IsLegal'
    BY <1>1, <1>2, <1>4 DEF IsLegal
  <2> QED BY <1>1, <1>3, <2>1, <2>3, <2>4
          DEF ConstructionInv, ConstraintsInv, ControlInv, AcceptedPhases
<1>5. CASE table[s].kind # "ellipsis"
  <2>1. pc' = "build" /\ initial_states' = initial_states \ Targets(s)
    BY <1>1, <1>5 DEF BuildRow
  <2>2. TableInv'
    BY <1>1, <1>2, <1>5, <2>1, TableStays DEF ConstructionInv, TableInv
  <2>3. ConstraintsInv'
    BY <1>1, <2>1, TableStays DEF ConstructionInv, ConstraintsInv
  <2> QED BY <1>3, <2>1, <2>2, <2>3 DEF ConstructionInv, ControlInv, AcceptedPhases
<1> QED BY <1>4, <1>5

\* A rejection that leaves the table, and what has been taken of the constraints.
LEMMA RejectKeeps ==
    ASSUME ConstructionInv, UNCHANGED <<construction, compilation>>, pc \notin AcceptedPhases,
           pc' = "rejected", ~IsLegal'
    PROVE  ConstructionInv'
<1>1. UNCHANGED <<table, todo, initial_states, constraints, timeouts, compiled>>
  BY DEF construction, compilation
<1>2. TableInv'
  BY <1>1, TableStays DEF ConstructionInv, TableInv
<1>3. ConstraintsInv' /\ ControlInv'
  BY <1>1 DEF ConstructionInv, ConstraintsInv, ControlInv, AcceptedPhases
<1>4. CompileInv'
  BY <1>1 DEF ConstructionInv, CompileInv, IsLastOf, AcceptedPhases
<1> QED BY <1>2, <1>3, <1>4 DEF ConstructionInv

\* A step on which there is nothing to reject.
LEMMA ProceedKeeps ==
    ASSUME ConstructionInv, UNCHANGED <<construction, compilation>>,
           pc # "rejected", pc' \in {"verify"} \cup AcceptedPhases, IsWalked,
           pc' \in AcceptedPhases => InitialIsRight,
           pc' = "verify" => compiled = 0,
           pc' \in AcceptedPhases \ {"compile"} => compiled = Len(constraints)
    PROVE  ConstructionInv'
<1>1. UNCHANGED <<table, todo, initial_states, constraints, timeouts, compiled>>
  BY DEF construction, compilation
<1>2. TableInv'
  BY <1>1, TableStays DEF ConstructionInv, TableInv, AcceptedPhases
<1>3. ConstraintsInv'
  BY <1>1, TableStays DEF ConstructionInv, ConstraintsInv
<1>4. IsWalked' /\ TheInitialState' = TheInitialState
  BY <1>1, TableStays DEF IsWalked, TheInitialState
<1>5. pc' \in AcceptedPhases => InitialIsRight'
  BY <1>1, <1>4, TableStays DEF InitialIsRight
<1>6. ControlInv'
  BY <1>4, <1>5 DEF ControlInv, AcceptedPhases
<1>7. CompileInv'
  BY <1>1 DEF ConstructionInv, CompileInv, IsLastOf, AcceptedPhases
<1> QED BY <1>2, <1>3, <1>6, <1>7 DEF ConstructionInv

LEMMA StatesBuiltKeeps ==
    ASSUME ConstructionInv, StatesBuilt
    PROVE  ConstructionInv'
<1>1. /\ pc = "build" /\ todo = {} /\ UNCHANGED <<construction, compilation>>
      /\ UNCHANGED table
  BY DEF StatesBuilt, Reject, construction
<1>2. initial_states = Unentered /\ compiled = 0
  BY <1>1 DEF ConstructionInv, TableInv, CompileInv, Unentered, AcceptedPhases
<1>3. CASE Cardinality(initial_states) # 1 \/ Terminals = {}
  <2>1. pc' = "rejected"
    BY <1>3 DEF StatesBuilt, Reject
  <2>2. ~(Cardinality(Unentered') = 1 /\ \E s \in DOMAIN table : table[s].kind = "terminal")
    BY <1>1, <1>2, <1>3, TableStays DEF Terminals
  <2>3. ~IsLegal'
    BY <1>1, <2>2 DEF IsLegal
  <2> QED BY <1>1, <2>1, <2>3, RejectKeeps DEF AcceptedPhases
<1>4. CASE ~(Cardinality(initial_states) # 1 \/ Terminals = {})
  <2>1. pc' = "verify" /\ IsWalked
    BY <1>1, <1>4 DEF StatesBuilt, IsWalked
  <2> QED BY <1>1, <1>2, <2>1, ProceedKeeps DEF AcceptedPhases
<1> QED BY <1>3, <1>4

LEMMA VerifyConstraintKeeps ==
    ASSUME ConstructionInv, NEW c \in Constraints, VerifyConstraint(c)
    PROVE  ConstructionInv'
<1>1. /\ pc = "verify" /\ constraints' = Append(constraints, c)
      /\ pc' \in {"verify", "rejected"} /\ (pc' = "rejected" <=> ~IsVerified(c))
      /\ UNCHANGED <<table, todo, initial_states, timeouts, compiled>>
  BY DEF VerifyConstraint, compilation
<1>2. /\ constraints \in Seq(Constraints) /\ constraints' \in Seq(Constraints)
      /\ \A i \in DOMAIN constraints' :
            constraints'[i] = IF i \in DOMAIN constraints THEN constraints[i] ELSE c
      /\ Len(constraints') \in DOMAIN constraints' /\ constraints'[Len(constraints')] = c
      /\ Len(constraints) \in Nat /\ Len(constraints') = Len(constraints) + 1
  BY <1>1 DEF ConstructionInv, ConstraintsInv
<1>3. compiled = 0 /\ IsWalked /\ \A i \in DOMAIN constraints : IsVerified(constraints[i])
  BY <1>1 DEF ConstructionInv, CompileInv, ControlInv, ConstraintsInv, AcceptedPhases
<1>4. TableInv'
  BY <1>1, TableStays DEF ConstructionInv, TableInv
<1>5. CompileInv'
  <2>1. \A i \in 1..compiled : FALSE
    BY <1>3
  <2>2. \A kind \in TimeoutKinds : DOMAIN timeouts[kind] = {}
    BY <2>1 DEF ConstructionInv, CompileInv
  <2> QED BY <1>1, <1>2, <1>3, <2>1, <2>2 DEF ConstructionInv, CompileInv, AcceptedPhases
<1>6. IsWalked'
  BY <1>1, <1>3, TableStays DEF IsWalked
<1>7. CASE IsVerified(c)
  <2>1. pc' = "verify"
    BY <1>1, <1>7
  <2>2. ConstraintsInv'
    BY <1>1, <1>2, <1>3, <1>7, TableStays DEF ConstraintsInv
  <2> QED BY <1>4, <1>5, <1>6, <2>1, <2>2 DEF ConstructionInv, ControlInv, AcceptedPhases
<1>8. CASE ~IsVerified(c)
  <2>1. pc' = "rejected"
    BY <1>1, <1>8
  <2>2. ~IsVerified(constraints[Len(constraints)])'
    BY <1>1, <1>2, <1>8, TableStays
  <2>3. ~IsLegal'
    BY <1>2, <2>2 DEF IsLegal
  <2> QED BY <1>2, <1>4, <1>5, <2>1, <2>3
          DEF ConstructionInv, ConstraintsInv, ControlInv, AcceptedPhases
<1> QED BY <1>7, <1>8

LEMMA ConstructedKeeps ==
    ASSUME ConstructionInv, Constructed
    PROVE  ConstructionInv'
<1>1. /\ pc = "verify" /\ UNCHANGED <<construction, compilation>> /\ UNCHANGED table
  BY DEF Constructed, Reject, construction
<1>2. IsWalked /\ compiled = 0
  BY <1>1 DEF ConstructionInv, ControlInv, CompileInv, AcceptedPhases
<1>3. CASE InitialIsRight
  <2>1. pc' = "compile"
    BY <1>3 DEF Constructed, InitialIsRight
  <2> QED BY <1>1, <1>2, <1>3, <2>1, ProceedKeeps DEF AcceptedPhases
<1>4. CASE ~InitialIsRight
  <2>1. pc' = "rejected"
    BY <1>4 DEF Constructed, InitialIsRight, Reject
  <2>2. TheInitialState \in Unentered
    BY <1>2, TheInitialIsOne DEF ConstructionInv
  <2>3. ~IsLegal'
    BY <1>1, <1>4, <2>2, TableStays DEF IsLegal, InitialIsRight
  <2> QED BY <1>1, <2>1, <2>3, RejectKeeps DEF AcceptedPhases
<1> QED BY <1>3, <1>4

\* One constraint more: its key gets its timeout, and it is the last on that key.
LEMMA CompileKeeps ==
    ASSUME ConstructionInv, Compile
    PROVE  ConstructionInv'
<1> DEFINE c == constraints[compiled + 1]
<1>1. /\ pc = "compile" /\ pc' = "compile" /\ compiled < Len(constraints)
      /\ compiled' = compiled + 1 /\ timeouts' = Assigned(timeouts, c)
      /\ UNCHANGED <<table, todo, initial_states, constraints>>
  BY DEF Compile, construction
<1>2. compiled \in Nat /\ Len(constraints) \in Nat /\ constraints \in Seq(Constraints)
  BY DEF ConstructionInv, CompileInv, ConstraintsInv
<1>3. compiled + 1 \in DOMAIN constraints /\ c \in Constraints
  BY <1>1, <1>2
<1>4. c.kind \in TimeoutKinds
  BY <1>3, ConstraintsAssumption DEF TimeoutKinds
<1>5. /\ DOMAIN timeouts' = DOMAIN timeouts
      /\ \A kind \in TimeoutKinds \ {c.kind} : timeouts'[kind] = timeouts[kind]
      /\ timeouts'[c.kind] = [key \in DOMAIN timeouts[c.kind] \cup {c.when} |->
                                IF key = c.when THEN c.timeout ELSE timeouts[c.kind][key]]
  BY <1>1, <1>4 DEF Assigned, ConstructionInv, CompileInv
<1>6. TableInv'
  BY <1>1, TableStays DEF ConstructionInv, TableInv
<1>7. ConstraintsInv'
  BY <1>1, TableStays DEF ConstructionInv, ConstraintsInv
<1>8. ControlInv'
  <2>1. IsWalked' /\ InitialIsRight'
    BY <1>1, TableStays
       DEF ConstructionInv, ControlInv, IsWalked, InitialIsRight, TheInitialState, AcceptedPhases
  <2> QED BY <1>1, <2>1 DEF ControlInv, AcceptedPhases
<1>9. \A i \in 1..compiled' : i \in 1..compiled \/ i = compiled + 1
  BY <1>1, <1>2
<1> HIDE DEF c
<1>10. \A i \in 1..compiled' : constraints'[i].when \in DOMAIN timeouts'[constraints'[i].kind]
  <2> SUFFICES ASSUME NEW i \in 1..compiled'
               PROVE  constraints[i].when \in DOMAIN timeouts'[constraints[i].kind]
    BY <1>1
  <2>1. CASE i \in 1..compiled
    <3>1. constraints[i].when \in DOMAIN timeouts[constraints[i].kind]
      BY <2>1 DEF ConstructionInv, CompileInv
    <3>2. constraints[i].kind \in TimeoutKinds
      <4>1. constraints[i] \in Constraints
        BY <1>1, <1>2, <2>1
      <4> QED BY <4>1, ConstraintsAssumption DEF TimeoutKinds
    <3> QED BY <1>5, <3>1, <3>2
  <2>2. CASE i = compiled + 1
    BY <1>5, <2>2 DEF c
  <2> QED BY <1>9, <2>1, <2>2
<1>11. ASSUME NEW kind \in TimeoutKinds, NEW key \in DOMAIN timeouts'[kind]
       PROVE  \E i \in 1..compiled' : IsLastOf(i, kind, key)'
                                      /\ timeouts'[kind][key] = constraints'[i].timeout
  <2>1. CASE IsOf(c, kind, key)
    <3>1. timeouts'[kind][key] = c.timeout
      BY <1>5, <1>11, <2>1 DEF IsOf
    <3>2. PICK i : i = compiled + 1
      OBVIOUS
    <3>3. i \in 1..compiled' /\ \A j \in 1..compiled' : j <= i
      BY <1>1, <1>2, <3>2
    <3>4. constraints'[i] = c
      BY <1>1, <3>2 DEF c
    <3>5. IsLastOf(i, kind, key)'
      BY <2>1, <3>3, <3>4 DEF IsLastOf, IsOf
    <3> QED BY <3>1, <3>3, <3>4, <3>5
  <2>2. CASE ~IsOf(c, kind, key)
    <3>1. key \in DOMAIN timeouts[kind] /\ timeouts'[kind][key] = timeouts[kind][key]
      BY <1>4, <1>5, <2>2 DEF IsOf
    <3>2. PICK i \in 1..compiled : IsLastOf(i, kind, key)
                                   /\ timeouts[kind][key] = constraints[i].timeout
      BY <3>1 DEF ConstructionInv, CompileInv
    <3>3. i \in 1..compiled'
      BY <1>1, <1>2
    <3>4. IsLastOf(i, kind, key)'
      BY <1>1, <1>9, <2>2, <3>2, <3>3 DEF IsLastOf, IsOf, c
    <3> QED BY <1>1, <3>1, <3>2, <3>3, <3>4
  <2> QED BY <2>1, <2>2
<1>12. CompileInv'
  <2>1. compiled' \in 0..Len(constraints')
    BY <1>1, <1>2
  <2> QED BY <1>1, <1>5, <1>10, <1>11, <2>1 DEF ConstructionInv, CompileInv, AcceptedPhases
<1> QED BY <1>6, <1>7, <1>8, <1>12 DEF ConstructionInv

LEMMA CompiledKeeps ==
    ASSUME ConstructionInv, Compiled
    PROVE  ConstructionInv'
<1>1. /\ pc = "compile" /\ pc' = "started" /\ compiled = Len(constraints)
      /\ UNCHANGED <<construction, compilation>>
  BY DEF Compiled
<1> QED BY <1>1, ProceedKeeps DEF ConstructionInv, ControlInv, AcceptedPhases

\* A step of the worker.
LEMMA WorkerKeepsConstruction ==
    ASSUME ConstructionInv, UNCHANGED <<construction, compilation>>,
           pc \in AcceptedPhases \ {"compile"}, pc' \in AcceptedPhases \ {"compile"}
    PROVE  ConstructionInv'
BY ProceedKeeps DEF ConstructionInv, ControlInv, CompileInv, AcceptedPhases

-----------------------------------------------------------------------------
(* What has been accepted. *)

LEMMA AcceptedAreLegal ==
    ASSUME ConstructionInv, pc \in AcceptedPhases
    PROVE  IsLegal
<1>1. IsWalked /\ InitialIsRight /\ TableInv /\ pc # "rejected"
  BY DEF ConstructionInv, ControlInv, AcceptedPhases
<1>2. Unentered = {TheInitialState} /\ initial_states = Unentered
  BY <1>1, TheInitialIsOne
<1>3. \A s \in DOMAIN table : table[s].kind # "ellipsis"
  BY <1>1 DEF TableInv, IsWalked
<1>4. \E s \in DOMAIN table : table[s].kind = "terminal"
  BY <1>1 DEF IsWalked, Terminals
<1>5. \A i \in DOMAIN constraints : IsVerified(constraints[i])
  BY <1>1 DEF ConstructionInv, ConstraintsInv
<1>6. Cardinality(Unentered) = 1
  BY <1>1, <1>2 DEF IsWalked
<1>7. \A s \in Unentered : IsDict(s) /\ InitialEvent \in DOMAIN table[s].next
  BY <1>1, <1>2 DEF InitialIsRight
<1> QED BY <1>3, <1>4, <1>5, <1>6, <1>7 DEF IsLegal

\* A compiled timeout is that of a constraint that has been verified.
LEMMA TimeoutsAreVerified ==
    ASSUME ConstructionInv, pc # "rejected", NEW kind \in TimeoutKinds,
           NEW key \in DOMAIN timeouts[kind]
    PROVE  /\ timeouts[kind][key] \in Nat \ {0}
           /\ kind = "transition" => /\ key \in Names \X Names /\ IsDict(key[1])
                                     /\ key[2] \in Targets(key[1])
           /\ kind # "transition" => key \in DOMAIN table
<1>1. PICK i \in 1..compiled : IsLastOf(i, kind, key)
                               /\ timeouts[kind][key] = constraints[i].timeout
  BY DEF ConstructionInv, CompileInv
<1>2. i \in DOMAIN constraints /\ constraints[i] \in Constraints
  BY <1>1 DEF ConstructionInv, ConstraintsInv, CompileInv
<1>3. IsVerified(constraints[i]) /\ constraints[i].kind = kind /\ constraints[i].when = key
  BY <1>1, <1>2 DEF ConstructionInv, ConstraintsInv, IsLastOf, IsOf
<1>4. /\ constraints[i].timeout \in Int
      /\ constraints[i].kind = "transition" => constraints[i].when \in Names \X Names
  BY <1>2, ConstraintsAssumption
<1> QED BY <1>1, <1>3, <1>4 DEF IsVerified

LEMMA ClosedAreMachines ==
    ASSUME ConstructionInv, pc \in AcceptedPhases, IsClosed
    PROVE  IsStateMachine(Machine)
<1>1. IsWalked /\ InitialIsRight /\ TableInv /\ pc # "rejected"
  BY DEF ConstructionInv, ControlInv, AcceptedPhases
<1>2. /\ TerminalStates(Machine) = Terminals /\ States(Machine) = DOMAIN table
      /\ DOMAIN Machine.next = Dicts /\ DOMAIN Machine.terminal = Terminals
      /\ \A s \in Dicts : Events(Machine, s) = DOMAIN table[s].next
      /\ \A s \in Dicts : \A e : TargetState(Machine, s, e) = table[s].next[e]
      /\ \A s \in Terminals : Machine.terminal[s] = table[s].outcome
      /\ Machine.initial_event = InitialEvent
      /\ Machine.heartbeat_timeouts = timeouts["heartbeat"]
      /\ Machine.transition_timeouts = timeouts["transition"]
      /\ Machine.state_timeouts = timeouts["state"]
  BY <1>1, QueriesOfMachine
<1>3. \A s \in Dicts : \A e \in DOMAIN table[s].next : table[s].next[e] \in DOMAIN table
  BY DEF IsClosed, Dicts, Targets
<1>4. DOMAIN Machine.next \cap DOMAIN Machine.terminal = {} /\ DOMAIN Machine.terminal # {}
  BY <1>1, <1>2 DEF Dicts, IsDict, Terminals, IsWalked
<1>5. \A s \in DOMAIN Machine.terminal : Machine.terminal[s] \in {"OK", "ERROR"}
  BY <1>1, <1>2, RowsOfTable DEF Terminals, TableInv
<1>6. \A s \in DOMAIN Machine.next : \A e \in Events(Machine, s) :
            TargetState(Machine, s, e) \in States(Machine)
  BY <1>2, <1>3
<1>7. \E initial \in DOMAIN Machine.next :
            \A s \in States(Machine) : s # initial <=> HasIncomingEdge(Machine, s)
  <2>1. TheInitialState \in Dicts
    BY <1>1, TheInitialIsOne DEF InitialIsRight, Dicts
  <2>2. \A s \in DOMAIN table : s # TheInitialState <=> HasIncomingEdge(Machine, s)
    BY <1>1, TheInitialIsOne, IncomingIsEntered
  <2> QED BY <1>2, <2>1, <2>2
<1>8. Machine.initial_event \in Events(Machine, InitialState(Machine))
  <2>1. InitialState(Machine) = TheInitialState /\ TheInitialState \in Dicts
    BY <1>1, InitialStateIsRight, TheInitialIsOne DEF InitialIsRight, Dicts
  <2> QED BY <1>1, <1>2, <2>1 DEF InitialIsRight
<1>9. AreTimeouts(Machine.heartbeat_timeouts, States(Machine))
  <2>1. \A key \in DOMAIN timeouts["heartbeat"] :
            key \in DOMAIN table /\ timeouts["heartbeat"][key] \in Nat \ {0}
    BY <1>1, TimeoutsAreVerified DEF TimeoutKinds
  <2> QED BY <1>2, <2>1 DEF AreTimeouts
<1>10. AreTimeouts(Machine.state_timeouts, States(Machine))
  <2>1. \A key \in DOMAIN timeouts["state"] :
            key \in DOMAIN table /\ timeouts["state"][key] \in Nat \ {0}
    BY <1>1, TimeoutsAreVerified DEF TimeoutKinds
  <2> QED BY <1>2, <2>1 DEF AreTimeouts
<1>11. AreTimeouts(Machine.transition_timeouts, Edges(Machine))
  <2>1. ASSUME NEW key \in DOMAIN timeouts["transition"]
        PROVE  key \in Edges(Machine) /\ timeouts["transition"][key] \in Nat \ {0}
    <3>1. /\ key \in Names \X Names /\ IsDict(key[1]) /\ key[2] \in Targets(key[1])
          /\ timeouts["transition"][key] \in Nat \ {0}
      BY <1>1, TimeoutsAreVerified DEF TimeoutKinds
    <3>2. key[1] \in DOMAIN table /\ key[1] \in Dicts
      BY <3>1 DEF IsDict, Dicts
    <3>3. PICK e \in DOMAIN table[key[1]].next : table[key[1]].next[e] = key[2]
      BY <3>1 DEF Targets
    <3>4. e \in Events(Machine, key[1]) /\ TargetState(Machine, key[1], e) = key[2]
      BY <1>2, <3>2, <3>3
    <3>5. key \in States(Machine) \X States(Machine)
      BY <1>2, <1>3, <3>1, <3>2, <3>3
    <3> QED BY <3>1, <3>4, <3>5 DEF Edges
  <2> QED BY <1>2, <2>1 DEF AreTimeouts
<1> QED BY <1>4, <1>5, <1>6, <1>7, <1>8, <1>9, <1>10, <1>11 DEF IsStateMachine

LEMMA MachinesAreClosed ==
    ASSUME ConstructionInv, pc \in AcceptedPhases, IsStateMachine(Machine)
    PROVE  IsClosed
<1>1. IsWalked /\ TableInv /\ pc # "rejected"
  BY DEF ConstructionInv, ControlInv, AcceptedPhases
<1>2. \A s \in DOMAIN Machine.next : \A e \in Events(Machine, s) :
            TargetState(Machine, s, e) \in States(Machine)
  BY DEF IsStateMachine
<1>3. \A s \in Dicts : Targets(s) \subseteq DOMAIN table
  BY <1>1, <1>2, QueriesOfMachine DEF Targets
<1>4. \A s \in DOMAIN table : s \notin Dicts => Targets(s) = {}
  BY <1>1, TargetsOfRows DEF TableInv, Dicts
<1> QED BY <1>3, <1>4 DEF IsClosed

-----------------------------------------------------------------------------
(* A life of a worker on the machine: what its evaluator expects is a function of where *)
(* the worker is and of the compiled timeouts. *)

Armed(kind, key) == TimeoutOf(timeouts[kind], key)

ExpectationOf(state, transition, heartbeat, stay) ==
    [state |-> state, transition_deadline |-> transition, next_heartbeat |-> heartbeat,
     state_expiry |-> stay]

InState == {"loop", "raised", "stranded", "finished"}

\* Of the initial state the heartbeat alone.
ExpectationIsRight ==
    /\ pc \in {"compile", "started"} => expectation = ExpectationOf(at, Inf, Inf, Inf)
    /\ pc \in InState =>
            expectation = ExpectationOf(at, Inf,
                IF at \in Terminals THEN Inf ELSE Armed("heartbeat", at),
                IF at \in Terminals \/ at = TheInitialState THEN Inf ELSE Armed("state", at))
    /\ pc = "hooks" => expectation = ExpectationOf(at, Armed("transition", edge), Inf, Inf)

WorkerIsSomewhere ==
    /\ pc \in {"compile", "started"} => at = TheInitialState
    /\ pc \in AcceptedPhases => at \in PrintedStates
    /\ pc = "hooks" => /\ IsDict(at) /\ edge = <<at, edge[2]>> /\ edge[2] \in Targets(at)
    /\ pc \in {"stranded", "raised"} => at \notin Terminals
    /\ pc = "stranded" => at \in Holes

LifeInv == ConstructionInv /\ WorkerIsSomewhere /\ ExpectationIsRight

LEMMA ArmedIsATimeout ==
    ASSUME ConstructionInv, pc # "rejected", NEW kind \in TimeoutKinds, NEW key
    PROVE  /\ Armed(kind, key) = Inf \/ Armed(kind, key) \in Nat \ {0}
           /\ After(0, Armed(kind, key)) = Armed(kind, key)
<1>1. Armed(kind, key) = Inf \/ Armed(kind, key) \in Nat \ {0}
  BY TimeoutsAreVerified DEF Armed, TimeoutOf
<1>2. After(0, Armed(kind, key)) = Armed(kind, key)
  BY <1>1 DEF After, Inf
<1> QED BY <1>1, <1>2

LEMMA TimeoutsOfMachine ==
    ASSUME ConstructionInv, pc \in AcceptedPhases
    PROVE  /\ TerminalStates(Machine) = Terminals
           /\ \A key : After(0, TimeoutOf(Machine.heartbeat_timeouts, key)) = Armed("heartbeat", key)
           /\ \A key : After(0, TimeoutOf(Machine.transition_timeouts, key)) = Armed("transition", key)
           /\ \A key : After(0, TimeoutOf(Machine.state_timeouts, key)) = Armed("state", key)
<1>1. IsWalked /\ TableInv /\ pc # "rejected"
  BY DEF ConstructionInv, ControlInv, AcceptedPhases
<1>2. /\ TerminalStates(Machine) = Terminals
      /\ Machine.heartbeat_timeouts = timeouts["heartbeat"]
      /\ Machine.transition_timeouts = timeouts["transition"]
      /\ Machine.state_timeouts = timeouts["state"]
  BY <1>1, QueriesOfMachine
<1>3. \A kind \in TimeoutKinds : \A key : After(0, TimeoutOf(timeouts[kind], key)) = Armed(kind, key)
  BY <1>1, ArmedIsATimeout DEF Armed
<1> QED BY <1>2, <1>3 DEF TimeoutKinds

\* What one activity makes of an expectation.
LEMMA BeatIsObserved ==
    ASSUME ConstructionInv, pc \in AcceptedPhases, NEW s, NEW tr, NEW hb, NEW stay
    PROVE  Record(Machine, ExpectationOf(s, tr, hb, stay), "heartbeat", <<>>, 0)
             = ExpectationOf(s, tr, Armed("heartbeat", s), stay)
<1> DEFINE exp == ExpectationOf(s, tr, hb, stay)
<1>1. Record(Machine, exp, "heartbeat", <<>>, 0) = RecordHeartbeat(Machine, exp, 0)
  BY DEF Record
<1>2. exp.state = s
  BY DEF ExpectationOf
<1>3. RecordHeartbeat(Machine, exp, 0) = [exp EXCEPT !.next_heartbeat = Armed("heartbeat", s)]
  BY <1>2, TimeoutsOfMachine DEF RecordHeartbeat
<1>4. [exp EXCEPT !.next_heartbeat = Armed("heartbeat", s)]
        = ExpectationOf(s, tr, Armed("heartbeat", s), stay)
  BY DEF ExpectationOf
<1> QED BY <1>1, <1>3, <1>4

LEMMA BeginIsObserved ==
    ASSUME ConstructionInv, pc \in AcceptedPhases, NEW s, NEW tr, NEW hb, NEW stay, NEW pair
    PROVE  Record(Machine, ExpectationOf(s, tr, hb, stay), "transition_begin", pair, 0)
             = ExpectationOf(s, Armed("transition", <<pair[1], pair[2]>>), Inf, Inf)
<1> DEFINE exp == ExpectationOf(s, tr, hb, stay)
           new == Armed("transition", <<pair[1], pair[2]>>)
<1>1. Record(Machine, exp, "transition_begin", pair, 0)
        = RecordTransitionBegin(Machine, exp, pair[1], pair[2], 0)
  BY DEF Record
<1>2. RecordTransitionBegin(Machine, exp, pair[1], pair[2], 0)
        = [[[exp EXCEPT !.transition_deadline = new] EXCEPT !.next_heartbeat = Inf]
              EXCEPT !.state_expiry = Inf]
  BY TimeoutsOfMachine DEF RecordTransitionBegin
<1> HIDE DEF new
<1>3. [exp EXCEPT !.transition_deadline = new] = ExpectationOf(s, new, hb, stay)
  BY DEF ExpectationOf
<1>4. [ExpectationOf(s, new, hb, stay) EXCEPT !.next_heartbeat = Inf]
        = ExpectationOf(s, new, Inf, stay)
  BY DEF ExpectationOf
<1>5. [ExpectationOf(s, new, Inf, stay) EXCEPT !.state_expiry = Inf]
        = ExpectationOf(s, new, Inf, Inf)
  BY DEF ExpectationOf
<1> QED BY <1>1, <1>2, <1>3, <1>4, <1>5 DEF new

LEMMA EndIsObserved ==
    ASSUME ConstructionInv, pc \in AcceptedPhases, NEW s, NEW tr, NEW hb, NEW stay, NEW pair
    PROVE  Record(Machine, ExpectationOf(s, tr, hb, stay), "transition_end", pair, 0)
             = ExpectationOf(pair[2], Inf,
                 IF pair[2] \in Terminals THEN Inf ELSE Armed("heartbeat", pair[2]),
                 IF pair[2] \in Terminals THEN Inf ELSE Armed("state", pair[2]))
<1> DEFINE exp == ExpectationOf(s, tr, hb, stay)
           beat == IF pair[2] \in Terminals THEN Inf ELSE Armed("heartbeat", pair[2])
           leave == IF pair[2] \in Terminals THEN Inf ELSE Armed("state", pair[2])
<1>1. Record(Machine, exp, "transition_end", pair, 0)
        = RecordTransitionEnd(Machine, exp, pair[2], 0)
  BY DEF Record
<1>2. /\ ArmedFor(Machine, pair[2], Machine.heartbeat_timeouts, 0) = beat
      /\ ArmedFor(Machine, pair[2], Machine.state_timeouts, 0) = leave
  BY TimeoutsOfMachine DEF ArmedFor
<1> HIDE DEF beat, leave
<1>3. RecordTransitionEnd(Machine, exp, pair[2], 0)
        = [[[[exp EXCEPT !.state = pair[2]] EXCEPT !.transition_deadline = Inf]
              EXCEPT !.next_heartbeat = beat] EXCEPT !.state_expiry = leave]
  BY <1>2 DEF RecordTransitionEnd
<1>4. [exp EXCEPT !.state = pair[2]] = ExpectationOf(pair[2], tr, hb, stay)
  BY DEF ExpectationOf
<1>5. [ExpectationOf(pair[2], tr, hb, stay) EXCEPT !.transition_deadline = Inf]
        = ExpectationOf(pair[2], Inf, hb, stay)
  BY DEF ExpectationOf
<1>6. [ExpectationOf(pair[2], Inf, hb, stay) EXCEPT !.next_heartbeat = beat]
        = ExpectationOf(pair[2], Inf, beat, stay)
  BY DEF ExpectationOf
<1>7. [ExpectationOf(pair[2], Inf, beat, stay) EXCEPT !.state_expiry = leave]
        = ExpectationOf(pair[2], Inf, beat, leave)
  BY DEF ExpectationOf
<1> QED BY <1>1, <1>3, <1>4, <1>5, <1>6, <1>7 DEF beat, leave

-----------------------------------------------------------------------------
(* The steps of that life. *)

LEMMA PlacesStay ==
    ASSUME UNCHANGED <<construction, compilation>>
    PROVE  /\ PrintedStates' = PrintedStates /\ Terminals' = Terminals
           /\ TheInitialState' = TheInitialState /\ initial_states' = initial_states
           /\ actors' = actors => Holes' = Holes
           /\ \A s : Targets(s)' = Targets(s) /\ (IsDict(s)' <=> IsDict(s))
           /\ \A kind, key : Armed(kind, key)' = Armed(kind, key)
<1>1. UNCHANGED <<table, initial_states, timeouts>>
  BY DEF construction, compilation
<1>2. /\ \A s : Targets(s)' = Targets(s) /\ (IsDict(s)' <=> IsDict(s))
      /\ Terminals' = Terminals
  BY <1>1, TableStays
<1>3. TheInitialState' = TheInitialState /\ PrintedStates' = PrintedStates
  BY <1>1, <1>2 DEF TheInitialState, PrintedStates
<1>4. actors' = actors => Holes' = Holes
  BY <1>1, <1>2 DEF Holes, MissingRows, MuteRows
<1>5. \A kind, key : Armed(kind, key)' = Armed(kind, key)
  BY <1>1 DEF Armed, TimeoutOf
<1> QED BY <1>1, <1>2, <1>3, <1>4, <1>5

LEMMA RunningFacts ==
    ASSUME ConstructionInv, pc \in AcceptedPhases
    PROVE  /\ IsWalked /\ InitialIsRight /\ TableInv /\ pc # "rejected"
           /\ TheInitialState \in DOMAIN table /\ TheInitialState \notin Terminals
           /\ TheInitialState \in PrintedStates /\ initial_states = {TheInitialState}
           /\ TerminalStates(Machine) = Terminals
<1>1. IsWalked /\ InitialIsRight /\ TableInv /\ pc # "rejected"
  BY DEF ConstructionInv, ControlInv, AcceptedPhases
<1>2. TheInitialState \in DOMAIN table /\ initial_states = {TheInitialState}
  BY <1>1, TheInitialIsOne
<1>3. TheInitialState \notin Terminals
  BY <1>1 DEF InitialIsRight, IsDict, Terminals
<1> QED BY <1>1, <1>2, <1>3, QueriesOfMachine DEF PrintedStates

LEMMA ConstructionSteps ==
    ASSUME LifeInv,
           (\E s \in Names : BuildRow(s)) \/ StatesBuilt \/ (\E c \in Constraints : VerifyConstraint(c))
    PROVE  LifeInv'
<1>1. ConstructionInv'
  BY BuildRowKeeps, StatesBuiltKeeps, VerifyConstraintKeeps DEF LifeInv
<1>2. pc' \in {"build", "verify", "rejected"}
  BY DEF BuildRow, StatesBuilt, VerifyConstraint, Reject
<1> QED BY <1>1, <1>2 DEF LifeInv, WorkerIsSomewhere, ExpectationIsRight, AcceptedPhases, InState

LEMMA WorkerIsMade ==
    ASSUME LifeInv, Constructed
    PROVE  LifeInv'
<1>1. ConstructionInv' /\ UNCHANGED <<construction, compilation>>
  <2>1. ConstructionInv'
    BY ConstructedKeeps DEF LifeInv
  <2>2. UNCHANGED <<construction, compilation>>
    BY DEF Constructed, Reject, construction
  <2> QED BY <2>1, <2>2
<1>2. CASE InitialIsRight
  <2>1. /\ pc = "verify" /\ pc' = "compile" /\ at' = TheInitialState
        /\ expectation' = NewExpectation(Machine)
    BY <1>2 DEF Constructed, InitialIsRight
  <2>2. IsWalked /\ TableInv
    BY <2>1 DEF LifeInv, ConstructionInv, ControlInv
  <2>3. InitialState(Machine) = TheInitialState
    BY <1>2, <2>1, <2>2, InitialStateIsRight DEF InitialIsRight
  <2>4. expectation' = ExpectationOf(at', Inf, Inf, Inf)
    BY <2>1, <2>3 DEF NewExpectation, ExpectationOf
  <2>5. at' \in PrintedStates'
    BY <1>1, <2>1, <2>2, TheInitialIsOne, PlacesStay DEF PrintedStates
  <2>6. TheInitialState' = TheInitialState
    BY <1>1, PlacesStay
  <2> QED BY <1>1, <2>1, <2>4, <2>5, <2>6
          DEF LifeInv, WorkerIsSomewhere, ExpectationIsRight, AcceptedPhases, InState
<1>3. CASE ~InitialIsRight
  <2>1. pc' = "rejected"
    BY <1>3 DEF Constructed, InitialIsRight, Reject
  <2> QED BY <1>1, <2>1 DEF LifeInv, WorkerIsSomewhere, ExpectationIsRight, AcceptedPhases, InState
<1> QED BY <1>2, <1>3

LEMMA CompilationSteps ==
    ASSUME LifeInv, Compile \/ Compiled
    PROVE  LifeInv'
<1>1. ConstructionInv'
  BY CompileKeeps, CompiledKeeps DEF LifeInv
<1>2. /\ pc = "compile" /\ pc' \in {"compile", "started"}
      /\ UNCHANGED <<table, initial_states, at, expectation>>
  BY DEF Compile, Compiled, construction, worker
<1>3. TheInitialState' = TheInitialState /\ PrintedStates' = PrintedStates
  BY <1>2, TableStays DEF TheInitialState, PrintedStates
<1> QED BY <1>1, <1>2, <1>3
        DEF LifeInv, WorkerIsSomewhere, ExpectationIsRight, AcceptedPhases, InState

LEMMA BeatSteps ==
    ASSUME LifeInv, FirstBeat \/ Keepalive
    PROVE  LifeInv'
<1>1. /\ pc \in {"started", "loop"} /\ pc' = "loop"
      /\ UNCHANGED <<construction, compilation, actors, at, edge>>
      /\ expectation' = Record(Machine, expectation, "heartbeat", <<>>, 0)
  BY DEF FirstBeat, Keepalive, InLoop, Observe
<1>2. ConstructionInv'
  BY <1>1, WorkerKeepsConstruction DEF LifeInv, AcceptedPhases
<1>3. /\ PrintedStates' = PrintedStates /\ Terminals' = Terminals
      /\ TheInitialState' = TheInitialState
      /\ \A kind, key : Armed(kind, key)' = Armed(kind, key)
  BY <1>1, PlacesStay
<1>4. TheInitialState \notin Terminals /\ TerminalStates(Machine) = Terminals
  BY <1>1, RunningFacts DEF LifeInv, AcceptedPhases
<1>5. at \notin Terminals /\ at \in PrintedStates
  BY <1>1, <1>4
     DEF FirstBeat, Keepalive, InLoop, LifeInv, WorkerIsSomewhere, AcceptedPhases
<1>6. \E hb : expectation = ExpectationOf(at, Inf, hb,
                  IF at = TheInitialState THEN Inf ELSE Armed("state", at))
  <2>1. CASE pc = "started"
    BY <2>1 DEF LifeInv, WorkerIsSomewhere, ExpectationIsRight
  <2>2. CASE pc = "loop"
    BY <1>5, <2>2 DEF LifeInv, ExpectationIsRight, InState
  <2> QED BY <1>1, <2>1, <2>2
<1>7. expectation' = ExpectationOf(at, Inf, Armed("heartbeat", at),
                        IF at = TheInitialState THEN Inf ELSE Armed("state", at))
  <2> DEFINE stay == IF at = TheInitialState THEN Inf ELSE Armed("state", at)
  <2>1. PICK hb : expectation = ExpectationOf(at, Inf, hb, stay)
    BY <1>6
  <2>2. ConstructionInv /\ pc \in AcceptedPhases
    BY <1>1 DEF LifeInv, AcceptedPhases
  <2> HIDE DEF stay
  <2>3. Record(Machine, ExpectationOf(at, Inf, hb, stay), "heartbeat", <<>>, 0)
          = ExpectationOf(at, Inf, Armed("heartbeat", at), stay)
    BY <2>2, BeatIsObserved
  <2> QED BY <1>1, <2>1, <2>3 DEF stay
<1>8. ExpectationIsRight'
  BY <1>1, <1>3, <1>5, <1>7 DEF ExpectationIsRight, InState
<1>9. WorkerIsSomewhere'
  BY <1>1, <1>3, <1>5 DEF WorkerIsSomewhere
<1> QED BY <1>2, <1>8, <1>9 DEF LifeInv

LEMMA BeginTransitionStep ==
    ASSUME LifeInv, NEW e \in EventNames, BeginTransition(e)
    PROVE  LifeInv'
<1>1. /\ pc = "loop" /\ pc' = "hooks" /\ e \in Events(Machine, at)
      /\ edge' = <<at, TargetState(Machine, at, e)>>
      /\ UNCHANGED <<construction, compilation, actors, at>>
      /\ expectation' = Record(Machine, expectation, "transition_begin", edge', 0)
  BY DEF BeginTransition, InLoop, Observe
<1>2. ConstructionInv'
  BY <1>1, WorkerKeepsConstruction DEF LifeInv, AcceptedPhases
<1>3. /\ PrintedStates' = PrintedStates
      /\ \A s : Targets(s)' = Targets(s) /\ (IsDict(s)' <=> IsDict(s))
      /\ \A kind, key : Armed(kind, key)' = Armed(kind, key)
  BY <1>1, PlacesStay
<1>4. at \in Dicts /\ e \in DOMAIN table[at].next
      /\ TargetState(Machine, at, e) = table[at].next[e]
  BY <1>1, RunningFacts, QueriesOfMachine DEF LifeInv, AcceptedPhases
<1>5. IsDict(at) /\ edge' = <<at, edge'[2]>> /\ edge'[2] \in Targets(at) /\ at \in PrintedStates
  BY <1>1, <1>4 DEF Dicts, Targets, PrintedStates
<1>6. WorkerIsSomewhere'
  BY <1>1, <1>3, <1>5 DEF WorkerIsSomewhere
<1>7. \E hb, stay : expectation = ExpectationOf(at, Inf, hb, stay)
  BY <1>1 DEF LifeInv, ExpectationIsRight, InState
<1>8. expectation' = ExpectationOf(at, Armed("transition", <<edge'[1], edge'[2]>>), Inf, Inf)
  <2>1. PICK hb, stay : expectation = ExpectationOf(at, Inf, hb, stay)
    BY <1>7
  <2>2. ConstructionInv /\ pc \in AcceptedPhases
    BY <1>1 DEF LifeInv, AcceptedPhases
  <2>3. PICK pair : pair = edge'
    OBVIOUS
  <2>4. Record(Machine, ExpectationOf(at, Inf, hb, stay), "transition_begin", pair, 0)
          = ExpectationOf(at, Armed("transition", <<pair[1], pair[2]>>), Inf, Inf)
    BY <2>2, BeginIsObserved
  <2> QED BY <1>1, <2>1, <2>3, <2>4
<1>9. edge' = <<edge'[1], edge'[2]>>
  BY <1>1
<1>10. ExpectationIsRight'
  BY <1>1, <1>3, <1>8, <1>9 DEF ExpectationIsRight, InState
<1> QED BY <1>2, <1>6, <1>10 DEF LifeInv

LEMMA EndTransitionStep ==
    ASSUME LifeInv, EndTransition
    PROVE  LifeInv'
<1>1. /\ pc = "hooks" /\ pc' = "loop" /\ at' = edge[2]
      /\ UNCHANGED <<construction, compilation, actors>>
      /\ expectation' = Record(Machine, expectation, "transition_end", edge, 0)
  BY DEF EndTransition, Observe
<1>2. ConstructionInv'
  BY <1>1, WorkerKeepsConstruction DEF LifeInv, AcceptedPhases
<1>3. /\ PrintedStates' = PrintedStates /\ Terminals' = Terminals
      /\ TheInitialState' = TheInitialState
      /\ \A kind, key : Armed(kind, key)' = Armed(kind, key)
  BY <1>1, PlacesStay
<1>4. at \in DOMAIN table /\ edge[2] \in Targets(at)
  BY <1>1 DEF LifeInv, WorkerIsSomewhere, IsDict
<1>5. edge[2] \in PrintedStates
  BY <1>4 DEF PrintedStates
<1>6. edge[2] # TheInitialState
  BY <1>1, <1>4, RunningFacts, TheInitialIsOne DEF LifeInv, AcceptedPhases, IsEntered
<1>7. \E tr : expectation = ExpectationOf(at, tr, Inf, Inf)
  BY <1>1 DEF LifeInv, ExpectationIsRight
<1>8. expectation' = ExpectationOf(edge[2], Inf,
            IF edge[2] \in Terminals THEN Inf ELSE Armed("heartbeat", edge[2]),
            IF edge[2] \in Terminals THEN Inf ELSE Armed("state", edge[2]))
  <2>1. PICK tr : expectation = ExpectationOf(at, tr, Inf, Inf)
    BY <1>7
  <2>2. ConstructionInv /\ pc \in AcceptedPhases
    BY <1>1 DEF LifeInv, AcceptedPhases
  <2> QED BY <1>1, <2>1, <2>2, EndIsObserved
<1>9. ExpectationIsRight'
  BY <1>1, <1>3, <1>6, <1>8 DEF ExpectationIsRight, InState
<1>10. WorkerIsSomewhere'
  BY <1>1, <1>3, <1>5 DEF WorkerIsSomewhere
<1> QED BY <1>2, <1>9, <1>10 DEF LifeInv

\* Where there is nothing left to emit there is a hole.
LEMMA NoActorIsAHole ==
    ASSUME LifeInv, NoActor
    PROVE  at \in Holes
<1>1. pc = "loop" /\ at \notin Terminals /\ at \in PrintedStates /\ Emits = {}
  BY RunningFacts DEF NoActor, InLoop, LifeInv, WorkerIsSomewhere, AcceptedPhases
<1>2. /\ IsWalked /\ InitialIsRight /\ TableInv /\ pc # "rejected"
      /\ initial_states = {TheInitialState} /\ TheInitialState \in DOMAIN table
  BY <1>1, RunningFacts DEF LifeInv, AcceptedPhases
<1>3. at # TheInitialState
  BY <1>1 DEF Emits
<1>4. EventNames # {}
  BY <1>2, RowsOfTable DEF InitialIsRight, TableInv, IsDict
<1>5. at \notin actors
  BY <1>1, <1>3, <1>4 DEF Emits
<1>6. Cardinality(Events(Machine, at)) # 1
  <2>1. SUFFICES ASSUME Cardinality(Events(Machine, at)) = 1 PROVE FALSE
    OBVIOUS
  <2>2. Events(Machine, at) = {}
    BY <1>1, <1>3, <1>5, <2>1 DEF Emits
  <2> QED BY <2>1, <2>2, FS_EmptySet
<1>7. CASE at \in DOMAIN table
  <2>1. IsDict(at)
    BY <1>1, <1>2, <1>7, RowsOfTable DEF TableInv, IsWalked, IsDict, Terminals
  <2>2. Events(Machine, at) = DOMAIN table[at].next
    BY <1>2, <1>7, <2>1, QueriesOfMachine DEF Dicts
  <2> QED BY <1>2, <1>3, <1>5, <1>6, <1>7, <2>1, <2>2 DEF Holes, MuteRows
<1>8. CASE at \notin DOMAIN table
  <2>1. at \in UNION {Targets(s) : s \in DOMAIN table}
    BY <1>1, <1>8, Zenon DEF PrintedStates
  <2>2. at \in MissingRows
    BY <1>8, <2>1 DEF MissingRows
  <2> QED BY <2>2 DEF Holes
<1> QED BY <1>7, <1>8

LEMMA EndSteps ==
    ASSUME LifeInv, (\E e \in EventNames : InvalidEvent(e)) \/ NoActor \/ LoopEnds
    PROVE  LifeInv'
<1>1. /\ pc = "loop" /\ pc' \in {"raised", "stranded", "finished"}
      /\ UNCHANGED <<construction, compilation, worker>>
      /\ UNCHANGED <<actors, at, edge, expectation>>
  BY DEF InvalidEvent, NoActor, LoopEnds, InLoop, End, worker
<1>2. ConstructionInv'
  BY <1>1, WorkerKeepsConstruction DEF LifeInv, AcceptedPhases
<1>3. /\ PrintedStates' = PrintedStates /\ Terminals' = Terminals
      /\ TheInitialState' = TheInitialState /\ Holes' = Holes
      /\ \A kind, key : Armed(kind, key)' = Armed(kind, key)
  BY <1>1, PlacesStay
<1>4. pc' = "stranded" => at \in Holes
  BY NoActorIsAHole DEF InvalidEvent, NoActor, LoopEnds, End
<1>5. pc' \in {"stranded", "raised"} => at \notin Terminals
  BY <1>1, RunningFacts
     DEF InvalidEvent, NoActor, LoopEnds, End, InLoop, LifeInv, AcceptedPhases
<1>6. WorkerIsSomewhere'
  BY <1>1, <1>3, <1>4, <1>5 DEF LifeInv, WorkerIsSomewhere, AcceptedPhases
<1>7. ExpectationIsRight'
  BY <1>1, <1>3 DEF LifeInv, ExpectationIsRight, InState
<1> QED BY <1>2, <1>6, <1>7 DEF LifeInv

LEMMA LifeStays ==
    ASSUME LifeInv, UNCHANGED vars
    PROVE  LifeInv'
<1>1. /\ UNCHANGED <<table, todo, initial_states, constraints, pc, timeouts, compiled>>
      /\ UNCHANGED <<actors, at, edge, expectation>>
  BY DEF vars
<1>2. UNCHANGED <<construction, compilation>>
  BY <1>1 DEF construction, compilation
<1>3. /\ PrintedStates' = PrintedStates /\ Terminals' = Terminals
      /\ TheInitialState' = TheInitialState /\ Holes' = Holes
      /\ \A s : Targets(s)' = Targets(s) /\ (IsDict(s)' <=> IsDict(s))
      /\ \A kind, key : Armed(kind, key)' = Armed(kind, key)
  BY <1>1, <1>2, PlacesStay
<1>4. TableInv' /\ ConstraintsInv'
  BY <1>1, TableStays DEF LifeInv, ConstructionInv, TableInv, ConstraintsInv
<1>5. CompileInv'
  BY <1>1 DEF LifeInv, ConstructionInv, CompileInv, IsLastOf
<1>6. (IsLegal' <=> IsLegal) /\ (IsWalked' <=> IsWalked) /\ (InitialIsRight' <=> InitialIsRight)
  BY <1>1, <1>3, TableStays DEF IsLegal, IsWalked, InitialIsRight
<1>7. ControlInv'
  BY <1>1, <1>6 DEF LifeInv, ConstructionInv, ControlInv
<1>8. WorkerIsSomewhere' /\ ExpectationIsRight'
  BY <1>1, <1>3 DEF LifeInv, WorkerIsSomewhere, ExpectationIsRight
<1> QED BY <1>4, <1>5, <1>7, <1>8 DEF LifeInv, ConstructionInv

LEMMA LifeIsInductive ==
    ASSUME LifeInv, [SetUpNext]_all
    PROVE  LifeInv'
<1>1. CASE Next
  BY <1>1, ConstructionSteps, WorkerIsMade, CompilationSteps, BeatSteps, BeginTransitionStep,
     EndTransitionStep, EndSteps, LifeStays DEF Next, Over
<1>2. CASE UNCHANGED vars
  BY <1>2, LifeStays
<1> QED BY <1>1, <1>2 DEF SetUpNext, InMachine, InClass, InClone, InBoot, InSettings, all

LEMMA LifeBegins == SetUpInit => LifeInv
<1> SUFFICES ASSUME SetUpInit PROVE LifeInv
  OBVIOUS
<1>1. /\ table \in Tables /\ todo = DOMAIN table /\ initial_states = DOMAIN table
      /\ constraints = <<>> /\ compiled = 0 /\ pc = "build"
      /\ timeouts = [kind \in {"heartbeat", "transition", "state"} |-> <<>>]
  BY DEF SetUpInit, Init
<1>2. TableInv
  BY <1>1 DEF TableInv
<1>3. ConstraintsInv
  BY <1>1 DEF ConstraintsInv
<1>4. CompileInv
  <2>1. DOMAIN timeouts = TimeoutKinds /\ \A kind \in TimeoutKinds : timeouts[kind] = <<>>
    BY <1>1 DEF TimeoutKinds
  <2>2. DOMAIN <<>> = {} /\ Len(constraints) = 0 /\ 1..0 = {}
    BY <1>1
  <2> QED BY <1>1, <2>1, <2>2 DEF CompileInv, AcceptedPhases
<1> QED BY <1>1, <1>2, <1>3, <1>4 DEF LifeInv, ConstructionInv, ControlInv, WorkerIsSomewhere,
        ExpectationIsRight, AcceptedPhases, InState

LEMMA LifeAlways == SetUpSpec => []LifeInv
<1>1. LifeInv /\ [SetUpNext]_all => LifeInv'
  BY LifeIsInductive
<1> QED BY <1>1, LifeBegins, PTL DEF SetUpSpec

LEMMA PhasesOfAccepted ==
    ASSUME LifeInv
    PROVE  Accepted <=> pc \in AcceptedPhases
BY DEF LifeInv, ConstructionInv, ControlInv, Accepted, AcceptedPhases

\* Every table, walked in any order, and every list of constraints: the constructor
\* accepts exactly what satisfies the rules as a whole, and what it accepts is a
\* machine as the other modules assume one exactly if each target is a row
\* (state.py:43-99). The candidates that are left are at each moment the rows no row
\* walked so far leads to, in whatever order they come.
THEOREM ConstructorStaysExact == SetUpSpec => []ConstructorIsExact
<1>1. LifeInv => ConstructorIsExact
  <2> SUFFICES ASSUME LifeInv PROVE ConstructorIsExact
    OBVIOUS
  <2>1. pc = "rejected" => ~IsLegal
    BY DEF LifeInv, ConstructionInv, ControlInv
  <2>2. ASSUME Accepted PROVE IsLegal /\ (IsClosed <=> IsStateMachine(Machine))
    BY <2>2, PhasesOfAccepted, AcceptedAreLegal, ClosedAreMachines, MachinesAreClosed DEF LifeInv
  <2> QED BY <2>1, <2>2 DEF ConstructorIsExact
<1> QED BY <1>1, LifeAlways, PTL

LEMMA DeclaredIsCompiled ==
    ASSUME ConstructionInv, compiled = Len(constraints), NEW kind \in TimeoutKinds, NEW key
    PROVE  Declared(kind, key) = Armed(kind, key)
<1> DEFINE listed == {i \in DOMAIN constraints :
                        constraints[i].kind = kind /\ constraints[i].when = key}
<1>1. DOMAIN constraints = 1..compiled /\ compiled \in Nat
  BY DEF ConstructionInv, ConstraintsInv, CompileInv
<1>2. Declared(kind, key)
        = IF listed = {} THEN Inf
          ELSE constraints[CHOOSE i \in listed : \A j \in listed : j <= i].timeout
  BY DEF Declared
<1>3. \A i : i \in listed <=> i \in 1..compiled /\ IsOf(constraints[i], kind, key)
  BY <1>1 DEF IsOf
<1> HIDE DEF listed
<1>4. CASE key \in DOMAIN timeouts[kind]
  <2>1. PICK i \in 1..compiled : IsLastOf(i, kind, key)
                                 /\ timeouts[kind][key] = constraints[i].timeout
    BY <1>4 DEF ConstructionInv, CompileInv
  <2>2. i \in listed /\ \A j \in listed : j <= i
    BY <1>3, <2>1 DEF IsLastOf
  <2>3. \A k \in listed : (\A j \in listed : j <= k) => k = i
    BY <1>1, <1>3, <2>2
  <2>4. (CHOOSE k \in listed : \A j \in listed : j <= k) = i
    BY <2>2, <2>3
  <2> QED BY <1>2, <1>4, <2>1, <2>2, <2>4 DEF Armed, TimeoutOf
<1>5. CASE key \notin DOMAIN timeouts[kind]
  <2>1. \A i \in listed : FALSE
    BY <1>3, <1>5 DEF ConstructionInv, CompileInv, IsOf
  <2> QED BY <1>2, <1>5, <2>1 DEF Armed, TimeoutOf
<1> QED BY <1>4, <1>5

\* The printer finds what was declared.
LEMMA DeclaredIsHinted ==
    ASSUME NEW kind, NEW key, Declared(kind, key) # Inf
    PROVE  key \in DOMAIN Hints(kind) /\ Hints(kind)[key] = Declared(kind, key)
<1> DEFINE ofKind == {i \in DOMAIN constraints : constraints[i].kind = kind}
           ofBoth == {i \in DOMAIN constraints :
                        constraints[i].kind = kind /\ constraints[i].when = key}
           IsLast(i) == i \in ofBoth /\ \A j \in ofBoth : j <= i
           IsLastHint(i) == /\ i \in ofKind /\ constraints[i].when = key
                            /\ \A j \in ofKind : constraints[j].when = key => j <= i
<1>1. ofBoth # {} /\ Declared(kind, key) = constraints[CHOOSE i : IsLast(i)].timeout
  BY Zenon DEF Declared
<1>2. key \in {constraints[i].when : i \in ofKind}
  BY <1>1
<1>3. Hints(kind)[key] = constraints[CHOOSE i : IsLastHint(i)].timeout
      /\ key \in DOMAIN Hints(kind)
  BY <1>2, Zenon DEF Hints
<1>4. \A i : IsLast(i) <=> IsLastHint(i)
  OBVIOUS
<1>5. (CHOOSE i : IsLast(i)) = (CHOOSE i : IsLastHint(i))
  BY <1>4, Zenon
<1> QED BY <1>1, <1>3, <1>5

\* Every table, list of constraints and life of a worker on it: its evaluator expects
\* what was declared of where the worker is, the last constraint on a key counting,
\* and the printer shows it (evaluator.py:40-105, defaults.py:76-160).
THEOREM DeadlinesStayDeclared == SetUpSpec => []DeadlinesAreDeclared
<1>1. LifeInv => DeadlinesAreDeclared
  <2> SUFFICES ASSUME LifeInv, pc \in {"loop", "hooks"}
               PROVE  IsWhatWasDeclared /\ IsPrinted
    BY DEF DeadlinesAreDeclared
  <2>1. ConstructionInv /\ pc \in AcceptedPhases \ {"compile"} /\ compiled = Len(constraints)
    BY DEF LifeInv, ConstructionInv, CompileInv, AcceptedPhases
  <2>2. TheInitialState \notin Terminals /\ TableInv
    BY <2>1, RunningFacts
  <2>3. \A key : /\ Declared("heartbeat", key) = Armed("heartbeat", key)
                 /\ Declared("transition", key) = Armed("transition", key)
                 /\ Declared("state", key) = Armed("state", key)
    BY <2>1, DeclaredIsCompiled DEF TimeoutKinds
  <2>4. /\ expectation.transition_deadline = IF pc = "hooks" THEN Armed("transition", edge) ELSE Inf
        /\ expectation.next_heartbeat =
                IF pc = "hooks" \/ at \in Terminals THEN Inf ELSE Armed("heartbeat", at)
        /\ expectation.state_expiry =
                IF pc = "hooks" \/ at \in Terminals \/ at = TheInitialState THEN Inf
                ELSE Armed("state", at)
    BY DEF LifeInv, ExpectationIsRight, ExpectationOf, InState
  <2>5. IsWhatWasDeclared
    BY <2>3, <2>4 DEF IsWhatWasDeclared
  <2>6. at \in PrintedStates
    BY <2>1 DEF LifeInv, WorkerIsSomewhere
  <2>7. /\ \A key : Armed("heartbeat", key) # Inf =>
            key \in DOMAIN Hints("heartbeat") /\ Hints("heartbeat")[key] = Armed("heartbeat", key)
        /\ \A key : Armed("transition", key) # Inf =>
            key \in DOMAIN Hints("transition") /\ Hints("transition")[key] = Armed("transition", key)
        /\ \A key : Armed("state", key) # Inf =>
            key \in DOMAIN Hints("state") /\ Hints("state")[key] = Armed("state", key)
    BY <2>3, DeclaredIsHinted
  <2>8. Armed("heartbeat", at) # Inf =>
            <<"keepalive", at, Armed("heartbeat", at)>> \in PrintedTimeouts
    BY <2>6, <2>7 DEF PrintedTimeouts
  <2>9. Armed("state", at) # Inf =>
            <<"state_timeout", at, Armed("state", at)>> \in PrintedTimeouts
    BY <2>6, <2>7 DEF PrintedTimeouts
  <2>10. ASSUME pc = "hooks", Armed("transition", edge) # Inf
         PROVE  <<"timeout", edge, Armed("transition", edge)>> \in PrintedTimeouts
    <3>1. edge = <<at, edge[2]>> /\ edge[2] \in Targets(at) /\ at \in DOMAIN table
      BY <2>10 DEF LifeInv, WorkerIsSomewhere, IsDict
    <3>2. at \in Names /\ edge[2] \in Names
      BY <2>2, <3>1, RowsOfTable, TargetsOfRows DEF TableInv
    <3>3. edge \in {q \in Names \X Names : q[2] \in Targets(q[1])}
      BY <3>1, <3>2
    <3> QED BY <2>7, <2>10, <3>3 DEF PrintedTimeouts
  <2>11. IsPrinted
    BY <2>4, <2>8, <2>9, <2>10 DEF IsPrinted
  <2> QED BY <2>5, <2>11
<1> QED BY <1>1, LifeAlways, PTL

\* Every table, set of actors and life: a worker without a next step in a state that is
\* not terminal is at a target that is no row, or at a row without actor and
\* without a single event, and its evaluator believes it there (state.py:88,
\* worker.py:230-252).
THEOREM LostStaysInHoles == SetUpSpec => []LostOnlyInHoles
<1>1. LifeInv => LostOnlyInHoles
  <2> SUFFICES ASSUME LifeInv, pc \in {"stranded", "raised"}
               PROVE  /\ pc = "stranded" => at \in Holes
                      /\ TerminalOutcome(Machine, expectation.state) = "none"
                      /\ expectation.state = at
    BY DEF LostOnlyInHoles
  <2>1. at \notin Terminals /\ (pc = "stranded" => at \in Holes)
    BY DEF LifeInv, WorkerIsSomewhere
  <2>2. expectation.state = at
    BY DEF LifeInv, ExpectationIsRight, ExpectationOf, InState
  <2>3. TerminalStates(Machine) = Terminals
    BY RunningFacts DEF LifeInv, AcceptedPhases
  <2> QED BY <2>1, <2>2, <2>3 DEF TerminalOutcome
<1> QED BY <1>1, LifeAlways, PTL

-----------------------------------------------------------------------------
(* Registration: templates only grow, and units are of the templates of the boot. *)

Unit == [generation : Nat, restart_count : Nat, kill_requested : BOOLEAN]

TemplatesAreWorkers ==
    /\ templates \in [DOMAIN templates -> Candidates]
    /\ \A n \in DOMAIN templates : templates[n].mode = Mode /\ templates[n].name = n

UnitsAreOfTemplates ==
    /\ units \in [DOMAIN units -> Unit]
    /\ DOMAIN units \subseteq DOMAIN templates /\ starting \subseteq DOMAIN units
    /\ \A n \in DOMAIN units : Registry!IsClonable(templates[n])

ExecutorsAreOfUnits ==
    \A x \in running :
        /\ x = <<x[1], x[2]>> /\ x[1] \in DOMAIN units
        /\ x[2] = units[x[1]].generation

PhaseOfBoot ==
    /\ boot_pc \in {"idle", "booting", "running", "raised"}
    /\ boot_pc = "idle" => DOMAIN units = {}
    /\ boot_pc \in {"booting", "running"} => DOMAIN units = booted /\ booted # {}
    /\ boot_pc = "raised" => running = {} /\ (booted = {} \/ DOMAIN units # booted)

BootInv == TemplatesAreWorkers /\ UnitsAreOfTemplates /\ ExecutorsAreOfUnits /\ PhaseOfBoot

\* What a call of register_workers adds: workers of the right mode under their names,
\* none of which was taken (supervisor.py:179-200).
LEMMA AddedAreNew ==
    ASSUME NEW batch \in Registry!Batches, Registry!IsOfMode(batch)
    PROVE  LET new == Registry!Added(batch)
           IN  /\ new \in [DOMAIN new -> Candidates]
               /\ \A n \in DOMAIN new : /\ new[n].mode = Mode /\ new[n].name = n
                                        /\ n \notin DOMAIN templates
<1> DEFINE new == Registry!Added(batch)
           IsFree == \A i \in DOMAIN batch : Registry!IsUnoccupied(batch, i)
<1>1. \A i \in DOMAIN batch : batch[i] \in Candidates /\ batch[i].mode = Mode
  BY DEF Registry!Batches, Registry!IsOfMode
<1>2. CASE IsFree
  <2>1. new = Registry!ByName(batch)
    BY <1>2 DEF Registry!Added
  <2>2. ASSUME NEW n \in DOMAIN new
        PROVE  new[n] \in Candidates /\ new[n].mode = Mode /\ new[n].name = n
               /\ n \notin DOMAIN templates
    <3>1. PICK i \in DOMAIN batch : batch[i].name = n
      BY <2>1, <2>2 DEF Registry!ByName
    <3> DEFINE k == CHOOSE j \in DOMAIN batch : batch[j].name = n
    <3>2. k \in DOMAIN batch /\ batch[k].name = n
      BY <3>1
    <3>3. new[n] = batch[k]
      BY <2>1, <2>2 DEF Registry!ByName
    <3>4. n \notin DOMAIN templates
      BY <1>2, <3>2 DEF Registry!IsUnoccupied
    <3> QED BY <1>1, <3>2, <3>3, <3>4
  <2>3. new = [n \in DOMAIN new |-> new[n]]
    BY <2>1 DEF Registry!ByName
  <2> QED BY <2>2, <2>3
<1>3. CASE ~IsFree
  BY <1>3 DEF Registry!Added, Registry!Nothing
<1> QED BY <1>2, <1>3

LEMMA RegisterKeeps ==
    ASSUME BootInv, NEW batch \in Registry!Batches, Registry!Register(batch)
    PROVE  BootInv'
<1> DEFINE new == Registry!Added(batch)
<1>1. UNCHANGED <<units, running, boot_pc, starting, booted>>
  BY DEF Registry!Register
<1>2. /\ templates' \in [DOMAIN templates' -> Candidates]
      /\ DOMAIN templates \subseteq DOMAIN templates'
      /\ \A n \in DOMAIN templates' : templates'[n].mode = Mode /\ templates'[n].name = n
      /\ \A n \in DOMAIN templates : templates'[n] = templates[n]
  <2>1. CASE Registry!IsOfMode(batch)
    <3>1. /\ new \in [DOMAIN new -> Candidates]
          /\ \A n \in DOMAIN new : /\ new[n].mode = Mode /\ new[n].name = n
                                   /\ n \notin DOMAIN templates
      BY <2>1, AddedAreNew
    <3>2. templates' = Registry!Merge(templates, new)
      BY <2>1 DEF Registry!Register
    <3> HIDE DEF new
    <3>3. templates' = [k \in DOMAIN templates \cup DOMAIN new |->
                          IF k \in DOMAIN new THEN new[k] ELSE templates[k]]
      BY <3>2 DEF Registry!Merge
    <3> QED BY <3>1, <3>3 DEF BootInv, TemplatesAreWorkers
  <2>2. CASE ~Registry!IsOfMode(batch)
    BY <2>2 DEF Registry!Register, BootInv, TemplatesAreWorkers
  <2> QED BY <2>1, <2>2
<1>3. TemplatesAreWorkers'
  BY <1>2 DEF TemplatesAreWorkers
<1>4. UnitsAreOfTemplates'
  BY <1>1, <1>2 DEF BootInv, UnitsAreOfTemplates, Registry!IsClonable
<1>5. ExecutorsAreOfUnits' /\ PhaseOfBoot'
  BY <1>1 DEF BootInv, ExecutorsAreOfUnits, PhaseOfBoot
<1> QED BY <1>3, <1>4, <1>5 DEF BootInv

LEMMA BootKeeps ==
    ASSUME BootInv, Registry!Boot
    PROVE  BootInv'
<1>1. /\ boot_pc = "idle" /\ booted' = DOMAIN templates /\ UNCHANGED <<templates, running>>
      /\ DOMAIN units = {}
  BY DEF Registry!Boot, BootInv, PhaseOfBoot
<1>2. running = {} /\ starting = {}
  BY <1>1 DEF BootInv, ExecutorsAreOfUnits, UnitsAreOfTemplates
<1>3. PICK names \in SUBSET Registry!Clonable : units' = [n \in names |-> Registry!NewUnit(0)]
  <2>1. CASE templates # Registry!Nothing /\ Registry!Clonable = DOMAIN templates
    <3>1. units' = [n \in Registry!Clonable |-> Registry!NewUnit(0)]
      BY <1>1, <2>1 DEF Registry!Boot
    <3> QED BY <3>1
  <2>2. CASE ~(templates # Registry!Nothing /\ Registry!Clonable = DOMAIN templates)
    BY <2>2 DEF Registry!Boot
  <2> QED BY <2>1, <2>2
<1>4. /\ DOMAIN units' = names /\ names \subseteq DOMAIN templates
      /\ \A n \in names : Registry!IsClonable(templates[n]) /\ units'[n] \in Unit
  BY <1>3 DEF Registry!Clonable, Registry!NewUnit, Unit
<1>5. units' \in [DOMAIN units' -> Unit]
  BY <1>3, <1>4
<1>6. CASE templates # Registry!Nothing /\ Registry!Clonable = DOMAIN templates
  <2>1. boot_pc' = "booting" /\ starting' = DOMAIN templates
    BY <1>6 DEF Registry!Boot
  <2>2. DOMAIN units' = DOMAIN templates
    BY <1>1, <1>6 DEF Registry!Boot
  <2>3. DOMAIN templates # {}
    <3>1. SUFFICES ASSUME DOMAIN templates = {} PROVE templates = Registry!Nothing
      BY <1>6
    <3>2. templates = [n \in DOMAIN templates |-> templates[n]]
      BY DEF BootInv, TemplatesAreWorkers
    <3> QED BY <3>1, <3>2 DEF Registry!Nothing
  <2> QED BY <1>1, <1>2, <1>4, <1>5, <2>1, <2>2, <2>3
          DEF BootInv, TemplatesAreWorkers, UnitsAreOfTemplates, ExecutorsAreOfUnits,
              PhaseOfBoot
<1>7. CASE ~(templates # Registry!Nothing /\ Registry!Clonable = DOMAIN templates)
  <2>1. boot_pc' = "raised" /\ starting' = {}
    BY <1>2, <1>7 DEF Registry!Boot
  <2>2. booted' = {} \/ DOMAIN units' # booted'
    <3>1. CASE templates = Registry!Nothing
      BY <1>1, <3>1 DEF Registry!Nothing
    <3>2. CASE Registry!Clonable # DOMAIN templates
      BY <1>1, <1>4, <3>2 DEF Registry!Clonable
    <3> QED BY <1>7, <3>1, <3>2
  <2> QED BY <1>1, <1>2, <1>4, <1>5, <2>1, <2>2
          DEF BootInv, TemplatesAreWorkers, UnitsAreOfTemplates, ExecutorsAreOfUnits,
              PhaseOfBoot
<1> QED BY <1>6, <1>7

LEMMA StartOneKeeps ==
    ASSUME BootInv, NEW n, Registry!StartOne(n)
    PROVE  BootInv'
<1>1. /\ boot_pc = "booting" /\ n \in starting /\ starting' = starting \ {n}
      /\ running' = running \cup {<<n, units[n].generation>>}
      /\ boot_pc' \in {"booting", "running"} /\ UNCHANGED <<templates, units, booted>>
  BY DEF Registry!StartOne
<1>2. n \in DOMAIN units
  BY <1>1 DEF BootInv, UnitsAreOfTemplates
<1>3. TemplatesAreWorkers' /\ UnitsAreOfTemplates'
  BY <1>1 DEF BootInv, TemplatesAreWorkers, UnitsAreOfTemplates, Registry!IsClonable
<1>4. ExecutorsAreOfUnits'
  BY <1>1, <1>2 DEF BootInv, ExecutorsAreOfUnits
<1>5. PhaseOfBoot'
  BY <1>1 DEF BootInv, PhaseOfBoot
<1> QED BY <1>3, <1>4, <1>5 DEF BootInv

\* The one step that makes a new incarnation: of this unit, whose executor has gone.
LEMMA RestartKeeps ==
    ASSUME WorkersAreNamed, BootInv, NEW n, Registry!Restart(n)
    PROVE  BootInv'
<1>1. boot_pc = "running" /\ n \in DOMAIN units /\ UNCHANGED <<templates, boot_pc, starting, booted>>
  BY DEF Registry!Restart
<1>2. units[n] \in Unit /\ n \in DOMAIN templates /\ n # ""
  BY <1>1 DEF BootInv, UnitsAreOfTemplates, TemplatesAreWorkers, WorkersAreNamed, Registry!WorkerNames
<1>3. TemplatesAreWorkers'
  BY <1>1 DEF BootInv, TemplatesAreWorkers
<1>4. /\ units' \in [DOMAIN units -> Unit]
      /\ \A x \in running' : /\ x = <<x[1], x[2]>> /\ x[1] \in DOMAIN units
                              /\ x[2] = units'[x[1]].generation
  <2>1. CASE Registry!IsAlive(n)
    <3>1. units' = [units EXCEPT ![n].kill_requested = TRUE] /\ running' = running
      BY <2>1 DEF Registry!Restart
    <3>2. [units[n] EXCEPT !.kill_requested = TRUE] \in Unit
      BY <1>2 DEF Unit
    <3>3. \A m \in DOMAIN units : units'[m].generation = units[m].generation
      BY <1>2, <3>1 DEF Unit, BootInv, UnitsAreOfTemplates
    <3>4. units' \in [DOMAIN units -> Unit]
      BY <3>1, <3>2 DEF BootInv, UnitsAreOfTemplates
    <3> QED BY <3>1, <3>3, <3>4 DEF BootInv, ExecutorsAreOfUnits
  <2>2. CASE ~Registry!IsAlive(n)
    <3> DEFINE g == units[n].generation + 1
               count == units[n].restart_count + 1
               new == [generation |-> g, restart_count |-> count, kill_requested |-> FALSE]
    <3>0. g \in Nat /\ count \in Nat
      <4>1. units[n].generation \in Nat /\ units[n].restart_count \in Nat
        BY <1>2 DEF Unit
      <4> QED BY <4>1
    <3>5. new \in Unit
      <4> HIDE DEF g, count
      <4> QED BY <3>0 DEF Unit
    <3>1. units' = Registry!Replaced(n) /\ running' = running \cup {<<n, units'[n].generation>>}
      BY <2>2 DEF Registry!Restart
    <3>2. Registry!Materialized(n, g) = [m \in {n} |-> Registry!NewUnit(g)]
      <4>1. {m \in DOMAIN templates : n # "" => m = n} = {n}
        BY <1>2
      <4> QED BY <4>1 DEF Registry!Materialized
    <3>3. Registry!Merge(units, Registry!Materialized(n, g))
            = [m \in DOMAIN units |-> IF m = n THEN Registry!NewUnit(g) ELSE units[m]]
      BY <1>1, <3>2 DEF Registry!Merge
    <3>4. units' = [m \in DOMAIN units |-> IF m = n THEN new ELSE units[m]]
      <4>1. [Registry!NewUnit(g) EXCEPT !.restart_count = count] = new
        <5> HIDE DEF g, count
        <5>1. Registry!NewUnit(g)
                = [generation |-> g, restart_count |-> 0, kill_requested |-> FALSE]
          BY DEF Registry!NewUnit
        <5>2. \A k : [[generation |-> g, restart_count |-> 0, kill_requested |-> k]
                        EXCEPT !.restart_count = count]
                     = [generation |-> g, restart_count |-> count, kill_requested |-> k]
          OBVIOUS
        <5> QED BY <5>1, <5>2
      <4>2. units' = [Registry!Merge(units, Registry!Materialized(n, g)) EXCEPT
                        ![n].restart_count = units[n].restart_count + 1]
        BY <3>1 DEF Registry!Replaced
      <4> QED BY <1>1, <3>3, <4>1, <4>2
    <3>6. units' \in [DOMAIN units -> Unit]
      BY <3>4, <3>5 DEF BootInv, UnitsAreOfTemplates
    <3>7. \A x \in running : x[1] # n
      <4> SUFFICES ASSUME NEW x \in running, x[1] = n PROVE FALSE
        OBVIOUS
      <4>1. x = <<x[1], x[2]>> /\ x[2] = units[n].generation
        BY DEF BootInv, ExecutorsAreOfUnits
      <4> QED BY <2>2, <4>1 DEF Registry!IsAlive
    <3>11. units'[n] = new
      BY <1>1, <3>4
    <3>8. units'[n].generation = g /\ \A m \in DOMAIN units : m # n => units'[m] = units[m]
      <4> HIDE DEF g, count
      <4> QED BY <3>4, <3>11
    <3> HIDE DEF g, count, new
    <3>9. running' = running \cup {<<n, g>>}
      BY <3>1, <3>8
    <3>10. \A x \in running : x[1] \in DOMAIN units /\ units'[x[1]] = units[x[1]]
      BY <3>7, <3>8 DEF BootInv, ExecutorsAreOfUnits
    <3>12. ASSUME NEW x \in running'
           PROVE  /\ x = <<x[1], x[2]>> /\ x[1] \in DOMAIN units
                  /\ x[2] = units'[x[1]].generation
      <4>1. CASE x \in running
        BY <3>10, <4>1 DEF BootInv, ExecutorsAreOfUnits
      <4>2. CASE x = <<n, g>>
        BY <1>1, <3>8, <4>2
      <4> QED BY <3>9, <3>12, <4>1, <4>2
    <3> QED BY <3>6, <3>12
  <2> QED BY <2>1, <2>2
<1>5. DOMAIN units' = DOMAIN units
  BY <1>4, Zenon
<1>6. UnitsAreOfTemplates' /\ ExecutorsAreOfUnits'
  BY <1>1, <1>4, <1>5
     DEF BootInv, UnitsAreOfTemplates, ExecutorsAreOfUnits, Registry!IsClonable
<1>7. PhaseOfBoot'
  BY <1>1, <1>5 DEF BootInv, PhaseOfBoot
<1> QED BY <1>3, <1>6, <1>7 DEF BootInv

LEMMA ExitKeeps ==
    ASSUME BootInv, NEW x, Registry!Exit(x)
    PROVE  BootInv'
<1>1. /\ running' \subseteq running
      /\ UNCHANGED <<templates, units, boot_pc, starting, booted>>
  BY DEF Registry!Exit
<1> QED BY <1>1 DEF BootInv, TemplatesAreWorkers, UnitsAreOfTemplates, ExecutorsAreOfUnits,
                    PhaseOfBoot, Registry!IsClonable

LEMMA BootIsInductive ==
    ASSUME WorkersAreNamed, BootInv, [SetUpNext]_all
    PROVE  BootInv'
<1>1. CASE Registry!Next
  <2>1. ASSUME NEW batch \in Registry!Batches, Registry!Register(batch) PROVE BootInv'
    BY <2>1, RegisterKeeps
  <2>2. CASE Registry!Boot
    BY <2>2, BootKeeps
  <2>3. ASSUME NEW n \in Registry!WorkerNames, Registry!StartOne(n) PROVE BootInv'
    BY <2>3, StartOneKeeps
  <2>4. ASSUME NEW n \in Registry!WorkerNames, Registry!Restart(n) PROVE BootInv'
    BY <2>4, RestartKeeps
  <2>5. ASSUME NEW x \in running, Registry!Exit(x) PROVE BootInv'
    BY <2>5, ExitKeeps
  <2>6. CASE UNCHANGED Registry!vars
    BY <2>6 DEF Registry!vars, BootInv, TemplatesAreWorkers, UnitsAreOfTemplates,
                ExecutorsAreOfUnits, PhaseOfBoot, Registry!IsClonable
  <2> QED BY <1>1, <2>1, <2>2, <2>3, <2>4, <2>5, <2>6 DEF Registry!Next
<1>2. CASE UNCHANGED boot_vars
  BY <1>2 DEF boot_vars, BootInv, TemplatesAreWorkers, UnitsAreOfTemplates,
              ExecutorsAreOfUnits, PhaseOfBoot, Registry!IsClonable
<1> QED BY <1>1, <1>2 DEF SetUpNext, InMachine, InClass, InClone, InBoot, InSettings, all

\* Workers that have names, registered by anybody at any time: every executor that is
\* alive is the only one of a unit of the supervisor, and units are exactly those of
\* the templates it booted with (supervisor.py:125-206). An executor belongs to its
\* unit because a unit is replaced only once its executor has gone, and its
\* replacement reaches no other because the name it filters by is not empty.
THEOREM UnitsStayAccounted ==
    ASSUME WorkersAreNamed
    PROVE  SetUpSpec => []UnitsAreAccounted
<1>1. SetUpInit => BootInv
  <2> SUFFICES ASSUME SetUpInit PROVE BootInv
    OBVIOUS
  <2>1. /\ templates = Registry!Nothing /\ units = Registry!Nothing /\ running = {}
        /\ boot_pc = "idle" /\ starting = {}
    BY DEF SetUpInit, Registry!Init
  <2>2. DOMAIN Registry!Nothing = {} /\ \A S : Registry!Nothing \in [{} -> S]
    BY DEF Registry!Nothing
  <2> HIDE DEF Registry!Nothing
  <2> QED BY <2>1, <2>2 DEF BootInv, TemplatesAreWorkers,
         UnitsAreOfTemplates, ExecutorsAreOfUnits, PhaseOfBoot
<1>2. BootInv /\ [SetUpNext]_all => BootInv'
  BY BootIsInductive
<1>3. BootInv => UnitsAreAccounted
  BY DEF BootInv, TemplatesAreWorkers, UnitsAreOfTemplates, ExecutorsAreOfUnits, PhaseOfBoot,
         UnitsAreAccounted, Registry!UnitsAreAccounted, Registry!NoExecutorIsForgotten,
         Registry!RunsWhatBooted
<1> QED BY <1>1, <1>2, <1>3, PTL DEF SetUpSpec

-----------------------------------------------------------------------------
(* Hooks. What a fold over a sequence comes to, by induction on the numbers up to its *)
(* length: a set of numbers with 0 and with every successor has all of them. *)

LEMMA LeastElement ==
    ASSUME NEW S \in SUBSET Nat, S # {} PROVE \E d \in S : \A u \in S : d <= u
<1> DEFINE R == OpToRel(<, Nat)
<1>1. \E d \in S : \A u \in S : ~(<<u, d>> \in R)
  <2> HIDE DEF R
  <2>1. IsWellFoundedOn(R, Nat)
      BY NatLessThanWellFounded DEF R
  <2> QED BY <2>1, WFMin
<1>2. \A u, d \in S : ~(<<u, d>> \in R) => d <= u
    BY DEF OpToRel
<1> QED BY <1>1, <1>2

LEMMA UpToInduction ==
    ASSUME NEW n \in Nat, NEW G, 0 \in G, \A k \in 0..n : k \in G /\ k < n => k + 1 \in G
    PROVE  \A k \in 0..n : k \in G
<1> SUFFICES ASSUME (0..n) \ G # {} PROVE FALSE
  OBVIOUS
<1>1. (0..n) \ G \in SUBSET Nat
  OBVIOUS
<1>2. PICK d \in (0..n) \ G : \A u \in (0..n) \ G : d <= u
  BY <1>1, LeastElement
<1>3. d \in Nat /\ d <= n /\ d # 0
  BY <1>2
<1>4. d - 1 \in 0..n /\ d - 1 < n /\ d - 1 + 1 = d
  BY <1>3
<1>5. d - 1 \in G
  BY <1>2, <1>4
<1>6. d \in G
  BY <1>4, <1>5
<1> QED BY <1>2, <1>6

\* A recursive definition over a sequence defines a function.
IsFold(f, base, step, n) == f[0] = base /\ \A i \in 1..n : f[i] = step[<<i, f[i-1]>>]

LEMMA FoldExists ==
    ASSUME NEW S, NEW base \in S, NEW n \in Nat, NEW step \in [(1..n) \X S -> S]
    PROVE  \E f \in [0..n -> S] : IsFold(f, base, step, n)
<1> USE DEF IsFold
<1> DEFINE G == {k \in 0..n : \E f \in [0..k -> S] : IsFold(f, base, step, k)}
<1>1. 0 \in G
  <2> DEFINE g == [i \in 0..0 |-> base]
  <2>1. g \in [0..0 -> S] /\ g[0] = base /\ 1..0 = {}
    OBVIOUS
  <2> HIDE DEF g
  <2>2. IsFold(g, base, step, 0) /\ 0 \in 0..n
    BY <2>1
  <2> QED BY <2>1, <2>2
<1>2. ASSUME NEW k \in 0..n, k \in G, k < n PROVE k + 1 \in G
  <2>1. PICK f \in [0..k -> S] : IsFold(f, base, step, k)
    BY <1>2
  <2>2. f[k] \in S /\ k + 1 \in 1..n /\ <<k + 1, f[k]>> \in (1..n) \X S
    BY <1>2, <2>1
  <2>3. step[<<k + 1, f[k]>>] \in S
    BY <2>2
  <2> DEFINE g == [i \in 0..k + 1 |-> IF i = k + 1 THEN step[<<k + 1, f[k]>>] ELSE f[i]]
  <2>4. g \in [0..k + 1 -> S]
    BY <2>3
  <2>5. g[0] = base
    BY <2>1
  <2>6. ASSUME NEW i \in 1..k + 1 PROVE g[i] = step[<<i, g[i-1]>>]
    <3>1. CASE i = k + 1
      <4>1. i - 1 = k /\ k \in 0..k + 1 /\ k # k + 1
        BY <3>1
      <4>2. g[i-1] = f[k] /\ g[i] = step[<<k + 1, f[k]>>]
        BY <3>1, <4>1
      <4> QED BY <3>1, <4>1, <4>2
    <3>2. CASE i # k + 1
      <4>1. i \in 1..k /\ i - 1 \in 0..k
        BY <3>2
      <4>2. g[i] = f[i] /\ g[i-1] = f[i-1]
        BY <4>1
      <4> QED BY <2>1, <4>1, <4>2
    <3> QED BY <3>1, <3>2
  <2> HIDE DEF g
  <2>7. IsFold(g, base, step, k + 1) /\ k + 1 \in 0..n
    BY <2>2, <2>5, <2>6
  <2> QED BY <2>4, <2>7
<1> HIDE DEF G
<1>3. n \in G
  BY <1>1, <1>2, UpToInduction
<1> QED BY <1>3 DEF G

Maps == [Hooks -> Seq(Methods)]
Entries == [method : Methods, hooks : Seq(Hooks), is_coro : BOOLEAN]

\* What a map holds for a hook that these claims were made for.
Held(h, claims) == IF h[1] = "actor" THEN Class!LastClaim(claims) ELSE claims

Copies(n, m) == [j \in 1..n |-> m]

Seen(h, s, k) == Cardinality({j \in 1..k : s[j] = h})

LEMMA OneMoreCopy ==
    ASSUME NEW claims \in Seq(Methods), NEW n \in Nat, NEW m \in Methods
    PROVE  /\ Copies(n, m) \in Seq(Methods)
           /\ claims \o Copies(n, m) \in Seq(Methods)
           /\ claims \o Copies(0, m) = claims
           /\ Append(claims \o Copies(n, m), m) = claims \o Copies(n + 1, m)
<1>1. /\ Copies(n, m) \in Seq(Methods) /\ Len(Copies(n, m)) = n
      /\ Copies(n + 1, m) \in Seq(Methods) /\ Len(Copies(n + 1, m)) = n + 1
  BY DEF Copies
<1>2. \A i \in 1..n : Copies(n, m)[i] = m
  BY DEF Copies
<1>3. \A i \in 1..n + 1 : Copies(n + 1, m)[i] = m
  BY DEF Copies
<1>4. Copies(0, m) = <<>>
  BY DEF Copies
<1>5. Append(Copies(n, m), m) = Copies(n + 1, m)
  <2>1. /\ Append(Copies(n, m), m) \in Seq(Methods) /\ Len(Append(Copies(n, m), m)) = n + 1
        /\ \A i \in 1..n + 1 : Append(Copies(n, m), m)[i] = m
    BY <1>1, <1>2, AppendProperties
  <2> QED BY <1>1, <1>3, <2>1, SeqEqual
<1>6. claims \o Copies(n, m) \in Seq(Methods) /\ <<m>> \in Seq(Methods)
  BY <1>1, ConcatProperties
<1>7. Append(claims \o Copies(n, m), m) = (claims \o Copies(n, m)) \o <<m>>
  BY <1>6, AppendIsConcat
<1>8. Append(Copies(n, m), m) = Copies(n, m) \o <<m>>
  BY <1>1, AppendIsConcat
<1>9. (claims \o Copies(n, m)) \o <<m>> = claims \o (Copies(n, m) \o <<m>>)
  BY <1>1, <1>6, ConcatAssociative
<1> QED BY <1>1, <1>4, <1>5, <1>6, <1>7, <1>8, <1>9, ConcatEmptySeq

LEMMA SeenGrows ==
    ASSUME NEW h, NEW s, NEW k \in Nat
    PROVE  /\ Seen(h, s, k) \in Nat /\ Seen(h, s, 0) = 0
           /\ s[k + 1] = h => Seen(h, s, k + 1) = Seen(h, s, k) + 1
           /\ s[k + 1] # h => Seen(h, s, k + 1) = Seen(h, s, k)
<1> DEFINE S(n) == {j \in 1..n : s[j] = h}
<1>1. S(0) = {}
  OBVIOUS
<1>2. IsFiniteSet(1..k) /\ S(k) \in SUBSET (1..k)
  BY FS_Interval
<1>3. IsFiniteSet(S(k))
  BY <1>2, FS_Subset
<1>4. s[k + 1] = h => S(k + 1) = S(k) \cup {k + 1} /\ k + 1 \notin S(k)
  OBVIOUS
<1>5. s[k + 1] # h => S(k + 1) = S(k)
  OBVIOUS
<1> HIDE DEF S
<1>6. Cardinality(S(0)) = 0
  BY <1>1, FS_EmptySet
<1>7. Cardinality(S(k)) \in Nat
  BY <1>3, FS_CardinalityType
<1>8. s[k + 1] = h => Cardinality(S(k + 1)) = Cardinality(S(k)) + 1
  BY <1>3, <1>4, FS_AddElement
<1> QED BY <1>5, <1>6, <1>7, <1>8 DEF Seen, S

LEMMA SeenReversed ==
    ASSUME NEW h, NEW entry \in Entries
    PROVE  /\ Class!Noted(entry) \in Seq(Hooks) /\ Len(Class!Noted(entry)) = Len(entry.hooks)
           /\ Seen(h, Class!Noted(entry), Len(entry.hooks)) = Class!Times(h, entry)
<1> DEFINE s == entry.hooks
           n == Len(s)
           r == Class!Noted(entry)
           A == {k \in DOMAIN s : s[k] = h}
           B == {j \in 1..n : r[j] = h}
<1>1. s \in Seq(Hooks) /\ n \in Nat /\ DOMAIN s = 1..n
  BY DEF Entries
<1>2. r = [i \in 1..n |-> s[(n - i) + 1]]
  BY DEF Class!Noted, Class!Reverse
<1> HIDE DEF r, s
<1>3. r \in Seq(Hooks) /\ Len(r) = n
  BY <1>1, <1>2
<1> DEFINE flip == [k \in A |-> (n - k) + 1]
<1>4. \A k \in A : k \in 1..n /\ (n - k) + 1 \in B
  <2> SUFFICES ASSUME NEW k \in A PROVE k \in 1..n /\ (n - k) + 1 \in B
    OBVIOUS
  <2>1. k \in 1..n /\ (n - k) + 1 \in 1..n /\ (n - ((n - k) + 1)) + 1 = k
    BY <1>1
  <2>2. r[(n - k) + 1] = s[k]
    BY <1>2, <2>1
  <2> QED BY <2>1, <2>2
<1>5. ASSUME NEW j \in B PROVE \E k \in A : flip[k] = j
  <2>1. j \in 1..n /\ (n - j) + 1 \in 1..n /\ (n - ((n - j) + 1)) + 1 = j
    BY <1>1
  <2>2. s[(n - j) + 1] = h
    BY <1>2, <2>1
  <2>3. (n - j) + 1 \in A
    BY <1>1, <2>1, <2>2
  <2> QED BY <2>1, <2>3
<1>6. flip \in Bijection(A, B)
  <2>1. flip \in [A -> B]
    BY <1>4
  <2>2. \A j, k \in A : flip[j] = flip[k] => j = k
    BY <1>1, <1>4
  <2> HIDE DEF flip, A, B
  <2> QED BY <1>5, <2>1, <2>2 DEF Bijection, Injection, Surjection, IsInjective
<1>7. IsFiniteSet(A)
  <2>1. IsFiniteSet(1..n) /\ A \in SUBSET (1..n)
    BY <1>1, FS_Interval
  <2> QED BY <2>1, FS_Subset
<1>8. Cardinality(A) = Cardinality(B)
  <2> HIDE DEF A, B
  <2> QED BY <1>6, <1>7, FS_Bijection DEF ExistsBijection
<1>9. Class!Times(h, entry) = Cardinality(A)
  BY Zenon DEF Class!Times, Class!Cardinality, Cardinality, s
<1> QED BY <1>3, <1>8, <1>9 DEF Seen, r, s

\* A hook is registered: the map holds one claim more for it, and the same for others.
LEMMA RegisterAddsAClaim ==
    ASSUME NEW map \in Maps, NEW g \in Hooks, NEW m \in Methods
    PROVE  /\ Class!Registered(map, g, m) \in Maps
           /\ \A h \in Hooks, claims \in Seq(Methods) : map[h] = Held(h, claims) =>
                Class!Registered(map, g, m)[h] =
                    Held(h, IF h = g THEN Append(claims, m) ELSE claims)
<1>1. map[g] \in Seq(Methods)
  BY DEF Maps
<1>2. <<m>> \in Seq(Methods) /\ Append(map[g], m) \in Seq(Methods)
  BY <1>1
<1>3. Class!Registered(map, g, m) \in Maps
  BY <1>2 DEF Maps, Class!Registered
<1>4. ASSUME NEW h \in Hooks, NEW claims \in Seq(Methods), map[h] = Held(h, claims)
      PROVE  Class!Registered(map, g, m)[h] =
                Held(h, IF h = g THEN Append(claims, m) ELSE claims)
  <2>1. CASE h = g
    <3>1. /\ Append(claims, m) # <<>> /\ Len(Append(claims, m)) = Len(claims) + 1
          /\ Append(claims, m)[Len(claims) + 1] = m
      BY AppendProperties
    <3>2. Class!LastClaim(Append(claims, m)) = <<m>>
      BY <3>1 DEF Class!LastClaim, Class!Last
    <3>3. Class!Registered(map, g, m)[g] =
            IF g[1] = "actor" THEN <<m>> ELSE Append(map[g], m)
      BY DEF Maps, Class!Registered
    <3> QED BY <1>4, <2>1, <3>2, <3>3 DEF Held
  <2>2. CASE h # g
    <3>1. Class!Registered(map, g, m)[h] = map[h]
      BY <2>2 DEF Maps, Class!Registered
    <3> QED BY <1>4, <2>2, <3>1
  <2> QED BY <2>1, <2>2
<1> QED BY <1>3, <1>4

\* All the notes of a function: its name is claimed once for each.
LEMMA EntryAddsItsClaims ==
    ASSUME NEW map \in Maps, NEW entry \in Entries
    PROVE  /\ Class!CollectedEntry(map, entry) \in Maps
           /\ \A h \in Hooks, claims \in Seq(Methods) : map[h] = Held(h, claims) =>
                Class!CollectedEntry(map, entry)[h] =
                    Held(h, claims \o Copies(Class!Times(h, entry), entry.method))
<1> DEFINE noted == Class!Noted(entry)
           n == Len(noted)
           m == entry.method
           F(f) == [i \in 0..n |-> IF i = 0 THEN map ELSE Class!Registered(f[i-1], noted[i], m)]
           after == CHOOSE f : f = F(f)
           step == [p \in (1..n) \X Maps |-> Class!Registered(p[2], noted[p[1]], m)]
<1>1. /\ noted \in Seq(Hooks) /\ n = Len(entry.hooks) /\ n \in Nat /\ m \in Methods
      /\ \A i \in 1..n : noted[i] \in Hooks
  <2>1. noted \in Seq(Hooks) /\ n = Len(entry.hooks)
    BY SeenReversed
  <2>2. m \in Methods
    BY DEF Entries
  <2> QED BY <2>1, <2>2
<1>2. step \in [(1..n) \X Maps -> Maps]
  <2> SUFFICES ASSUME NEW p \in (1..n) \X Maps PROVE Class!Registered(p[2], noted[p[1]], m) \in Maps
    OBVIOUS
  <2>1. p[2] \in Maps /\ noted[p[1]] \in Hooks
    BY <1>1
  <2> QED BY <1>1, <2>1, RegisterAddsAClaim
<1>3. \E f \in [0..n -> Maps] : IsFold(f, map, step, n)
  <2>1. n \in Nat
    BY <1>1
  <2> HIDE DEF step, n, noted, m, F, after
  <2> QED BY <1>2, <2>1, FoldExists
<1>4. \E f : f = F(f)
  <2>1. PICK f \in [0..n -> Maps] : f[0] = map /\ \A i \in 1..n : f[i] = step[<<i, f[i-1]>>]
    BY <1>3 DEF IsFold
  <2>2. ASSUME NEW i \in 0..n, i # 0 PROVE f[i] = Class!Registered(f[i-1], noted[i], m)
    <3>1. i \in 1..n /\ i - 1 \in 0..n
      <4>1. n \in Nat
        BY <1>1
      <4> HIDE DEF n
      <4> QED BY <2>2, <4>1
    <3>2. <<i, f[i-1]>> \in (1..n) \X Maps
      <4> HIDE DEF n, step
      <4> QED BY <2>1, <3>1
    <3> QED BY <2>1, <3>1, <3>2
  <2>3. f = F(f)
    <3> HIDE DEF n, noted, m
    <3>1. \A i \in 0..n : f[i] = IF i = 0 THEN map ELSE Class!Registered(f[i-1], noted[i], m)
      BY <2>1, <2>2
    <3> QED BY <2>1, <3>1
  <2> QED BY <2>3
<1>5. after = F(after)
  <2> HIDE DEF F
  <2> QED BY <1>4
<1>6. Class!CollectedEntry(map, entry) = after[n]
  BY Zenon DEF Class!CollectedEntry
<1> DEFINE G == {k \in 0..n :
                    /\ after[k] \in Maps
                    /\ \A h \in Hooks, claims \in Seq(Methods) : map[h] = Held(h, claims) =>
                        after[k][h] = Held(h, claims \o Copies(Seen(h, noted, k), m))}
<1> HIDE DEF after, step, noted, n, m
<1>7. after[0] = map /\ \A i \in 1..n : after[i] = Class!Registered(after[i-1], noted[i], m)
  <2>1. 0 \in 0..n /\ 1..n \subseteq 0..n /\ \A i \in 1..n : i # 0
    BY <1>1
  <2> QED BY <1>5, <2>1
<1>8. 0 \in G
  <2>1. \A h \in Hooks : Seen(h, noted, 0) = 0
    BY SeenGrows
  <2>2. \A claims \in Seq(Methods) : claims \o Copies(0, m) = claims
    BY <1>1, OneMoreCopy
  <2>3. \A h \in Hooks, claims \in Seq(Methods) :
            claims \o Copies(Seen(h, noted, 0), m) = claims
    BY <2>1, <2>2
  <2>4. 0 \in 0..n
    BY <1>1
  <2> QED BY <1>7, <2>3, <2>4
<1>9. ASSUME NEW k \in 0..n, k \in G, k < n PROVE k + 1 \in G
  <2>1. k \in Nat /\ k + 1 \in 1..n /\ k + 1 - 1 = k /\ k + 1 \in 0..n
    BY <1>1, <1>9
  <2>2. after[k + 1] = Class!Registered(after[k], noted[k + 1], m) /\ noted[k + 1] \in Hooks
    BY <1>1, <1>7, <2>1
  <2>3. after[k + 1] \in Maps
    BY <1>1, <1>9, <2>2, RegisterAddsAClaim
  <2>4. ASSUME NEW h \in Hooks, NEW claims \in Seq(Methods), map[h] = Held(h, claims)
        PROVE  after[k + 1][h] = Held(h, claims \o Copies(Seen(h, noted, k + 1), m))
    <3> DEFINE so_far == claims \o Copies(Seen(h, noted, k), m)
    <3>1. /\ Seen(h, noted, k) \in Nat
          /\ noted[k + 1] = h => Seen(h, noted, k + 1) = Seen(h, noted, k) + 1
          /\ noted[k + 1] # h => Seen(h, noted, k + 1) = Seen(h, noted, k)
      BY <2>1, SeenGrows
    <3>2. so_far \in Seq(Methods)
      BY <1>1, <3>1, OneMoreCopy
    <3>3. after[k][h] = Held(h, so_far)
      BY <1>9, <2>4
    <3> HIDE DEF so_far
    <3>4. after[k + 1][h] =
            Held(h, IF h = noted[k + 1] THEN Append(so_far, m) ELSE so_far)
      BY <1>1, <1>9, <2>2, <3>2, <3>3, RegisterAddsAClaim
    <3>5. CASE noted[k + 1] = h
      <4>1. Append(so_far, m) = claims \o Copies(Seen(h, noted, k) + 1, m)
        BY <1>1, <3>1, OneMoreCopy DEF so_far
      <4> QED BY <3>1, <3>4, <3>5, <4>1
    <3>6. CASE noted[k + 1] # h
      BY <3>1, <3>4, <3>6 DEF so_far
    <3> QED BY <3>5, <3>6
  <2> QED BY <2>1, <2>3, <2>4
<1>10. n \in G
  <2> HIDE DEF G
  <2>1. \A k \in 0..n : k \in G
    BY <1>1, <1>8, <1>9, UpToInduction
  <2> QED BY <1>1, <2>1
<1>11. \A h \in Hooks : Seen(h, noted, n) = Class!Times(h, entry)
  BY <1>1, SeenReversed DEF noted
<1> QED BY <1>6, <1>10, <1>11 DEF m

\* A flattened sequence, one at a time.
LEMMA FlattenIs ==
    ASSUME NEW S, NEW ss \in Seq(Seq(S)), ss # <<>>
    PROVE  \E g \in [1..Len(ss) -> Seq(S)] :
              /\ g[1] = ss[1] /\ \A i \in 1..Len(ss) : i # Len(ss) => g[i+1] = g[i] \o ss[i+1]
              /\ Class!FlattenSeq(ss) = g[Len(ss)]
<1> DEFINE n == Len(ss)
           F(f) == [i \in 1..n |-> IF i = 1 THEN ss[i] ELSE f[i-1] \o ss[i]]
           flat == CHOOSE f : f = F(f)
           step == [p \in (1..n) \X Seq(S) |-> p[2] \o ss[p[1]]]
<1>1. n \in Nat /\ n # 0 /\ \A i \in 1..n : ss[i] \in Seq(S)
  BY EmptySeq
<1>2. step \in [(1..n) \X Seq(S) -> Seq(S)]
  <2> SUFFICES ASSUME NEW p \in (1..n) \X Seq(S) PROVE p[2] \o ss[p[1]] \in Seq(S)
    OBVIOUS
  <2>1. p[2] \in Seq(S) /\ ss[p[1]] \in Seq(S)
    BY <1>1
  <2> QED BY <2>1, ConcatProperties
<1>3. \E f \in [0..n -> Seq(S)] : IsFold(f, <<>>, step, n)
  <2>1. n \in Nat /\ <<>> \in Seq(S)
    BY <1>1
  <2> HIDE DEF step, n, F, flat
  <2> QED BY <1>2, <2>1, FoldExists
<1>4. \E f : f = F(f)
  <2>1. PICK f \in [0..n -> Seq(S)] : f[0] = <<>> /\ \A i \in 1..n : f[i] = step[<<i, f[i-1]>>]
    BY <1>3 DEF IsFold
  <2>2. ASSUME NEW i \in 1..n PROVE f[i] = f[i-1] \o ss[i]
    <3>1. i \in 1..n /\ i - 1 \in 0..n
      <4>1. n \in Nat
        BY <1>1
      <4> HIDE DEF n
      <4> QED BY <2>2, <4>1
    <3>2. <<i, f[i-1]>> \in (1..n) \X Seq(S)
      <4> HIDE DEF n, step
      <4> QED BY <2>1, <3>1
    <3> QED BY <2>1, <3>1, <3>2
  <2> DEFINE g == [i \in 1..n |-> f[i]]
  <2>3. g = F(g)
    <3>1. f[1] = ss[1]
      <4>1. 1 \in 1..n /\ 1 - 1 = 0
        BY <1>1
      <4>2. f[1] = f[1 - 1] \o ss[1] /\ ss[1] \in Seq(S)
        BY <1>1, <2>2, <4>1
      <4>3. f[1 - 1] = <<>>
        BY <2>1, <4>1
      <4> QED BY <4>2, <4>3, ConcatEmptySeq
    <3>2. \A i \in 1..n : i # 1 => i - 1 \in 1..n
      BY <1>1
    <3> HIDE DEF n
    <3>3. \A i \in 1..n : g[i] = IF i = 1 THEN ss[i] ELSE g[i-1] \o ss[i]
      BY <2>2, <3>1, <3>2
    <3> QED BY <3>3
  <2> HIDE DEF F, g
  <2> QED BY <2>3
<1>5. flat = F(flat)
  <2> HIDE DEF F
  <2> QED BY <1>4
<1>6. Class!FlattenSeq(ss) = flat[n]
  <2>1. Len(ss) # 0
    BY <1>1
  <2> QED BY <2>1, Zenon DEF Class!FlattenSeq
<1> HIDE DEF flat, n
<1>7. flat[1] = ss[1] /\ \A i \in 1..n : i # n => flat[i+1] = flat[i] \o ss[i+1]
  <2>1. flat[1] = ss[1]
    BY <1>1, <1>5
  <2>2. ASSUME NEW i \in 1..n, i # n PROVE flat[i+1] = flat[i] \o ss[i+1]
    <3>1. PICK j \in 1..n : j = i + 1
      BY <1>1, <2>2
    <3>2. j # 1 /\ j - 1 = i
      BY <1>1, <3>1
    <3>3. flat[j] = flat[j-1] \o ss[j]
      BY <1>5, <3>2
    <3> QED BY <3>1, <3>2, <3>3
  <2> QED BY <2>1, <2>2
<1>8. \A i \in 1..n : flat[i] \in Seq(S)
  <2> DEFINE G == {k \in 0..n : k = 0 \/ flat[k] \in Seq(S)}
  <2>1. 0 \in G
    BY <1>1
  <2>2. ASSUME NEW k \in 0..n, k \in G, k < n PROVE k + 1 \in G
    <3>1. k + 1 \in 1..n /\ k + 1 \in 0..n /\ ss[k + 1] \in Seq(S)
      BY <1>1, <2>2
    <3>2. CASE k = 0
      BY <1>7, <3>1, <3>2
    <3>3. CASE k # 0
      <4>1. k \in 1..n /\ k # n /\ flat[k] \in Seq(S)
        BY <1>1, <2>2, <3>3
      <4>2. flat[k + 1] = flat[k] \o ss[k + 1]
        BY <1>7, <4>1
      <4> QED BY <3>1, <4>1, <4>2, ConcatProperties
    <3> QED BY <3>2, <3>3
  <2>3. \A k \in 0..n : k \in G
    <3> HIDE DEF G
    <3> QED BY <1>1, <2>1, <2>2, UpToInduction
  <2>4. \A i \in 1..n : i \in 0..n /\ i # 0
    BY <1>1
  <2> QED BY <2>3, <2>4
<1>9. DOMAIN flat = 1..n /\ flat = [i \in 1..n |-> flat[i]]
  BY <1>5
<1>10. flat \in [1..n -> Seq(S)]
  BY <1>8, <1>9
<1> QED BY <1>6, <1>7, <1>10 DEF n

LEMMA FlattenAppend ==
    ASSUME NEW S, NEW ss \in Seq(Seq(S)), NEW s \in Seq(S)
    PROVE  /\ Class!FlattenSeq(ss) \in Seq(S)
           /\ Class!FlattenSeq(Append(ss, s)) = Class!FlattenSeq(ss) \o s
<1> DEFINE n == Len(ss)
           t == Append(ss, s)
<1>1. /\ n \in Nat /\ t \in Seq(Seq(S)) /\ t # <<>> /\ Len(t) = n + 1
      /\ (\A i \in 1..n : t[i] = ss[i]) /\ t[n + 1] = s
  BY AppendProperties
<1>2. CASE ss = <<>>
  <2>1. n = 0 /\ Class!FlattenSeq(ss) = <<>>
    BY <1>2 DEF Class!FlattenSeq
  <2>2. PICK g \in [1..Len(t) -> Seq(S)] :
            /\ g[1] = t[1] /\ \A i \in 1..Len(t) : i # Len(t) => g[i+1] = g[i] \o t[i+1]
            /\ Class!FlattenSeq(t) = g[Len(t)]
    <3> HIDE DEF t
    <3> QED BY <1>1, FlattenIs
  <2>3. Class!FlattenSeq(t) = s
    BY <1>1, <2>1, <2>2
  <2> QED BY <2>1, <2>3, ConcatEmptySeq
<1>3. CASE ss # <<>>
  <2>1. PICK f \in [1..n -> Seq(S)] :
            /\ f[1] = ss[1] /\ \A i \in 1..n : i # n => f[i+1] = f[i] \o ss[i+1]
            /\ Class!FlattenSeq(ss) = f[n]
    BY <1>3, FlattenIs
  <2>2. PICK g \in [1..Len(t) -> Seq(S)] :
            /\ g[1] = t[1] /\ \A i \in 1..Len(t) : i # Len(t) => g[i+1] = g[i] \o t[i+1]
            /\ Class!FlattenSeq(t) = g[Len(t)]
    <3> HIDE DEF t
    <3> QED BY <1>1, FlattenIs
  <2>3. n # 0
    BY <1>3, EmptySeq
  <2> HIDE DEF t, n
  <2> DEFINE G == {k \in 0..n : k = 0 \/ g[k] = f[k]}
  <2>4. 0 \in G
    BY <1>1
  <2>5. ASSUME NEW k \in 0..n, k \in G, k < n PROVE k + 1 \in G
    <3>1. k + 1 \in 1..n /\ k + 1 \in 0..n /\ t[k + 1] = ss[k + 1]
      BY <1>1, <2>5
    <3>2. CASE k = 0
      BY <2>1, <2>2, <3>1, <3>2
    <3>3. CASE k # 0
      <4>1. k \in 1..n /\ k # n /\ k \in 1..Len(t) /\ k # Len(t) /\ g[k] = f[k]
        BY <1>1, <2>5, <3>3
      <4> QED BY <2>1, <2>2, <3>1, <4>1
    <3> QED BY <3>2, <3>3
  <2>6. n \in G
    <3> HIDE DEF G
    <3>1. \A k \in 0..n : k \in G
      BY <1>1, <2>4, <2>5, UpToInduction
    <3>2. n \in 0..n
      BY <1>1
    <3> QED BY <3>1, <3>2
  <2>7. g[n] = f[n] /\ n \in 1..n /\ n \in 1..Len(t) /\ n # Len(t)
    BY <1>1, <2>3, <2>6
  <2>8. g[n + 1] = f[n] \o s
    BY <1>1, <2>2, <2>7
  <2>9. f[n] \in Seq(S)
    BY <2>1, <2>7
  <2> QED BY <1>1, <2>1, <2>2, <2>8, <2>9 DEF t
<1> QED BY <1>2, <1>3

EntryClaims(h, entry) == Copies(Class!Times(h, entry), entry.method)

\* The claims of the first k functions of a body.
ClaimsUpTo(h, entries, k) == [i \in 1..k |-> EntryClaims(h, entries[i])]

LEMMA EntryClaimsAreClaims ==
    ASSUME NEW h, NEW entry \in Entries
    PROVE  EntryClaims(h, entry) \in Seq(Methods)
<1>1. Class!Times(h, entry) \in Nat
  <2>1. Len(entry.hooks) \in Nat
    BY DEF Entries
  <2>2. Seen(h, Class!Noted(entry), Len(entry.hooks)) \in Nat
    BY <2>1, SeenGrows
  <2> QED BY <2>2, SeenReversed
<1>2. entry.method \in Methods
  BY DEF Entries
<1> QED BY <1>1, <1>2 DEF EntryClaims, Copies

LEMMA ClaimsGrow ==
    ASSUME NEW h, NEW entries \in Seq(Entries), NEW k \in 0..Len(entries)
    PROVE  /\ ClaimsUpTo(h, entries, k) \in Seq(Seq(Methods))
           /\ ClaimsUpTo(h, entries, 0) = <<>>
           /\ k < Len(entries) =>
                /\ entries[k + 1] \in Entries
                /\ ClaimsUpTo(h, entries, k + 1) =
                       Append(ClaimsUpTo(h, entries, k), EntryClaims(h, entries[k + 1]))
<1>1. \A i \in 1..Len(entries) : entries[i] \in Entries /\ EntryClaims(h, entries[i]) \in Seq(Methods)
  BY EntryClaimsAreClaims
<1>2. \A j \in 0..Len(entries) :
        /\ ClaimsUpTo(h, entries, j) \in Seq(Seq(Methods)) /\ Len(ClaimsUpTo(h, entries, j)) = j
        /\ \A i \in 1..j : ClaimsUpTo(h, entries, j)[i] = EntryClaims(h, entries[i])
  <2> SUFFICES ASSUME NEW j \in 0..Len(entries)
               PROVE  /\ ClaimsUpTo(h, entries, j) \in Seq(Seq(Methods))
                      /\ Len(ClaimsUpTo(h, entries, j)) = j
                      /\ \A i \in 1..j : ClaimsUpTo(h, entries, j)[i] = EntryClaims(h, entries[i])
    OBVIOUS
  <2>1. j \in Nat /\ 1..j \subseteq 1..Len(entries)
    OBVIOUS
  <2>2. \A i \in 1..j : EntryClaims(h, entries[i]) \in Seq(Methods)
    BY <1>1, <2>1
  <2> QED BY <2>1, <2>2 DEF ClaimsUpTo
<1>3. ClaimsUpTo(h, entries, 0) = <<>>
  BY DEF ClaimsUpTo
<1>4. ASSUME k < Len(entries)
      PROVE  ClaimsUpTo(h, entries, k + 1) =
                 Append(ClaimsUpTo(h, entries, k), EntryClaims(h, entries[k + 1]))
  <2> DEFINE s == ClaimsUpTo(h, entries, k)
             e == EntryClaims(h, entries[k + 1])
             t == ClaimsUpTo(h, entries, k + 1)
  <2>1. k \in Nat /\ k + 1 \in 1..Len(entries) /\ k + 1 \in 0..Len(entries)
    BY <1>4
  <2>2. s \in Seq(Seq(Methods)) /\ Len(s) = k /\ t \in Seq(Seq(Methods)) /\ Len(t) = k + 1
    BY <1>2, <2>1
  <2>3. e \in Seq(Methods)
    BY <1>1, <2>1
  <2>4. \A i \in 1..k : s[i] = EntryClaims(h, entries[i])
    BY <1>2
  <2>5. \A i \in 1..k + 1 : t[i] = EntryClaims(h, entries[i])
    BY <1>2, <2>1
  <2>6. /\ Append(s, e) \in Seq(Seq(Methods)) /\ Len(Append(s, e)) = k + 1
        /\ (\A i \in 1..k : Append(s, e)[i] = s[i]) /\ Append(s, e)[k + 1] = e
    <3> HIDE DEF s, e, t
    <3> QED BY <2>2, <2>3, AppendProperties
  <2>7. \A i \in 1..k + 1 : t[i] = Append(s, e)[i]
    <3> SUFFICES ASSUME NEW i \in 1..k + 1 PROVE t[i] = Append(s, e)[i]
      OBVIOUS
    <3>1. CASE i = k + 1
      <4>1. t[i] = EntryClaims(h, entries[i])
        BY <2>5
      <4> HIDE DEF t, s
      <4> QED BY <2>6, <3>1, <4>1
    <3>2. CASE i # k + 1
      <4>1. i \in 1..k
        BY <3>2
      <4> HIDE DEF t, s, e
      <4> QED BY <2>4, <2>5, <2>6, <4>1
    <3> QED BY <3>1, <3>2
  <2> HIDE DEF t, s, e
  <2>8. t = Append(s, e)
    BY <2>2, <2>6, <2>7, SeqEqual
  <2> QED BY <2>8 DEF t, s, e
<1>5. k < Len(entries) => entries[k + 1] \in Entries
  BY <1>1
<1> QED BY <1>2, <1>3, <1>4, <1>5

\* A whole body: what its functions claim comes after what was there.
LEMMA BodyAddsItsClaims ==
    ASSUME NEW map \in Maps, NEW entries \in Seq(Entries)
    PROVE  /\ Class!Collected(map, entries) \in Maps
           /\ \A h \in Hooks : Class!Claims(h, entries) \in Seq(Methods)
           /\ \A h \in Hooks, claims \in Seq(Methods) : map[h] = Held(h, claims) =>
                Class!Collected(map, entries)[h] = Held(h, claims \o Class!Claims(h, entries))
<1> DEFINE n == Len(entries)
           F(f) == [i \in 0..n |-> IF i = 0 THEN map ELSE Class!CollectedEntry(f[i-1], entries[i])]
           after == CHOOSE f : f = F(f)
           step == [p \in (1..n) \X Maps |-> Class!CollectedEntry(p[2], entries[p[1]])]
           So(h, k) == Class!FlattenSeq(ClaimsUpTo(h, entries, k))
<1>1. n \in Nat /\ \A i \in 1..n : entries[i] \in Entries
  OBVIOUS
<1>2. step \in [(1..n) \X Maps -> Maps]
  <2> SUFFICES ASSUME NEW p \in (1..n) \X Maps
               PROVE  Class!CollectedEntry(p[2], entries[p[1]]) \in Maps
    OBVIOUS
  <2>1. p[2] \in Maps /\ entries[p[1]] \in Entries
    BY <1>1
  <2> QED BY <2>1, EntryAddsItsClaims
<1>3. \E f \in [0..n -> Maps] : IsFold(f, map, step, n)
  <2>1. n \in Nat
    BY <1>1
  <2> HIDE DEF step, n, F, after, So
  <2> QED BY <1>2, <2>1, FoldExists
<1>4. \E f : f = F(f)
  <2>1. PICK f \in [0..n -> Maps] : f[0] = map /\ \A i \in 1..n : f[i] = step[<<i, f[i-1]>>]
    BY <1>3 DEF IsFold
  <2>2. ASSUME NEW i \in 0..n, i # 0 PROVE f[i] = Class!CollectedEntry(f[i-1], entries[i])
    <3>1. i \in 1..n /\ i - 1 \in 0..n
      <4>1. n \in Nat
        BY <1>1
      <4> HIDE DEF n
      <4> QED BY <2>2, <4>1
    <3>2. <<i, f[i-1]>> \in (1..n) \X Maps
      <4> HIDE DEF n, step
      <4> QED BY <2>1, <3>1
    <3> QED BY <2>1, <3>1, <3>2
  <2>3. f = F(f)
    <3> HIDE DEF n
    <3>1. \A i \in 0..n : f[i] = IF i = 0 THEN map ELSE Class!CollectedEntry(f[i-1], entries[i])
      BY <2>1, <2>2
    <3> QED BY <2>1, <3>1
  <2> QED BY <2>3
<1>5. after = F(after)
  <2> HIDE DEF F
  <2> QED BY <1>4
<1>6. Class!Collected(map, entries) = after[n]
  BY Zenon DEF Class!Collected
<1>7. \A h \in Hooks : Class!Claims(h, entries) = So(h, n)
  <2>1. DOMAIN entries = 1..n
    OBVIOUS
  <2> HIDE DEF n
  <2>2. \A h \in Hooks :
            [i \in DOMAIN entries |->
                [j \in 1..Class!Times(h, entries[i]) |-> entries[i].method]] =
            ClaimsUpTo(h, entries, n)
    BY <2>1 DEF ClaimsUpTo, EntryClaims, Copies
  <2> QED BY <2>2, Zenon DEF Class!Claims
<1> DEFINE G == {k \in 0..n :
                    /\ after[k] \in Maps
                    /\ \A h \in Hooks, claims \in Seq(Methods) : map[h] = Held(h, claims) =>
                        after[k][h] = Held(h, claims \o So(h, k))}
<1> HIDE DEF after, step, n
<1>8. after[0] = map /\ \A i \in 1..n : after[i] = Class!CollectedEntry(after[i-1], entries[i])
  <2>1. 0 \in 0..n /\ 1..n \subseteq 0..n /\ \A i \in 1..n : i # 0
    BY <1>1
  <2> QED BY <1>5, <2>1
<1> HIDE DEF F
<1>9. 0 \in G
  <2>1. 0 \in 0..n
    BY <1>1
  <2>2. \A h \in Hooks : So(h, 0) = <<>>
    <3> SUFFICES ASSUME NEW h \in Hooks PROVE So(h, 0) = <<>>
      OBVIOUS
    <3>1. ClaimsUpTo(h, entries, 0) = <<>>
      BY DEF ClaimsUpTo
    <3> QED BY <3>1 DEF Class!FlattenSeq
  <2>3. \A h \in Hooks, claims \in Seq(Methods) : claims \o So(h, 0) = claims
    BY <2>2, ConcatEmptySeq
  <2> HIDE DEF So
  <2> QED BY <1>8, <2>1, <2>3
<1>10. ASSUME NEW k \in 0..n, k \in G, k < n PROVE k + 1 \in G
  <2>1. k \in Nat /\ k + 1 \in 1..n /\ k + 1 - 1 = k /\ k + 1 \in 0..n
    BY <1>1, <1>10
  <2> DEFINE entry == entries[k + 1]
  <2>2. entry \in Entries
    BY <1>1, <2>1
  <2>3. after[k + 1] = Class!CollectedEntry(after[k], entry)
    <3>1. after[k + 1] = Class!CollectedEntry(after[k + 1 - 1], entries[k + 1])
      BY <1>8, <2>1
    <3> QED BY <2>1, <3>1
  <2>4. /\ after[k] \in Maps
        /\ \A h \in Hooks, claims \in Seq(Methods) : map[h] = Held(h, claims) =>
               after[k][h] = Held(h, claims \o So(h, k))
    BY <1>10
  <2> HIDE DEF entry, So, G
  <2>5. after[k + 1] \in Maps
    BY <2>2, <2>3, <2>4, EntryAddsItsClaims
  <2>6. ASSUME NEW h \in Hooks, NEW claims \in Seq(Methods), map[h] = Held(h, claims)
        PROVE  after[k + 1][h] = Held(h, claims \o So(h, k + 1))
    <3>1. /\ So(h, k) \in Seq(Methods) /\ So(h, k + 1) = So(h, k) \o EntryClaims(h, entry)
          /\ EntryClaims(h, entry) \in Seq(Methods)
      <4>1. EntryClaims(h, entry) \in Seq(Methods)
        BY <2>2, EntryClaimsAreClaims
      <4>2. /\ ClaimsUpTo(h, entries, k) \in Seq(Seq(Methods))
            /\ ClaimsUpTo(h, entries, k + 1) =
                   Append(ClaimsUpTo(h, entries, k), EntryClaims(h, entry))
        BY <1>10, ClaimsGrow DEF n, entry
      <4> QED BY <4>1, <4>2, FlattenAppend DEF So
    <3>2. after[k][h] = Held(h, claims \o So(h, k))
      BY <2>4, <2>6
    <3>3. claims \o So(h, k) \in Seq(Methods)
      BY <3>1, ConcatProperties
    <3>4. after[k + 1][h] = Held(h, (claims \o So(h, k)) \o EntryClaims(h, entry))
      <4>1. \A c \in Seq(Methods) : after[k][h] = Held(h, c) =>
                Class!CollectedEntry(after[k], entry)[h] = Held(h, c \o EntryClaims(h, entry))
        BY <2>2, <2>4, EntryAddsItsClaims DEF EntryClaims
      <4> QED BY <2>3, <3>2, <3>3, <4>1
    <3>5. (claims \o So(h, k)) \o EntryClaims(h, entry) = claims \o So(h, k + 1)
      <4> DEFINE a == So(h, k)
                 e == EntryClaims(h, entry)
      <4>1. a \in Seq(Methods) /\ e \in Seq(Methods) /\ So(h, k + 1) = a \o e
        BY <3>1
      <4> HIDE DEF a, e
      <4>2. (claims \o a) \o e = claims \o (a \o e)
        BY <4>1, ConcatAssociative, SMTT(30)
      <4>3. (claims \o a) \o e = claims \o So(h, k + 1)
        BY <4>1, <4>2
      <4> QED BY <4>3 DEF a, e
    <3> QED BY <3>4, <3>5
  <2> QED BY <2>1, <2>5, <2>6 DEF G
<1>11. n \in G
  <2> HIDE DEF G
  <2>1. \A k \in 0..n : k \in G
    BY <1>1, <1>9, <1>10, UpToInduction
  <2> QED BY <1>1, <2>1
<1>12. \A h \in Hooks : So(h, n) \in Seq(Methods)
  <2> SUFFICES ASSUME NEW h \in Hooks PROVE So(h, n) \in Seq(Methods)
    OBVIOUS
  <2>1. /\ ClaimsUpTo(h, entries, n) \in Seq(Seq(Methods))
        /\ ClaimsUpTo(h, entries, 0) = <<>>
    <3>1. n \in 0..Len(entries)
      BY <1>1 DEF n
    <3> HIDE DEF G, So
    <3> QED BY <3>1, ClaimsGrow
  <2>2. <<>> \in Seq(Methods)
    OBVIOUS
  <2> QED BY <2>1, <2>2, FlattenAppend
<1> HIDE DEF So
<1> QED BY <1>6, <1>7, <1>11, <1>12

\* What the first base has to itself begins with that base.
LEMMA WithoutKeepsTheFirst ==
    ASSUME NEW D, NEW line \in Seq(D), NEW other
    PROVE  /\ Class!Without(line, other) \in Seq(D)
           /\ line # <<>> /\ line[1] \notin Class!ToSet(other) =>
                Class!Without(line, other) # <<>> /\ Class!Without(line, other)[1] = line[1]
<1> DEFINE n == Len(line)
           O == Class!ToSet(other)
           Next1(s, i) == IF line[i] \in O THEN s ELSE Append(s, line[i])
           F(f) == [i \in 0..n |-> IF i = 0 THEN <<>> ELSE IF line[i] \in O THEN f[i-1]
                                                           ELSE Append(f[i-1], line[i])]
           kept == CHOOSE f : f = F(f)
           step == [p \in (1..n) \X Seq(D) |-> Next1(p[2], p[1])]
<1>1. n \in Nat /\ \A i \in 1..n : line[i] \in D
  OBVIOUS
<1>2. step \in [(1..n) \X Seq(D) -> Seq(D)]
  <2> SUFFICES ASSUME NEW p \in (1..n) \X Seq(D) PROVE Next1(p[2], p[1]) \in Seq(D)
    OBVIOUS
  <2>1. p[2] \in Seq(D) /\ line[p[1]] \in D
    BY <1>1
  <2> QED BY <2>1
<1>3. \E f \in [0..n -> Seq(D)] : IsFold(f, <<>>, step, n)
  <2>1. n \in Nat /\ <<>> \in Seq(D)
    BY <1>1
  <2> HIDE DEF step, n, F, kept
  <2> QED BY <1>2, <2>1, FoldExists
<1>4. \E f : f = F(f)
  <2>1. PICK f \in [0..n -> Seq(D)] : f[0] = <<>> /\ \A i \in 1..n : f[i] = step[<<i, f[i-1]>>]
    BY <1>3 DEF IsFold
  <2>2. ASSUME NEW i \in 0..n, i # 0 PROVE f[i] = Next1(f[i-1], i)
    <3>1. i \in 1..n /\ i - 1 \in 0..n
      <4>1. n \in Nat
        BY <1>1
      <4> HIDE DEF n
      <4> QED BY <2>2, <4>1
    <3>2. <<i, f[i-1]>> \in (1..n) \X Seq(D)
      <4> HIDE DEF n, step
      <4> QED BY <2>1, <3>1
    <3> QED BY <2>1, <3>1, <3>2
  <2>3. f = F(f)
    <3> HIDE DEF n, O
    <3>1. \A i \in 0..n : f[i] = IF i = 0 THEN <<>> ELSE IF line[i] \in O THEN f[i-1]
                                                        ELSE Append(f[i-1], line[i])
      BY <2>1, <2>2
    <3> QED BY <2>1, <3>1
  <2> QED BY <2>3
<1>5. kept = F(kept)
  <2> HIDE DEF F
  <2> QED BY <1>4
<1>6. Class!Without(line, other) = kept[n]
  BY Zenon DEF Class!Without
<1> HIDE DEF kept, step, n, O
<1>7. kept[0] = <<>> /\ \A i \in 1..n : kept[i] = Next1(kept[i-1], i)
  <2>1. 0 \in 0..n /\ 1..n \subseteq 0..n /\ \A i \in 1..n : i # 0
    BY <1>1
  <2> QED BY <1>5, <2>1
<1> HIDE DEF F
<1> DEFINE G == {k \in 0..n :
                    /\ kept[k] \in Seq(D)
                    /\ k # 0 /\ line[1] \notin O => kept[k] # <<>> /\ kept[k][1] = line[1]}
<1>8. 0 \in G
  <2>1. 0 \in 0..n /\ <<>> \in Seq(D)
    BY <1>1
  <2>2. kept[0] \in Seq(D)
    BY <1>7, <2>1
  <2> QED BY <2>1, <2>2
<1>9. ASSUME NEW k \in 0..n, k \in G, k < n PROVE k + 1 \in G
  <2>1. k + 1 \in 1..n /\ k + 1 - 1 = k /\ k + 1 \in 0..n /\ line[k + 1] \in D
    BY <1>1, <1>9
  <2>2. kept[k + 1] = Next1(kept[k], k + 1)
    <3>1. kept[k + 1] = Next1(kept[k + 1 - 1], k + 1)
      BY <1>7, <2>1
    <3> QED BY <2>1, <3>1
  <2>3. /\ Append(kept[k], line[k + 1]) \in Seq(D) /\ Append(kept[k], line[k + 1]) # <<>>
        /\ \A i \in 1..Len(kept[k]) : Append(kept[k], line[k + 1])[i] = kept[k][i]
        /\ Append(kept[k], line[k + 1])[Len(kept[k]) + 1] = line[k + 1]
    BY <1>9, <2>1, AppendProperties
  <2>4. kept[k + 1] \in Seq(D)
    BY <1>9, <2>2, <2>3
  <2>5. ASSUME line[1] \notin O PROVE kept[k + 1] # <<>> /\ kept[k + 1][1] = line[1]
    <3>1. CASE k = 0
      <4>1. kept[k] = <<>> /\ Len(kept[k]) = 0 /\ k + 1 = 1
        BY <1>7, <3>1
      <4>2. kept[k + 1] = Append(kept[k], line[k + 1])
        BY <2>2, <2>5, <4>1
      <4> QED BY <2>3, <4>1, <4>2
    <3>2. CASE k # 0
      <4>1. kept[k] \in Seq(D) /\ kept[k] # <<>> /\ kept[k][1] = line[1]
        BY <1>9, <2>5, <3>2
      <4>2. 1 \in 1..Len(kept[k])
        BY <4>1, EmptySeq
      <4> QED BY <2>2, <2>3, <4>1, <4>2
    <3> QED BY <3>1, <3>2
  <2> QED BY <2>1, <2>4, <2>5
<1>10. n \in G
  <2> HIDE DEF G
  <2>1. \A k \in 0..n : k \in G
    BY <1>1, <1>8, <1>9, UpToInduction
  <2> QED BY <1>1, <2>1
<1>11. line # <<>> => n # 0
  BY EmptySeq DEF n
<1> QED BY <1>6, <1>10, <1>11 DEF O

\* Reversed, what was put in front comes last.
LEMMA ReverseOfCons ==
    ASSUME NEW D, NEW line \in Seq(D), NEW c
    PROVE  /\ Class!Reverse(line) \in Seq(D) /\ Len(Class!Reverse(line)) = Len(line)
           /\ \A i \in 1..Len(line) : Class!Reverse(<<c>> \o line)[i] = Class!Reverse(line)[i]
           /\ Class!Reverse(<<c>> \o line)[Len(line) + 1] = c
<1> DEFINE n == Len(line)
           whole == <<c>> \o line
<1>1. n \in Nat /\ \A i \in 1..n : line[i] \in D
  OBVIOUS
<1>2. Class!Reverse(line) = [i \in 1..n |-> line[(n - i) + 1]]
  BY DEF Class!Reverse
<1>3. Class!Reverse(line) \in Seq(D) /\ Len(Class!Reverse(line)) = n
  BY <1>1, <1>2
<1>4. <<c>> \in Seq(D \cup {c}) /\ line \in Seq(D \cup {c}) /\ Len(<<c>>) = 1 /\ <<c>>[1] = c
  BY SeqMonotonic
<1>5. /\ Len(whole) = n + 1 /\ whole[1] = c
      /\ \A i \in 1..n : whole[i + 1] = line[i]
  <2>1. /\ Len(whole) = n + 1
        /\ \A i \in 1..n + 1 : whole[i] = IF i <= 1 THEN <<c>>[i] ELSE line[i - 1]
    <3>1. /\ Len(whole) = Len(<<c>>) + n
          /\ \A i \in 1..Len(<<c>>) + n :
                whole[i] = IF i <= Len(<<c>>) THEN <<c>>[i] ELSE line[i - Len(<<c>>)]
      BY <1>4, ConcatProperties
    <3>2. Len(<<c>>) + n = n + 1
      BY <1>1, <1>4
    <3> HIDE DEF whole, n
    <3> QED BY <1>4, <3>1, <3>2
  <2> HIDE DEF whole, n
  <2>2. whole[1] = c
    BY <1>1, <1>4, <2>1
  <2>3. ASSUME NEW i \in 1..n PROVE whole[i + 1] = line[i]
    <3>1. PICK j \in 1..n + 1 : j = i + 1
      BY <1>1
    <3>2. whole[j] = line[j - 1] /\ j - 1 = i
      BY <1>1, <2>1, <3>1
    <3> QED BY <3>1, <3>2
  <2> QED BY <2>1, <2>2, <2>3
<1> HIDE DEF whole, n
<1>6. Class!Reverse(whole) = [i \in 1..n + 1 |-> whole[((n + 1) - i) + 1]]
  BY <1>5 DEF Class!Reverse
<1>7. Class!Reverse(whole)[n + 1] = c
  <2>1. n + 1 \in 1..n + 1 /\ ((n + 1) - (n + 1)) + 1 = 1
    BY <1>1
  <2> QED BY <1>5, <1>6, <2>1
<1>8. ASSUME NEW i \in 1..n PROVE Class!Reverse(whole)[i] = Class!Reverse(line)[i]
  <2>1. PICK j \in 1..n : j = (n - i) + 1
    BY <1>1
  <2>2. i \in 1..n + 1 /\ ((n + 1) - i) + 1 = j + 1
    BY <1>1, <2>1
  <2>3. Class!Reverse(whole)[i] = whole[j + 1]
    BY <1>6, <2>2
  <2>4. Class!Reverse(line)[i] = line[j]
    BY <1>2, <2>1
  <2> QED BY <1>5, <2>3, <2>4
<1> QED BY <1>3, <1>7, <1>8 DEF n, whole

\* The first worker of a line that begins with one.
LEMMA InheritedFromTheFirst ==
    ASSUME NEW D, NEW line \in Seq(D), Len(line) # 0,
           line[1] \in Class!Workers
    PROVE  Class!Inherited(line) = hooks[line[1]]
<1> DEFINE First(i) ==
               line[i] \in Class!Workers /\ \A j \in 1..i-1 : line[j] \notin Class!Workers
<1>1. 1 \in DOMAIN line /\ First(1)
  <2>1. 1..1-1 = {}
    OBVIOUS
  <2> QED BY <2>1
<1>2. ASSUME NEW i \in DOMAIN line, First(i) PROVE i = 1
  <2>1. i > 1 => 1 \in 1..i-1
    OBVIOUS
  <2> QED BY <1>2, <2>1
<1>3. (CHOOSE i \in DOMAIN line : First(i)) = 1
  <2> HIDE DEF First
  <2> QED BY <1>1, <1>2
<1> QED BY <1>3, Zenon DEF Class!Inherited

\* What is so of the classes at every moment: a resolution order begins with its class and
\* has defined classes only, and the hooks of a line are those its bodies claim.
ClassInv ==
    /\ Class!Root \in DOMAIN mro
    /\ \A c \in DOMAIN mro : mro[c] \in Seq(DOMAIN mro) /\ mro[c] # <<>> /\ mro[c][1] = c
    /\ DOMAIN body = DOMAIN mro /\ \A c \in DOMAIN mro : body[c] \in Seq(Entries)
    /\ DOMAIN hooks = DOMAIN mro \cap Class!Workers
    /\ \A c \in DOMAIN hooks : Class!IsLine(c) =>
          /\ hooks[c] \in Maps
          /\ \A h \in Hooks : hooks[c][h] = Held(h, Class!AllClaims(c, h))

\* A class that is defined stays as it is.
LEMMA DefinedClassesStay ==
    ASSUME ClassInv, NEW d \in DOMAIN mro,
           \A c \in DOMAIN mro : mro'[c] = mro[c] /\ body'[c] = body[c]
    PROVE  /\ Class!IsLine(d)' <=> Class!IsLine(d)
           /\ \A h \in Hooks : Class!AllClaims(d, h)' = Class!AllClaims(d, h)
<1>1. mro'[d] = mro[d] /\ mro[d] \in Seq(DOMAIN mro)
  BY DEF ClassInv
<1>2. \A i \in DOMAIN mro[d] : mro[d][i] \in DOMAIN mro /\ mro'[mro[d][i]] = mro[mro[d][i]]
  BY <1>1
<1>3. Class!IsLine(d)' <=> Class!IsLine(d)
  BY <1>1, <1>2, Zenon DEF Class!IsLine
<1>4. ASSUME NEW i \in DOMAIN mro[d]
      PROVE  body'[Class!Reverse(mro[d])[i]] = body[Class!Reverse(mro[d])[i]]
  <2>1. Class!Reverse(mro[d]) \in Seq(DOMAIN mro) /\ Len(Class!Reverse(mro[d])) = Len(mro[d])
    BY <1>1, ReverseOfCons
  <2>2. Class!Reverse(mro[d])[i] \in DOMAIN mro
    BY <1>1, <2>1
  <2> QED BY <2>2
<1>5. ASSUME NEW h \in Hooks PROVE Class!AllClaims(d, h)' = Class!AllClaims(d, h)
  BY <1>1, <1>4, Zenon DEF Class!AllClaims
<1> QED BY <1>3, <1>5

\* The claims along a line: those of the parent's line, then those of its own body.
LEMMA LineAddsItsClaims ==
    ASSUME ClassInv, NEW b \in DOMAIN mro, NEW c, c \notin DOMAIN mro, NEW entries \in Seq(Entries),
           mro'[c] = <<c>> \o mro[b], body'[c] = entries,
           \A d \in DOMAIN mro : mro'[d] = mro[d] /\ body'[d] = body[d], NEW h \in Hooks
    PROVE  /\ Class!AllClaims(b, h) \in Seq(Methods)
           /\ Class!AllClaims(c, h)' = Class!AllClaims(b, h) \o Class!Claims(h, entries)
<1> DEFINE line == mro[b]
           n == Len(line)
           ss == [i \in DOMAIN line |-> Class!Claims(h, body[Class!Reverse(line)[i]])]
           s == Class!Claims(h, entries)
           whole == <<c>> \o line
           tt == [i \in DOMAIN whole |-> Class!Claims(h, body'[Class!Reverse(whole)[i]])]
<1>1. line \in Seq(DOMAIN mro) /\ n \in Nat /\ DOMAIN line = 1..n
  BY DEF ClassInv
<1>2. DOMAIN whole = 1..n + 1
  <2>1. <<c>> \in Seq(DOMAIN mro \cup {c}) /\ line \in Seq(DOMAIN mro \cup {c}) /\ Len(<<c>>) = 1
    BY <1>1, SeqMonotonic
  <2>2. whole \in Seq(DOMAIN mro \cup {c}) /\ Len(whole) = Len(<<c>>) + n
    BY <2>1, ConcatProperties
  <2>3. DOMAIN whole = 1..Len(whole) /\ Len(whole) = n + 1
    BY <1>1, <2>1, <2>2
  <2> QED BY <2>3
<1>3. /\ Class!Reverse(line) \in Seq(DOMAIN mro) /\ Len(Class!Reverse(line)) = n
      /\ \A i \in 1..n : Class!Reverse(whole)[i] = Class!Reverse(line)[i]
      /\ Class!Reverse(whole)[n + 1] = c
  BY <1>1, ReverseOfCons
<1>4. \A i \in 1..n : Class!Reverse(line)[i] \in DOMAIN mro
  BY <1>3
<1>5. \A i \in 1..n : body[Class!Reverse(line)[i]] \in Seq(Entries)
  BY <1>4 DEF ClassInv
<1>6. \A e \in Seq(Entries) : Class!Claims(h, e) \in Seq(Methods)
  <2>1. [g \in Hooks |-> <<>>] \in Maps
    BY DEF Maps
  <2> QED BY <2>1, BodyAddsItsClaims
<1>7. ss \in Seq(Seq(Methods)) /\ Len(ss) = n /\ s \in Seq(Methods)
  BY <1>1, <1>5, <1>6
<1>8. \A i \in 1..n : tt[i] = ss[i]
  <2> SUFFICES ASSUME NEW i \in 1..n PROVE tt[i] = ss[i]
    OBVIOUS
  <2>1. PICK r \in DOMAIN mro : r = Class!Reverse(line)[i] /\ r = Class!Reverse(whole)[i]
    BY <1>3, <1>4
  <2>2. i \in DOMAIN whole /\ i \in DOMAIN line
    BY <1>1, <1>2
  <2>3. ss[i] = Class!Claims(h, body[r])
    BY <2>1, <2>2
  <2>4. tt[i] = Class!Claims(h, body'[r])
    <3> HIDE DEF whole
    <3> QED BY <2>1, <2>2
  <2> QED BY <2>1, <2>3, <2>4
<1>9. tt[n + 1] = s
  <2>1. n + 1 \in DOMAIN whole
    BY <1>1, <1>2
  <2> HIDE DEF whole, n
  <2> QED BY <1>3, <2>1
<1>10. tt = [i \in 1..n + 1 |-> tt[i]]
  BY <1>2
<1>11. tt = Append(ss, s)
  <2> HIDE DEF tt, ss, s, n
  <2>1. \A i \in 1..n : ss[i] \in Seq(Methods)
    BY <1>7
  <2>2. \A i \in 1..n + 1 : i \in 1..n \/ i = n + 1
    BY <1>1
  <2>3. \A i \in 1..n + 1 : tt[i] \in Seq(Methods)
    BY <1>7, <1>8, <1>9, <2>1, <2>2
  <2>4. tt \in Seq(Seq(Methods)) /\ Len(tt) = n + 1
    <3>1. PICK p \in Nat : p = n + 1
      BY <1>1
    <3>2. tt = [i \in 1..p |-> tt[i]] /\ \A i \in 1..p : tt[i] \in Seq(Methods)
      BY <1>10, <2>3, <3>1
    <3>3. tt \in [1..p -> Seq(Methods)]
      BY <3>2
    <3>4. tt \in Seq(Seq(Methods)) /\ Len(tt) = p
      BY <3>3
    <3> QED BY <3>1, <3>4
  <2>5. /\ Append(ss, s) \in Seq(Seq(Methods)) /\ Len(Append(ss, s)) = n + 1
        /\ \A i \in 1..n : Append(ss, s)[i] = ss[i]
        /\ Append(ss, s)[n + 1] = s
    BY <1>7, AppendProperties
  <2>6. \A i \in 1..n + 1 : tt[i] = Append(ss, s)[i]
    BY <1>8, <1>9, <2>2, <2>5
  <2> QED BY <2>4, <2>5, <2>6, SeqEqual
<1>12. Class!AllClaims(b, h) = Class!FlattenSeq(ss)
  BY Zenon DEF Class!AllClaims
<1>13. Class!AllClaims(c, h)' = Class!FlattenSeq(tt)
  BY Zenon DEF Class!AllClaims
<1> HIDE DEF tt, ss, s
<1>14. /\ Class!FlattenSeq(ss) \in Seq(Methods)
       /\ Class!FlattenSeq(Append(ss, s)) = Class!FlattenSeq(ss) \o s
  BY <1>7, FlattenAppend
<1> QED BY <1>11, <1>12, <1>13, <1>14 DEF s

\* A class statement with two bases makes no line: one base is no ancestor of the other.
LEMMA TwoBasesMakeNoLine ==
    ASSUME ClassInv, NEW c, c \notin DOMAIN mro, NEW b1 \in DOMAIN mro, NEW b2 \in DOMAIN mro,
           b1 \notin Class!ToSet(mro[b2]), b2 \notin Class!ToSet(mro[b1]),
           mro'[c] = <<c>> \o (Class!Without(mro[b1], mro[b2]) \o mro[b2]),
           \A d \in DOMAIN mro : mro'[d] = mro[d]
    PROVE  ~Class!IsLine(c)'
<1> DEFINE D == DOMAIN mro
           own == Class!Without(mro[b1], mro[b2])
           rest == own \o mro[b2]
<1>1. /\ mro[b1] \in Seq(D) /\ mro[b1] # <<>> /\ mro[b1][1] = b1
      /\ mro[b2] \in Seq(D) /\ mro[b2] # <<>> /\ mro[b2][1] = b2
  BY DEF ClassInv
<1>2. own \in Seq(D) /\ own # <<>> /\ own[1] = b1
  BY <1>1, WithoutKeepsTheFirst, ZenonT(40)
<1>3. /\ Len(own) \in Nat /\ Len(own) # 0 /\ Len(mro[b2]) \in Nat /\ Len(mro[b2]) # 0
  BY <1>1, <1>2, EmptySeq
<1> HIDE DEF own, D
<1>4. /\ rest \in Seq(D) /\ Len(rest) = Len(own) + Len(mro[b2])
      /\ \A i \in 1..Len(own) + Len(mro[b2]) :
            rest[i] = IF i <= Len(own) THEN own[i] ELSE mro[b2][i - Len(own)]
  BY <1>1, <1>2, ConcatProperties
<1>5. rest[1] = b1
  BY <1>2, <1>3, <1>4
<1>6. rest[Len(own) + 1] = b2
  <2>1. PICK i \in 1..Len(own) + Len(mro[b2]) : i = Len(own) + 1
    BY <1>3
  <2>2. rest[i] = mro[b2][i - Len(own)] /\ i - Len(own) = 1
    BY <1>3, <1>4, <2>1
  <2> QED BY <1>1, <2>1, <2>2
<1> DEFINE n == Len(own)
           m == Len(rest)
           whole == <<c>> \o rest
<1>7. m \in Nat /\ n \in Nat /\ n # 0 /\ n + 1 \in 1..m
  BY <1>3, <1>4
<1> HIDE DEF n, m, rest
<1>8. DOMAIN whole = 1..m + 1 /\ \A i \in 1..m : whole[i + 1] = rest[i]
  <2>1. <<c>> \in Seq(D \cup {c}) /\ rest \in Seq(D \cup {c}) /\ Len(<<c>>) = 1 /\ <<c>>[1] = c
    BY <1>4, SeqMonotonic
  <2>2. /\ whole \in Seq(D \cup {c}) /\ Len(whole) = Len(<<c>>) + m
        /\ \A i \in 1..Len(<<c>>) + m :
              whole[i] = IF i <= Len(<<c>>) THEN <<c>>[i] ELSE rest[i - Len(<<c>>)]
    BY <2>1, ConcatProperties DEF m
  <2>3. Len(<<c>>) + m = m + 1
    BY <1>7, <2>1
  <2> HIDE DEF whole
  <2>4. DOMAIN whole = 1..m + 1
    BY <2>2, <2>3
  <2>5. ASSUME NEW i \in 1..m PROVE whole[i + 1] = rest[i]
    <3>1. PICK j \in 1..m + 1 : j = i + 1
      BY <1>7
    <3>2. whole[j] = rest[j - 1] /\ j - 1 = i
      BY <1>7, <2>1, <2>2, <2>3, <3>1
    <3> QED BY <3>1, <3>2
  <2> QED BY <2>4, <2>5
<1>9. /\ 1 + 1 \in DOMAIN whole /\ whole[1 + 1] = b1
      /\ n + 1 + 1 \in DOMAIN whole /\ whole[n + 1 + 1] = b2
      /\ 1 + 1 < n + 1 + 1
  <2>1. 1 \in 1..m
    BY <1>7
  <2>2. whole[1 + 1] = b1
    BY <1>5, <1>8, <2>1
  <2>3. whole[n + 1 + 1] = b2
    BY <1>6, <1>7, <1>8 DEF n
  <2>4. 1 + 1 \in 1..m + 1 /\ n + 1 + 1 \in 1..m + 1 /\ 1 + 1 < n + 1 + 1
    BY <1>7
  <2> QED BY <1>8, <2>2, <2>3, <2>4
<1>10. mro'[c] = whole /\ mro'[b1] = mro[b1]
  BY DEF rest, own
<1> HIDE DEF whole
<1>11. PICK i, j \in DOMAIN whole : i < j /\ whole[i] = b1 /\ whole[j] = b2
  BY <1>9
<1> SUFFICES ASSUME Class!IsLine(c)' PROVE FALSE
  OBVIOUS
<1>12. mro'[c][j] \in Class!ToSet(mro'[mro'[c][i]])
  BY <1>10, <1>11, Zenon DEF Class!IsLine
<1>13. b2 \in Class!ToSet(mro[b1])
  BY <1>10, <1>11, <1>12
<1> QED BY <1>13

\* A class with one base makes a line only if the base does.
LEMMA ParentOfALine ==
    ASSUME ClassInv, NEW c, c \notin DOMAIN mro, NEW b \in DOMAIN mro,
           mro'[c] = <<c>> \o mro[b], \A d \in DOMAIN mro : mro'[d] = mro[d],
           Class!IsLine(c)'
    PROVE  Class!IsLine(b)
<1> DEFINE line == mro[b]
           n == Len(line)
           whole == <<c>> \o line
<1>1. line \in Seq(DOMAIN mro) /\ n \in Nat /\ DOMAIN line = 1..n
  BY DEF ClassInv
<1>2. DOMAIN whole = 1..n + 1 /\ \A i \in 1..n : whole[i + 1] = line[i]
  <2>1. <<c>> \in Seq(DOMAIN mro \cup {c}) /\ line \in Seq(DOMAIN mro \cup {c})
        /\ Len(<<c>>) = 1
    BY <1>1, SeqMonotonic
  <2>2. /\ whole \in Seq(DOMAIN mro \cup {c}) /\ Len(whole) = Len(<<c>>) + n
        /\ \A i \in 1..Len(<<c>>) + n :
              whole[i] = IF i <= Len(<<c>>) THEN <<c>>[i] ELSE line[i - Len(<<c>>)]
    BY <2>1, ConcatProperties
  <2>3. Len(<<c>>) + n = n + 1
    BY <1>1, <2>1
  <2> HIDE DEF whole, line, n
  <2>4. DOMAIN whole = 1..n + 1
    BY <2>2, <2>3
  <2>5. ASSUME NEW i \in 1..n PROVE whole[i + 1] = line[i]
    <3>1. PICK j \in 1..n + 1 : j = i + 1
      BY <1>1
    <3>2. whole[j] = line[j - 1] /\ j - 1 = i
      BY <1>1, <2>1, <2>2, <2>3, <3>1
    <3> QED BY <3>1, <3>2
  <2> QED BY <2>4, <2>5
<1>3. mro'[c] = whole
  OBVIOUS
<1> HIDE DEF whole, line, n
<1>4. \A i, j \in DOMAIN whole : i < j => whole[j] \in Class!ToSet(mro'[whole[i]])
  BY <1>3, Zenon DEF Class!IsLine
<1>5. ASSUME NEW i \in DOMAIN line, NEW j \in DOMAIN line, i < j
      PROVE  line[j] \in Class!ToSet(mro[line[i]])
  <2>1. PICK p \in DOMAIN whole : p = i + 1 /\ whole[p] = line[i]
    BY <1>1, <1>2
  <2>2. PICK q \in DOMAIN whole : q = j + 1 /\ whole[q] = line[j]
    BY <1>1, <1>2
  <2>3. p < q
    BY <1>1, <1>5, <2>1, <2>2
  <2>4. line[j] \in Class!ToSet(mro'[line[i]])
    BY <1>4, <2>1, <2>2, <2>3
  <2>5. line[i] \in DOMAIN mro
    BY <1>1
  <2> QED BY <2>4, <2>5
<1> QED BY <1>5, Zenon DEF Class!IsLine, line

\* The bases of a class are no class, one, or two that are not each other's ancestors.
LEMMA BasesOfAClass ==
    ASSUME ClassInv, NEW c, NEW bases \in Class!BaseLists, Class!IsBases(c, bases)
    PROVE  /\ Class!Lines(bases) \in Seq(DOMAIN mro)
           /\ \/ bases = <<>>
              \/ \E b \in DOMAIN mro : bases = <<b>> /\ Class!Lines(bases) = mro[b]
              \/ \E b1, b2 \in DOMAIN mro :
                    /\ b1 \notin Class!ToSet(mro[b2]) /\ b2 \notin Class!ToSet(mro[b1])
                    /\ Class!Lines(bases) = Class!Without(mro[b1], mro[b2]) \o mro[b2]
<1>1. CASE bases = <<>>
  <2>1. Len(bases) = 0
    BY <1>1
  <2>2. Class!Lines(bases) = <<>>
    BY <2>1 DEF Class!Lines
  <2>3. Class!Lines(bases) \in Seq(DOMAIN mro)
    BY <2>2
  <2> QED BY <1>1, <2>3
<1>2. ASSUME NEW b \in DOMAIN mro, bases = <<b>> PROVE Class!Lines(bases) = mro[b]
  <2>1. Len(bases) = 1 /\ Len(bases) # 0 /\ bases[1] = b
    BY <1>2
  <2> QED BY <2>1 DEF Class!Lines
<1>3. ASSUME NEW b1 \in DOMAIN mro, NEW b2 \in DOMAIN mro, bases = <<b1, b2>>
      PROVE  /\ b1 \notin Class!ToSet(mro[b2]) /\ b2 \notin Class!ToSet(mro[b1])
             /\ Class!Lines(bases) = Class!Without(mro[b1], mro[b2]) \o mro[b2]
             /\ Class!Lines(bases) \in Seq(DOMAIN mro)
  <2>1. Len(bases) = 2 /\ bases[1] = b1 /\ bases[2] = b2 /\ DOMAIN bases = 1..2
    BY <1>3
  <2>2. Class!Lines(bases) = Class!Without(mro[b1], mro[b2]) \o mro[b2]
    BY <2>1 DEF Class!Lines
  <2>3. b1 \notin Class!ToSet(mro[b2]) /\ b2 \notin Class!ToSet(mro[b1])
    BY <2>1 DEF Class!IsBases
  <2>4. mro[b1] \in Seq(DOMAIN mro) /\ mro[b2] \in Seq(DOMAIN mro)
    BY DEF ClassInv
  <2>5. Class!Without(mro[b1], mro[b2]) \in Seq(DOMAIN mro)
    BY <2>4, WithoutKeepsTheFirst
  <2> QED BY <2>2, <2>3, <2>4, <2>5, ConcatProperties
<1>4. \/ bases = <<>> \/ \E b \in DOMAIN mro : bases = <<b>>
      \/ \E b1, b2 \in DOMAIN mro : bases = <<b1, b2>>
  BY DEF Class!BaseLists, Class!Defined
<1>5. CASE \E b \in DOMAIN mro : bases = <<b>>
  <2>1. PICK b \in DOMAIN mro : bases = <<b>>
    BY <1>5
  <2>2. Class!Lines(bases) = mro[b] /\ mro[b] \in Seq(DOMAIN mro)
    BY <1>2, <2>1 DEF ClassInv
  <2> QED BY <2>1, <2>2
<1>6. CASE \E b1, b2 \in DOMAIN mro : bases = <<b1, b2>>
  <2>1. PICK b1, b2 \in DOMAIN mro : bases = <<b1, b2>>
    BY <1>6
  <2> QED BY <1>3, <2>1
<1> QED BY <1>1, <1>4, <1>5, <1>6

\* The classes there are stay what they are, whatever is defined after them.
LEMMA OldClassesKeep ==
    ASSUME ClassInv, DOMAIN mro \subseteq DOMAIN mro',
           \A d \in DOMAIN mro : mro'[d] = mro[d] /\ body'[d] = body[d],
           \A d \in DOMAIN hooks : hooks'[d] = hooks[d]
    PROVE  /\ Class!Root \in DOMAIN mro'
           /\ \A d \in DOMAIN mro :
                 /\ mro'[d] \in Seq(DOMAIN mro') /\ mro'[d] # <<>> /\ mro'[d][1] = d
                 /\ body'[d] \in Seq(Entries)
           /\ \A d \in DOMAIN hooks : Class!IsLine(d)' =>
                 /\ hooks'[d] \in Maps
                 /\ \A h \in Hooks : hooks'[d][h] = Held(h, Class!AllClaims(d, h)')
<1>1. Class!Root \in DOMAIN mro'
  BY DEF ClassInv
<1>2. ASSUME NEW d \in DOMAIN mro
      PROVE  /\ mro'[d] \in Seq(DOMAIN mro') /\ mro'[d] # <<>> /\ mro'[d][1] = d
             /\ body'[d] \in Seq(Entries)
  <2>1. mro[d] \in Seq(DOMAIN mro) /\ mro[d] # <<>> /\ mro[d][1] = d /\ body[d] \in Seq(Entries)
    BY DEF ClassInv
  <2>2. mro[d] \in Seq(DOMAIN mro')
    BY <2>1, SeqMonotonic
  <2> QED BY <2>1, <2>2
<1>3. ASSUME NEW d \in DOMAIN hooks, Class!IsLine(d)'
      PROVE  /\ hooks'[d] \in Maps
             /\ \A h \in Hooks : hooks'[d][h] = Held(h, Class!AllClaims(d, h)')
  <2>1. d \in DOMAIN mro
    BY DEF ClassInv
  <2>2. /\ Class!IsLine(d)' <=> Class!IsLine(d)
        /\ \A h \in Hooks : Class!AllClaims(d, h)' = Class!AllClaims(d, h)
    BY <2>1, DefinedClassesStay
  <2>3. hooks[d] \in Maps /\ \A h \in Hooks : hooks[d][h] = Held(h, Class!AllClaims(d, h))
    BY <1>3, <2>2 DEF ClassInv
  <2> QED BY <2>2, <2>3
<1> QED BY <1>1, <1>2, <1>3

\* A class statement keeps the invariant.
LEMMA DefineKeeps ==
    ASSUME ClassInv, NEW c \in Classes, NEW entries \in Bodies, NEW bases \in Class!BaseLists,
           Class!Define(c, bases, entries)
    PROVE  ClassInv'
<1>1. c \notin DOMAIN mro /\ Class!IsBases(c, bases)
  BY DEF Class!Define, Class!Defined
<1>2. entries \in Seq(Entries)
  BY BodiesAssumption DEF Entries
<1>3. CASE rejected' = TRUE /\ UNCHANGED <<mro, body, hooks>>
  <2>1. /\ Class!Root \in DOMAIN mro'
        /\ \A d \in DOMAIN mro :
              /\ mro'[d] \in Seq(DOMAIN mro') /\ mro'[d] # <<>> /\ mro'[d][1] = d
              /\ body'[d] \in Seq(Entries)
        /\ \A d \in DOMAIN hooks : Class!IsLine(d)' =>
              /\ hooks'[d] \in Maps
              /\ \A h \in Hooks : hooks'[d][h] = Held(h, Class!AllClaims(d, h)')
    BY <1>3, OldClassesKeep
  <2> QED BY <1>3, <2>1 DEF ClassInv
<1>4. CASE /\ mro' = Class!Extend(mro, c, <<c>> \o Class!Lines(bases))
           /\ body' = Class!Extend(body, c, entries)
           /\ hooks' = IF c \in Plain THEN hooks
                       ELSE Class!Extend(hooks, c,
                                Class!Collected(Class!Inherited(Class!Lines(bases)), entries))
  <2>1. /\ DOMAIN mro' = DOMAIN mro \cup {c} /\ mro'[c] = <<c>> \o Class!Lines(bases)
        /\ \A d \in DOMAIN mro : mro'[d] = mro[d]
    BY <1>1, <1>4 DEF Class!Extend
  <2>2. /\ DOMAIN body' = DOMAIN mro' /\ body'[c] = entries
        /\ \A d \in DOMAIN mro : body'[d] = body[d]
    <3>1. DOMAIN body = DOMAIN mro
      BY DEF ClassInv
    <3> QED BY <1>1, <1>4, <2>1, <3>1 DEF Class!Extend
  <2>3. c \notin DOMAIN hooks
    BY <1>1 DEF ClassInv
  <2>4. \A d \in DOMAIN hooks : hooks'[d] = hooks[d]
    BY <1>4, <2>3 DEF Class!Extend
  <2>5. Class!Lines(bases) \in Seq(DOMAIN mro)
    BY <1>1, BasesOfAClass
  <2>6. mro'[c] \in Seq(DOMAIN mro') /\ mro'[c] # <<>> /\ mro'[c][1] = c
    <3>1. <<c>> \in Seq(DOMAIN mro') /\ Class!Lines(bases) \in Seq(DOMAIN mro')
      BY <2>1, <2>5, SeqMonotonic
    <3>2. Len(<<c>>) = 1 /\ <<c>>[1] = c /\ <<c>> # <<>> /\ Len(Class!Lines(bases)) \in Nat
      BY <3>1
    <3>3. /\ mro'[c] \in Seq(DOMAIN mro') /\ Len(mro'[c]) = 1 + Len(Class!Lines(bases))
          /\ \A i \in 1..1 + Len(Class!Lines(bases)) :
                mro'[c][i] = IF i <= 1 THEN <<c>>[i] ELSE Class!Lines(bases)[i - 1]
      BY <2>1, <3>1, <3>2, ConcatProperties
    <3>4. 1 \in 1..1 + Len(Class!Lines(bases))
      BY <3>2
    <3>5. mro'[c][1] = c
      BY <3>2, <3>3, <3>4
    <3>6. Len(mro'[c]) # 0
      BY <3>2, <3>3
    <3> QED BY <3>3, <3>5, <3>6, EmptySeq
  <2>7. /\ Class!Root \in DOMAIN mro'
        /\ \A d \in DOMAIN mro :
              /\ mro'[d] \in Seq(DOMAIN mro') /\ mro'[d] # <<>> /\ mro'[d][1] = d
              /\ body'[d] \in Seq(Entries)
        /\ \A d \in DOMAIN hooks : Class!IsLine(d)' =>
              /\ hooks'[d] \in Maps
              /\ \A h \in Hooks : hooks'[d][h] = Held(h, Class!AllClaims(d, h)')
    BY <2>1, <2>2, <2>4, OldClassesKeep
  <2>8. CASE c \in Plain
    <3>1. hooks' = hooks /\ c \notin Class!Workers
      BY <1>1, <1>4, <2>8 DEF ClassInv, Class!Workers
    <3>2. DOMAIN hooks' = DOMAIN mro' \cap Class!Workers
      BY <2>1, <3>1 DEF ClassInv
    <3> QED BY <1>2, <2>1, <2>2, <2>6, <2>7, <3>1, <3>2 DEF ClassInv
  <2>9. CASE c \notin Plain
    <3> DEFINE grown == Class!Collected(Class!Inherited(Class!Lines(bases)), entries)
    <3>1. DOMAIN hooks' = DOMAIN hooks \cup {c} /\ hooks'[c] = grown
      BY <1>4, <2>3, <2>9 DEF Class!Extend
    <3>2. DOMAIN hooks' = DOMAIN mro' \cap Class!Workers
      BY <2>1, <2>9, <3>1 DEF ClassInv, Class!Workers
    <3>3. ASSUME Class!IsLine(c)'
          PROVE  /\ hooks'[c] \in Maps
                 /\ \A h \in Hooks : hooks'[c][h] = Held(h, Class!AllClaims(c, h)')
      <4>1. \E d \in Class!ToSet(bases) : d \in Class!Workers
        BY <1>1, <2>9 DEF Class!IsBases
      <4>2. bases # <<>>
        BY <4>1 DEF Class!ToSet
      <4>3. PICK b \in DOMAIN mro : bases = <<b>> /\ Class!Lines(bases) = mro[b]
        <5>1. CASE \E b1, b2 \in DOMAIN mro :
                      /\ b1 \notin Class!ToSet(mro[b2]) /\ b2 \notin Class!ToSet(mro[b1])
                      /\ Class!Lines(bases) = Class!Without(mro[b1], mro[b2]) \o mro[b2]
          <6>1. PICK b1, b2 \in DOMAIN mro :
                      /\ b1 \notin Class!ToSet(mro[b2]) /\ b2 \notin Class!ToSet(mro[b1])
                      /\ Class!Lines(bases) = Class!Without(mro[b1], mro[b2]) \o mro[b2]
            BY <5>1
          <6>2. mro'[c] = <<c>> \o (Class!Without(mro[b1], mro[b2]) \o mro[b2])
            BY <2>1, <6>1
          <6> QED BY <1>1, <2>1, <3>3, <6>1, <6>2, TwoBasesMakeNoLine
        <5> QED BY <1>1, <4>2, <5>1, BasesOfAClass
      <4>4. b \in Class!Workers /\ b \in DOMAIN hooks
        BY <4>1, <4>3 DEF Class!ToSet, ClassInv
      <4>5. mro'[c] = <<c>> \o mro[b]
        BY <2>1, <4>3
      <4>6. Class!IsLine(b)
        BY <1>1, <2>1, <3>3, <4>5, ParentOfALine
      <4>7. hooks[b] \in Maps /\ \A h \in Hooks : hooks[b][h] = Held(h, Class!AllClaims(b, h))
        BY <4>4, <4>6 DEF ClassInv
      <4>8. Class!Inherited(Class!Lines(bases)) = hooks[b]
        <5>1. /\ mro[b] \in Seq(DOMAIN mro) /\ mro[b] # <<>> /\ mro[b][1] = b
          BY DEF ClassInv
        <5>2. Len(mro[b]) # 0
          BY <5>1, EmptySeq
        <5>3. Class!Inherited(mro[b]) = hooks[mro[b][1]]
          BY <4>4, <5>1, <5>2, InheritedFromTheFirst
        <5> QED BY <4>3, <5>1, <5>3
      <4>9. hooks'[c] = Class!Collected(hooks[b], entries)
        BY <3>1, <4>8
      <4>10. hooks'[c] \in Maps
        BY <1>2, <4>7, <4>9, BodyAddsItsClaims
      <4>11. ASSUME NEW h \in Hooks PROVE hooks'[c][h] = Held(h, Class!AllClaims(c, h)')
        <5>1. /\ Class!AllClaims(b, h) \in Seq(Methods)
              /\ Class!AllClaims(c, h)' = Class!AllClaims(b, h) \o Class!Claims(h, entries)
          <6>1. /\ c \notin DOMAIN mro /\ entries \in Seq(Entries)
                /\ mro'[c] = <<c>> \o mro[b] /\ body'[c] = entries
            BY <1>1, <1>2, <2>1, <2>2, <4>5
          <6>2. \A d \in DOMAIN mro : mro'[d] = mro[d] /\ body'[d] = body[d]
            BY <2>1, <2>2
          <6> QED BY <6>1, <6>2, LineAddsItsClaims
        <5>2. \A claims \in Seq(Methods) : hooks[b][h] = Held(h, claims) =>
                Class!Collected(hooks[b], entries)[h] =
                    Held(h, claims \o Class!Claims(h, entries))
          BY <1>2, <4>7, BodyAddsItsClaims
        <5> QED BY <4>7, <4>9, <5>1, <5>2
      <4> QED BY <4>10, <4>11
    <3> QED BY <1>2, <2>1, <2>2, <2>6, <2>7, <3>1, <3>2, <3>3 DEF ClassInv
  <2> QED BY <2>8, <2>9
<1> QED BY <1>3, <1>4 DEF Class!Define

\* Whoever is defined under whom, in a line of single inheritance the hooks of a class
\* are those that the bodies of the line decorate, the ancestors' first, and a state's
\* actor is the last method that claims it (worker.py:149-173): for all classes, hooks
\* and bodies, though each class only ever looks at the map of the nearest one.
THEOREM HooksAlwaysAddUp == SetUpSpec => []HooksAddUpAlongALine
<1>1. SetUpInit => ClassInv
  <2> SUFFICES ASSUME SetUpInit PROVE ClassInv
    OBVIOUS
  <2> DEFINE R == Class!Root
  <2>1. /\ mro = [c \in {R} |-> <<R>>] /\ body = [c \in {R} |-> <<>>]
        /\ hooks = [c \in {R} |-> Class!NoHooks]
    BY DEF SetUpInit, Class!Init
  <2>2. R \in Class!Workers
    BY DEF Class!Workers
  <2>3. Class!NoHooks \in Maps /\ \A h \in Hooks : Class!NoHooks[h] = <<>>
    BY DEF Maps, Class!NoHooks
  <2>4. \A h \in Hooks : Class!AllClaims(R, h) = <<>>
    <3> SUFFICES ASSUME NEW h \in Hooks PROVE Class!AllClaims(R, h) = <<>>
      OBVIOUS
    <3>1. Class!FlattenSeq(<<>>) = <<>>
      BY DEF Class!FlattenSeq
    <3>2. Class!Claims(h, <<>>) = <<>>
      <4>1. [i \in DOMAIN <<>> |->
                [j \in 1..Class!Times(h, <<>>[i]) |-> <<>>[i].method]] = <<>>
        OBVIOUS
      <4> QED BY <3>1, <4>1, Zenon DEF Class!Claims
    <3>3. /\ mro[R] = <<R>> /\ body[R] = <<>> /\ DOMAIN <<R>> = {1}
          /\ Class!Reverse(<<R>>)[1] = R
      BY <2>1 DEF Class!Reverse
    <3>4. [i \in DOMAIN mro[R] |-> Class!Claims(h, body[Class!Reverse(mro[R])[i]])] = << <<>> >>
      <4> DEFINE t == [i \in DOMAIN mro[R] |-> Class!Claims(h, body[Class!Reverse(mro[R])[i]])]
      <4>1. DOMAIN t = 1..1 /\ t[1] = <<>>
        BY <3>2, <3>3
      <4>2. t = [i \in 1..1 |-> t[i]]
        BY <4>1
      <4> HIDE DEF t
      <4>3. t = [i \in 1..1 |-> <<>>]
        BY <4>1, <4>2
      <4>4. << <<>> >> = [i \in 1..1 |-> <<>>]
        OBVIOUS
      <4> QED BY <4>3, <4>4 DEF t
    <3>5. Class!AllClaims(R, h) = Class!FlattenSeq(<< <<>> >>)
      BY <3>4, Zenon DEF Class!AllClaims
    <3>6. Class!FlattenSeq(<< <<>> >>) = <<>>
      <4>1. Append(<<>>, <<>>) = << <<>> >> /\ <<>> \in Seq(Seq(Methods)) /\ <<>> \in Seq(Methods)
        OBVIOUS
      <4>2. Class!FlattenSeq(Append(<<>>, <<>>)) = Class!FlattenSeq(<<>>) \o <<>>
        BY <4>1, FlattenAppend
      <4> QED BY <3>1, <4>1, <4>2
    <3> QED BY <3>5, <3>6
  <2>5. \A h \in Hooks : Held(h, <<>>) = <<>>
    BY DEF Held, Class!LastClaim
  <2>6. /\ \A c \in DOMAIN mro : mro[c] \in Seq(DOMAIN mro) /\ mro[c] # <<>> /\ mro[c][1] = c
        /\ DOMAIN body = DOMAIN mro /\ \A c \in DOMAIN mro : body[c] \in Seq(Entries)
    <3> HIDE DEF R
    <3> QED BY <2>1
  <2>7. R \in DOMAIN mro /\ DOMAIN hooks = {R} /\ hooks[R] = Class!NoHooks /\ DOMAIN mro = {R}
    <3> HIDE DEF R
    <3> QED BY <2>1
  <2>8. \A c \in DOMAIN hooks :
            /\ hooks[c] \in Maps
            /\ \A h \in Hooks : hooks[c][h] = Held(h, Class!AllClaims(c, h))
    <3> HIDE DEF R
    <3> QED BY <2>3, <2>4, <2>5, <2>7
  <2> QED BY <2>2, <2>6, <2>7, <2>8 DEF ClassInv
<1>2. ClassInv /\ [SetUpNext]_all => ClassInv'
  <2> SUFFICES ASSUME ClassInv, [SetUpNext]_all PROVE ClassInv'
    OBVIOUS
  <2>1. CASE Class!Next
    <3>1. CASE UNCHANGED Class!vars
      <4> USE DEF Class!vars
      <4>1. /\ Class!Root \in DOMAIN mro'
            /\ \A d \in DOMAIN mro :
                  /\ mro'[d] \in Seq(DOMAIN mro') /\ mro'[d] # <<>> /\ mro'[d][1] = d
                  /\ body'[d] \in Seq(Entries)
            /\ \A d \in DOMAIN hooks : Class!IsLine(d)' =>
                  /\ hooks'[d] \in Maps
                  /\ \A h \in Hooks : hooks'[d][h] = Held(h, Class!AllClaims(d, h)')
        BY <3>1, OldClassesKeep
      <4> QED BY <3>1, <4>1 DEF ClassInv
    <3> QED BY <2>1, <3>1, DefineKeeps DEF Class!Next
  <2>2. CASE UNCHANGED class_vars
    <3>1. UNCHANGED <<mro, body, hooks>>
      BY <2>2 DEF class_vars
    <3>2. /\ Class!Root \in DOMAIN mro'
          /\ \A d \in DOMAIN mro :
                /\ mro'[d] \in Seq(DOMAIN mro') /\ mro'[d] # <<>> /\ mro'[d][1] = d
                /\ body'[d] \in Seq(Entries)
          /\ \A d \in DOMAIN hooks : Class!IsLine(d)' =>
                /\ hooks'[d] \in Maps
                /\ \A h \in Hooks : hooks'[d][h] = Held(h, Class!AllClaims(d, h)')
      BY <3>1, OldClassesKeep
    <3> QED BY <3>1, <3>2 DEF ClassInv
  <2>3. Class!Next \/ UNCHANGED class_vars
    BY DEF SetUpNext, InMachine, InClass, InClone, InBoot, InSettings, all
  <2> QED BY <2>1, <2>2, <2>3
<1>3. ClassInv => HooksAddUpAlongALine
  BY DEF ClassInv, Held, HooksAddUpAlongALine, Class!HooksAddUpAlongALine
<1> QED BY <1>1, <1>2, <1>3, PTL DEF SetUpSpec

-----------------------------------------------------------------------------
(* Clones. *)

\* A name is of one kind.
LEMMA NamesHaveOneKind ==
    ASSUME NEW sig \in Signatures, NEW K, NEW L, K \cap L = {},
           NEW n \in Clone!NamesOf(sig, K)
    PROVE  n \notin Clone!NamesOf(sig, L)
  BY SignatureAssumption DEF Clone!NamesOf

LEMMA BoundOf ==
    ASSUME NEW sig \in Signatures, NEW call, NEW i \in DOMAIN sig
    PROVE  /\ sig[i].name \in DOMAIN Clone!Bound(sig, call)
           /\ Clone!Bound(sig, call)[sig[i].name] = Clone!Value(sig, call, sig[i])
<1>1. (CHOOSE j \in DOMAIN sig : sig[j].name = sig[i].name) = i
  BY SignatureAssumption
<1> QED  BY <1>1 DEF Clone!Bound

LEMMA RestOf ==
    ASSUME NEW sig \in Signatures, NEW call,
           NEW n \in Clone!NamesOf(sig, {"var_keyword"})
    PROVE  Clone!Bound(sig, call)[n]
                = Clone!Restrict(call.kws, DOMAIN call.kws \ Clone!Keywords(sig))
<1>1. PICK i \in DOMAIN sig : sig[i].name = n /\ sig[i].kind = "var_keyword"
  BY DEF Clone!NamesOf
<1>2. Clone!Bound(sig, call)[n] = Clone!Value(sig, call, sig[i])
  BY <1>1, BoundOf
<1>3. Clone!Value(sig, call, sig[i])
        = Clone!Restrict(call.kws, DOMAIN call.kws \ Clone!Keywords(sig))
  BY <1>1 DEF Clone!Value
<1> QED  BY <1>2, <1>3

LEMMA ArgsOf ==
    ASSUME NEW sig \in Signatures, NEW call,
           NEW n \in Clone!NamesOf(sig, {"var_positional"})
    PROVE  Clone!Bound(sig, call)[n]
                = Clone!Restrict(call.pos, DOMAIN call.pos \ Clone!Places(sig))
<1>1. PICK i \in DOMAIN sig : sig[i].name = n /\ sig[i].kind = "var_positional"
  BY DEF Clone!NamesOf
<1>2. Clone!Bound(sig, call)[n] = Clone!Value(sig, call, sig[i])
  BY <1>1, BoundOf
<1>3. Clone!Value(sig, call, sig[i]) = Clone!Restrict(call.pos, DOMAIN call.pos \ Clone!Places(sig))
  BY <1>1 DEF Clone!Value
<1> QED  BY <1>2, <1>3

LEMMA KeywordOf ==
    ASSUME NEW sig \in Signatures, NEW call, DOMAIN call.pos = {},
           NEW n \in Clone!Keywords(sig) \cap DOMAIN call.kws
    PROVE  Clone!Bound(sig, call)[n] = call.kws[n]
<1>1. PICK i \in DOMAIN sig : sig[i].name = n /\ sig[i].kind \in {"normal", "keyword_only"}
  BY DEF Clone!NamesOf, Clone!Keywords
<1>2. Clone!Bound(sig, call)[n] = Clone!Value(sig, call, sig[i])
  BY <1>1, BoundOf
<1>3. Clone!Value(sig, call, sig[i]) = call.kws[n]
  <2>1. {j \in Clone!Places(sig) \cap DOMAIN call.pos : sig[j].name = sig[i].name} = {}
    OBVIOUS
  <2> QED  BY <1>1, <2>1 DEF Clone!Value, Clone!Argument
<1> QED  BY <1>2, <1>3

LEMMA ReplayHasNoPlaces ==
    ASSUME NEW cls, NEW w
    PROVE  DOMAIN Clone!Replay(cls, w).pos = {}
  BY DEF Clone!Replay

Named(sig) == Clone!NamesOf(sig, {"positional_only", "normal", "keyword_only"}) \ Clone!Excluded

Unplaceable(sig) == Clone!NamesOf(sig, {"positional_only"}) \cup Clone!Excluded

\* A key that is nobody's keyword ends in **kwargs, and is in the way there.
LEMMA LeftOverIsKept ==
    ASSUME NEW cls, cls.sig \in Signatures, NEW call, NEW t,
           ~Clone!Failed(Clone!New(cls, call)), Clone!Same(Clone!New(cls, call), t),
           NEW k \in DOMAIN call.kws \ Clone!Keywords(cls.sig),
           k \in Unplaceable(cls.sig), cls.super \in Clone!Supers,
           k = "fsm" => cls.super # "kwargs"
    PROVE  Clone!IsShadowed(cls, t)
<1> DEFINE c == Clone!New(cls, call)
<1>1. Clone!Binds(cls.sig, call) /\ Clone!SuperBinds(cls, call)
  BY DEF Clone!New, Clone!Failed, Clone!Fail
<1>2. PICK r \in Clone!NamesOf(cls.sig, {"var_keyword"}) : TRUE
  BY <1>1 DEF Clone!Binds
<1>3. \A n \in Clone!NamesOf(cls.sig, {"var_keyword"}) :
        k \in DOMAIN Clone!Bound(cls.sig, call)[n]
  <2> TAKE n \in Clone!NamesOf(cls.sig, {"var_keyword"})
  <2>1. Clone!Bound(cls.sig, call)[n]
            = Clone!Restrict(call.kws, DOMAIN call.kws \ Clone!Keywords(cls.sig))
    BY RestOf
  <2> QED  BY <2>1 DEF Clone!Restrict
<1>4. cls.super \notin {"kwargs", "own_kwargs"}
  <2> SUFFICES ASSUME cls.super \in {"kwargs", "own_kwargs"}
               PROVE  FALSE
    OBVIOUS
  <2>1. Clone!SuperKeywords(cls, call) = Clone!Rest(cls.sig, call)
    BY DEF Clone!SuperKeywords
  <2>2. k \in DOMAIN Clone!SuperKeywords(cls, call)
    BY <1>2, <1>3, <2>1 DEF Clone!Rest
  <2>3. k = "fsm" /\ cls.super = "kwargs"
    BY <1>1, <2>2 DEF Clone!SuperBinds
  <2> QED  BY <2>3
<1>5. r \in Clone!Kept(cls)
  <2>1. r \notin {"name", "fsm"}
    BY SignatureAssumption DEF Clone!NamesOf
  <2>2. r \in Clone!NamesOf(cls.sig, Clone!Kinds)
    BY DEF Clone!NamesOf, Clone!Kinds
  <2> QED  BY <1>4, <2>1, <2>2 DEF Clone!Kept
<1>6. c.fields = Clone!Restrict(Clone!Bound(cls.sig, call), Clone!Kept(cls))
  BY <1>1 DEF Clone!New
<1>7. r \in DOMAIN c.fields /\ k \in DOMAIN c.fields[r]
  BY <1>3, <1>5, <1>6 DEF Clone!Restrict
<1>8. t.fields = c.fields
  BY DEF Clone!Same
<1> QED  BY <1>2, <1>7, <1>8 DEF Clone!IsShadowed, Unplaceable

LEMMA ReplayHas ==
    ASSUME NEW cls, NEW w
    PROVE  /\ DOMAIN w._meta \subseteq DOMAIN Clone!Replay(cls, w).kws
           /\ "name" \in DOMAIN Clone!Replay(cls, w).kws
           /\ Clone!AcceptsFsm(cls) => "fsm" \in DOMAIN Clone!Replay(cls, w).kws
  BY DEF Clone!Replay, Clone!Merge

\* The clone of what cannot be replayed.
LEMMA UnreplayableDiffers ==
    ASSUME NEW cls, cls.sig \in Signatures, Clone!IsClass(cls), cls.super \in Clone!Supers,
           NEW w, Named(cls.sig) \subseteq DOMAIN w._meta, NEW t,
           ~Clone!Failed(Clone!Clone(cls, w)), Clone!Same(Clone!Clone(cls, w), t),
           ~Clone!IsReplayable(cls, t)
    PROVE  Clone!IsShadowed(cls, t)
<1> DEFINE call == Clone!Replay(cls, w)
           sig == cls.sig
<1>0. /\ Clone!Clone(cls, w) = Clone!New(cls, call)
      /\ Clone!Binds(sig, call)
  BY DEF Clone!Clone, Clone!New, Clone!Failed, Clone!Fail
<1>1. CASE "name" \notin Clone!Keywords(sig)
  BY <1>0, <1>1, ReplayHas, LeftOverIsKept DEF Unplaceable, Clone!Excluded
<1>2. CASE Clone!NamesOf(sig, {"positional_only"}) # {}
  <2>1. PICK n \in Clone!NamesOf(sig, {"positional_only"}) : TRUE
    BY <1>2
  <2>2. n \notin Clone!Keywords(sig)
    BY <2>1, NamesHaveOneKind DEF Clone!Keywords
  <2>3. CASE n = "name"
    BY <1>1, <2>2, <2>3
  <2>4. CASE n = "fsm"
    <3>1. cls.super = "fsm" /\ Clone!AcceptsFsm(cls)
      BY <2>1, <2>4 DEF Clone!IsClass, Clone!AcceptsFsm, Clone!NamesOf, Clone!Kinds
    <3> QED  BY <1>0, <2>1, <2>2, <2>4, <3>1, ReplayHas, LeftOverIsKept DEF Unplaceable
  <2>5. CASE n \notin Clone!Excluded
    <3>1. n \in Named(sig)
      BY <2>1, <2>5 DEF Named, Clone!NamesOf
    <3> QED  BY <1>0, <2>1, <2>2, <2>5, <3>1, ReplayHas, LeftOverIsKept
             DEF Unplaceable, Clone!Excluded
  <2> QED  BY <2>3, <2>4, <2>5 DEF Clone!Excluded
<1>3. ASSUME NEW n \in Clone!NamesOf(sig, {"var_positional"}), DOMAIN t.fields[n] # {}
      PROVE  FALSE
  <2>1. n \in Clone!Kept(cls)
    <3>1. n \notin {"name", "fsm"}
      BY SignatureAssumption DEF Clone!NamesOf
    <3>2. n \in Clone!NamesOf(sig, Clone!Kinds)
      BY DEF Clone!NamesOf, Clone!Kinds
    <3>3. n \notin Clone!NamesOf(sig, {"var_keyword"})
      BY NamesHaveOneKind
    <3> QED  BY <3>1, <3>2, <3>3 DEF Clone!Kept
  <2>2. t.fields[n] = Clone!Bound(sig, call)[n]
    BY <1>0, <2>1 DEF Clone!Same, Clone!New, Clone!Restrict, Clone!Failed, Clone!Fail
  <2>3. t.fields[n] = Clone!Restrict(call.pos, DOMAIN call.pos \ Clone!Places(sig))
    BY <2>2, ArgsOf
  <2>4. DOMAIN call.pos = {}
    BY ReplayHasNoPlaces
  <2> QED  BY <1>3, <2>3, <2>4 DEF Clone!Restrict
<1>4. CASE /\ Clone!NamesOf(sig, {"var_keyword"}) # {}
           /\ cls.super \notin {"fsm", "kwargs"}
  <2>1. "fsm" \notin Clone!Keywords(sig) /\ Clone!AcceptsFsm(cls)
    BY <1>4 DEF Clone!IsClass, Clone!AcceptsFsm, Clone!Keywords, Clone!NamesOf, Clone!Kinds
  <2> QED  BY <1>0, <1>4, <2>1, ReplayHas, LeftOverIsKept DEF Unplaceable, Clone!Excluded
<1> QED  BY <1>1, <1>2, <1>3, <1>4 DEF Clone!IsReplayable

Spare(sig, call) == DOMAIN call.kws \ Clone!Keywords(sig)

\* What _meta holds: arguments by name, and those that **kwargs took.
LEMMA MetaOfNames ==
    ASSUME NEW sig, NEW call, Clone!NamesOf(sig, {"var_keyword"}) = {}
    PROVE  Clone!CollectInitMeta(sig, call) = Clone!Restrict(Clone!Bound(sig, call), Named(sig))
  BY DEF Clone!CollectInitMeta, Named

LEMMA MetaOfMore ==
    ASSUME NEW sig \in Signatures, NEW call, Clone!NamesOf(sig, {"var_keyword"}) # {}
    PROVE  /\ DOMAIN Clone!CollectInitMeta(sig, call)
                = Named(sig) \cup (Spare(sig, call) \ Clone!Excluded)
           /\ \A k \in Spare(sig, call) \ Clone!Excluded :
                Clone!CollectInitMeta(sig, call)[k] = call.kws[k]
           /\ \A k \in Named(sig) \ Spare(sig, call) :
                Clone!CollectInitMeta(sig, call)[k] = Clone!Bound(sig, call)[k]
           /\ Clone!CollectInitMeta(sig, call)
                = [k \in DOMAIN Clone!CollectInitMeta(sig, call) |->
                    Clone!CollectInitMeta(sig, call)[k]]
<1> DEFINE rest == Clone!NamesOf(sig, {"var_keyword"})
           spare == Spare(sig, call)
           meta == Clone!CollectInitMeta(sig, call)
           extra == Clone!Bound(sig, call)[CHOOSE n \in rest : TRUE]
           named == Clone!Restrict(Clone!Bound(sig, call), Named(sig))
           more == Clone!Restrict(extra, DOMAIN extra \ Clone!Excluded)
<1>1. extra = Clone!Restrict(call.kws, spare)
  BY RestOf DEF Spare
<1>2. meta = Clone!Merge(named, more)
  BY DEF Clone!CollectInitMeta, Named
<1>3. /\ DOMAIN named = Named(sig) /\ \A k \in Named(sig) : named[k] = Clone!Bound(sig, call)[k]
      /\ DOMAIN more = spare \ Clone!Excluded
      /\ \A k \in spare \ Clone!Excluded : more[k] = call.kws[k]
  BY <1>1 DEF Clone!Restrict
<1> HIDE DEF extra, named, more
<1> QED  BY <1>2, <1>3 DEF Clone!Merge

\* What a replay calls with.
LEMMA ReplayIs ==
    ASSUME NEW cls, NEW w
    PROVE  /\ DOMAIN Clone!Replay(cls, w).kws
                = DOMAIN w._meta \cup {"name"}
                    \cup (IF Clone!AcceptsFsm(cls) THEN {"fsm"} ELSE {})
           /\ Clone!Replay(cls, w).kws["name"] = w.name
           /\ Clone!AcceptsFsm(cls) => Clone!Replay(cls, w).kws["fsm"] = w.fsm
           /\ \A k \in DOMAIN w._meta \ Clone!Excluded :
                Clone!Replay(cls, w).kws[k] = w._meta[k]
<1>1. CASE Clone!AcceptsFsm(cls)
  BY <1>1 DEF Clone!Replay, Clone!Merge, Clone!Excluded
<1>2. CASE ~Clone!AcceptsFsm(cls)
  BY <1>2 DEF Clone!Replay, Clone!Merge, Clone!Excluded, Clone!Empty
<1> QED  BY <1>1, <1>2

\* What can be replayed comes back as it was.
LEMMA ReplayableIsFixed ==
    ASSUME NEW cls, cls.sig \in Signatures, Clone!IsClass(cls), cls.super \in Clone!Supers,
           NEW call, ~Clone!Failed(Clone!New(cls, call)),
           Clone!IsReplayable(cls, Clone!New(cls, call))
    PROVE  Clone!Clone(cls, Clone!New(cls, call)) = Clone!New(cls, call)
<1> DEFINE sig == cls.sig
           w == Clone!New(cls, call)
           again == Clone!Replay(cls, w)
           rest == Clone!NamesOf(sig, {"var_keyword"})
           spare == Spare(sig, call)
           bound == Clone!Bound(sig, call)
           rebound == Clone!Bound(sig, again)
<1>1. /\ Clone!SuperBinds(cls, call)
      /\ w = [name   |-> IF "name" \in Clone!NamesOf(sig, Clone!Kinds) THEN bound["name"]
                         ELSE "fixed",
              fsm    |-> Clone!MachineOf(cls, call),
              fields |-> Clone!Restrict(bound, Clone!Kept(cls)),
              _meta  |-> Clone!CollectInitMeta(sig, call)]
  BY DEF Clone!New, Clone!Failed, Clone!Fail
\* The signature, as far as it matters.
<1>2. /\ "name" \in Clone!Keywords(sig)
      /\ Clone!NamesOf(sig, {"positional_only"}) = {}
      /\ rest # {} => cls.super \in {"fsm", "kwargs"}
      /\ \A n \in Clone!NamesOf(sig, {"var_positional"}) : DOMAIN w.fields[n] = {}
  BY DEF Clone!IsReplayable
<1>3. /\ Clone!NamesOf(sig, {"positional_only", "normal", "keyword_only"}) = Clone!Keywords(sig)
      /\ Clone!NamesOf(sig, Clone!Kinds)
            = Clone!Keywords(sig) \cup Clone!NamesOf(sig, {"var_positional"}) \cup rest
      /\ Clone!Keywords(sig) \subseteq DOMAIN bound
  <2>1. Clone!Keywords(sig) \subseteq DOMAIN bound
    BY BoundOf DEF Clone!Keywords, Clone!NamesOf
  <2>2. Clone!NamesOf(sig, {"positional_only", "normal", "keyword_only"})
            = Clone!NamesOf(sig, {"positional_only"}) \cup Clone!Keywords(sig)
    BY DEF Clone!Keywords, Clone!NamesOf
  <2>3. Clone!NamesOf(sig, Clone!Kinds)
            = Clone!NamesOf(sig, {"positional_only", "normal", "keyword_only"})
                \cup Clone!NamesOf(sig, {"var_positional"}) \cup rest
    BY DEF Clone!NamesOf, Clone!Kinds
  <2> QED  BY <1>2, <2>1, <2>2, <2>3
<1>4. \A n \in rest \cup Clone!NamesOf(sig, {"var_positional"}) :
            n \notin {"name", "fsm"} /\ n \notin Clone!Keywords(sig)
  <2>1. \A n \in rest \cup Clone!NamesOf(sig, {"var_positional"}) : n \notin {"name", "fsm"}
    BY SignatureAssumption DEF Clone!NamesOf
  <2>2. \A n \in rest : n \notin Clone!Keywords(sig)
    BY NamesHaveOneKind DEF Clone!Keywords
  <2>3. \A n \in Clone!NamesOf(sig, {"var_positional"}) : n \notin Clone!Keywords(sig)
    BY NamesHaveOneKind DEF Clone!Keywords
  <2> QED  BY <2>1, <2>2, <2>3
\* What is spare.
<1>5. \A n \in rest : bound[n] = Clone!Restrict(call.kws, spare)
  BY RestOf DEF Spare
<1>6. cls.super = "kwargs" => spare \subseteq {"fsm"} /\ rest # {} /\ "fsm" \notin Clone!Keywords(sig)
  <2> SUFFICES ASSUME cls.super = "kwargs"
               PROVE  spare \subseteq {"fsm"} /\ rest # {} /\ "fsm" \notin Clone!Keywords(sig)
    OBVIOUS
  <2>1. rest # {}
    BY DEF Clone!IsClass
  <2>2. Clone!SuperKeywords(cls, call) = Clone!Restrict(call.kws, spare)
    BY <1>5, <2>1 DEF Clone!SuperKeywords, Clone!Rest
  <2>3. "fsm" \notin Clone!Keywords(sig)
    BY <1>3 DEF Clone!IsClass
  <2> QED  BY <1>1, <2>1, <2>2, <2>3 DEF Clone!SuperBinds, Clone!Restrict
<1>7. cls.super = "fsm" => "fsm" \in Clone!Keywords(sig)
  BY <1>3, <1>4 DEF Clone!IsClass
<1>8. Named(sig) = Clone!Keywords(sig) \ {"name", "fsm"}
  BY <1>3 DEF Named, Clone!Excluded
<1>9. /\ DOMAIN w._meta = Named(sig) \cup (IF rest = {} THEN {} ELSE spare \ {"name", "fsm"})
      /\ \A k \in Named(sig) : w._meta[k] = bound[k]
      /\ rest # {} => \A k \in spare \ {"name", "fsm"} : w._meta[k] = call.kws[k]
  <2>1. w._meta = Clone!CollectInitMeta(sig, call)
    BY <1>1
  <2>2. CASE rest = {}
    BY <2>1, <2>2, MetaOfNames DEF Clone!Restrict
  <2>3. CASE rest # {}
    <3>1. \A k \in Named(sig) : k \notin spare
      BY <1>8 DEF Spare
    <3>2. /\ DOMAIN w._meta = Named(sig) \cup (spare \ Clone!Excluded)
          /\ \A k \in spare \ Clone!Excluded : w._meta[k] = call.kws[k]
          /\ \A k \in Named(sig) \ spare : w._meta[k] = bound[k]
      <4> DEFINE meta == Clone!CollectInitMeta(sig, call)
      <4>1. /\ DOMAIN meta = Named(sig) \cup (spare \ Clone!Excluded)
            /\ \A k \in spare \ Clone!Excluded : meta[k] = call.kws[k]
            /\ \A k \in Named(sig) \ spare : meta[k] = bound[k]
            /\ meta = [k \in DOMAIN meta |-> meta[k]]
        BY <2>3, MetaOfMore
      <4> HIDE DEF w, spare, bound
      <4> QED  BY <2>1, <4>1
    <3> HIDE DEF w, spare, bound
    <3> QED  BY <2>3, <3>1, <3>2 DEF Clone!Excluded
  <2> QED  BY <2>2, <2>3
\* The replay.
<1>10. Clone!AcceptsFsm(cls) <=> rest # {} \/ cls.super = "fsm"
  BY DEF Clone!AcceptsFsm, Clone!IsClass
<1> DEFINE respare == Spare(sig, again)
<1>11. /\ Clone!Keywords(sig) \subseteq DOMAIN again.kws
       /\ again.kws["name"] = w.name
       /\ "fsm" \in Clone!Keywords(sig) \/ rest # {} => again.kws["fsm"] = w.fsm
       /\ \A k \in Named(sig) : again.kws[k] = bound[k]
       /\ DOMAIN again.pos = {}
  <2>1. "fsm" \in Clone!Keywords(sig) => cls.super = "fsm"
    BY <1>3 DEF Clone!IsClass
  <2>2. /\ DOMAIN again.kws = DOMAIN w._meta \cup {"name"}
                                \cup (IF Clone!AcceptsFsm(cls) THEN {"fsm"} ELSE {})
        /\ again.kws["name"] = w.name
        /\ Clone!AcceptsFsm(cls) => again.kws["fsm"] = w.fsm
        /\ \A k \in DOMAIN w._meta \ {"name", "fsm"} : again.kws[k] = w._meta[k]
    BY ReplayIs DEF Clone!Excluded
  <2>3. Clone!Keywords(sig) \subseteq DOMAIN again.kws
    BY <1>8, <1>9, <1>10, <2>1, <2>2
  <2>4. \A k \in Named(sig) : again.kws[k] = bound[k]
    BY <1>8, <1>9, <2>2
  <2>5. DOMAIN again.pos = {}
    BY ReplayHasNoPlaces
  <2> HIDE DEF again, bound
  <2> QED  BY <1>10, <2>1, <2>2, <2>3, <2>4, <2>5
<1>12. /\ rest = {} => respare = {}
       /\ cls.super = "kwargs" => respare = {"fsm"}
       /\ rest # {} /\ cls.super = "fsm" =>
            respare = spare /\ \A k \in spare : again.kws[k] = call.kws[k] /\ k \notin {"name", "fsm"}
  <2>1. DOMAIN again.kws = DOMAIN w._meta \cup {"name"}
                            \cup (IF Clone!AcceptsFsm(cls) THEN {"fsm"} ELSE {})
    BY ReplayIs
  <2>2. rest = {} => respare = {}
    BY <1>2, <1>7, <1>8, <1>9, <1>10, <2>1 DEF Spare
  <2>3. cls.super = "kwargs" => respare = {"fsm"}
    BY <1>2, <1>6, <1>8, <1>9, <1>10, <2>1 DEF Spare
  <2>4. ASSUME rest # {}, cls.super = "fsm"
        PROVE  respare = spare /\ \A k \in spare : again.kws[k] = call.kws[k] /\ k \notin {"name", "fsm"}
    <3>1. "name" \notin spare /\ "fsm" \notin spare
      BY <1>2, <1>7, <2>4 DEF Spare
    <3>2. respare = spare
      BY <1>2, <1>7, <1>8, <1>9, <1>10, <2>1, <2>4, <3>1 DEF Spare
    <3>3. \A k \in DOMAIN w._meta \ {"name", "fsm"} : again.kws[k] = w._meta[k]
      BY ReplayIs DEF Clone!Excluded
    <3> QED  BY <1>9, <2>4, <3>1, <3>2, <3>3
  <2> QED  BY <2>2, <2>3, <2>4
<1>13. Clone!Binds(sig, again)
  <2>1. Clone!Filled(sig, again) = {}
    BY <1>11 DEF Clone!Filled
  <2>2. Clone!Required(sig) \subseteq Clone!Keywords(sig)
    BY <1>2 DEF Clone!Required, Clone!Keywords, Clone!NamesOf
  <2>3. DOMAIN again.kws \subseteq Clone!Keywords(sig) \/ rest # {}
    BY <1>12 DEF Spare
  <2> QED  BY <1>11, <2>1, <2>2, <2>3 DEF Clone!Binds
\* What comes back.
<1>14. /\ \A n \in Named(sig) : rebound[n] = bound[n]
       /\ rebound["name"] = w.name
       /\ "fsm" \in Clone!Keywords(sig) => rebound["fsm"] = w.fsm
  BY <1>2, <1>8, <1>11, KeywordOf
<1>15. \A n \in rest : rebound[n] = Clone!Restrict(again.kws, respare)
  BY RestOf DEF Spare
<1>16. cls.super = "fsm" => \A n \in rest : rebound[n] = bound[n]
  <2> SUFFICES ASSUME cls.super = "fsm", NEW n \in rest
               PROVE  rebound[n] = bound[n]
    OBVIOUS
  <2>1. respare = spare /\ \A k \in spare : again.kws[k] = call.kws[k]
    BY <1>12
  <2>2. rebound[n] = Clone!Restrict(again.kws, spare) /\ bound[n] = Clone!Restrict(call.kws, spare)
    BY <1>5, <1>15, <2>1
  <2> HIDE DEF spare, again, rebound, bound
  <2> QED  BY <2>1, <2>2 DEF Clone!Restrict
<1>17. \A n \in Clone!NamesOf(sig, {"var_positional"}) : rebound[n] = bound[n]
  <2> TAKE n \in Clone!NamesOf(sig, {"var_positional"})
  <2>1. n \in Clone!Kept(cls)
    <3>1. n \notin rest
      BY NamesHaveOneKind
    <3> QED  BY <1>3, <1>4, <3>1 DEF Clone!Kept
  <2>2. w.fields[n] = bound[n]
    BY <1>1, <2>1 DEF Clone!Restrict
  <2>3. bound[n] = Clone!Restrict(call.pos, DOMAIN call.pos \ Clone!Places(sig))
    BY ArgsOf
  <2>4. rebound[n] = Clone!Restrict(again.pos, DOMAIN again.pos \ Clone!Places(sig))
    BY ArgsOf
  <2>5. DOMAIN call.pos \ Clone!Places(sig) = {}
    BY <1>2, <2>2, <2>3 DEF Clone!Restrict
  <2>6. DOMAIN again.pos \ Clone!Places(sig) = {}
    BY <1>11
  <2> QED  BY <2>3, <2>4, <2>5, <2>6 DEF Clone!Restrict
<1>18. Clone!SuperBinds(cls, again) /\ Clone!MachineOf(cls, again) = w.fsm
  <2>1. CASE cls.super = "fsm"
    <3>1. Clone!SuperKeywords(cls, again) = [fsm |-> rebound["fsm"]]
      BY <2>1 DEF Clone!SuperKeywords
    <3> QED  BY <1>7, <1>14, <2>1, <3>1 DEF Clone!SuperBinds, Clone!MachineOf
  <2>2. CASE cls.super \in {"none", "own"}
    <3>1. Clone!SuperKeywords(cls, again) = Clone!SuperKeywords(cls, call)
      BY <2>2 DEF Clone!SuperKeywords
    <3> QED  BY <1>1, <3>1 DEF Clone!SuperBinds, Clone!MachineOf
  <2>3. CASE cls.super = "kwargs"
    <3>1. Clone!SuperKeywords(cls, again) = Clone!Restrict(again.kws, {"fsm"})
      BY <1>6, <1>12, <1>15, <2>3 DEF Clone!SuperKeywords, Clone!Rest
    <3>2. again.kws["fsm"] = w.fsm
      BY <1>6, <1>11, <2>3
    <3> QED  BY <2>3, <3>1, <3>2 DEF Clone!SuperBinds, Clone!MachineOf, Clone!Restrict
  <2>4. cls.super # "own_kwargs"
    BY <1>2 DEF Clone!IsClass
  <2> QED  BY <2>1, <2>2, <2>3, <2>4 DEF Clone!Supers
<1>19. Clone!Restrict(rebound, Clone!Kept(cls)) = w.fields
  <2>1. \A n \in Clone!Kept(cls) : rebound[n] = bound[n]
    <3> TAKE n \in Clone!Kept(cls)
    <3>1. CASE n \in Clone!Keywords(sig)
      BY <1>8, <1>14, <3>1 DEF Clone!Kept
    <3>2. CASE n \in Clone!NamesOf(sig, {"var_positional"})
      BY <1>17, <3>2
    <3>3. CASE n \in rest
      BY <1>2, <1>16, <3>3 DEF Clone!Kept
    <3> QED  BY <1>3, <3>1, <3>2, <3>3 DEF Clone!Kept
  <2> QED  BY <1>1, <2>1 DEF Clone!Restrict
<1>20. Clone!CollectInitMeta(sig, again) = w._meta
  <2> DEFINE meta == Clone!CollectInitMeta(sig, again)
  <2>1. w._meta = Clone!CollectInitMeta(sig, call)
    BY <1>1
  <2>2. CASE rest = {}
    <3>1. meta = Clone!Restrict(rebound, Named(sig))
      BY <2>2, MetaOfNames
    <3>2. w._meta = Clone!Restrict(bound, Named(sig))
      BY <2>1, <2>2, MetaOfNames
    <3> QED  BY <1>14, <3>1, <3>2 DEF Clone!Restrict
  <2>3. CASE rest # {}
    <3>1. /\ DOMAIN meta = Named(sig) \cup (respare \ Clone!Excluded)
          /\ \A k \in respare \ Clone!Excluded : meta[k] = again.kws[k]
          /\ \A k \in Named(sig) \ respare : meta[k] = rebound[k]
          /\ meta = [k \in DOMAIN meta |-> meta[k]]
      BY <2>3, MetaOfMore
    <3>2. w._meta = [k \in DOMAIN w._meta |-> w._meta[k]]
      BY <2>1, <2>3, MetaOfMore
    <3>3. respare \ Clone!Excluded = spare \ Clone!Excluded
      BY <1>2, <1>6, <1>12, <2>3 DEF Clone!Excluded
    <3>4. \A k \in spare \ Clone!Excluded : again.kws[k] = call.kws[k]
      BY <1>2, <1>6, <1>12, <2>3 DEF Clone!Excluded
    <3>5. DOMAIN meta = DOMAIN w._meta
      BY <1>9, <2>3, <3>1, <3>3 DEF Clone!Excluded
    <3>6. \A k \in DOMAIN meta : meta[k] = w._meta[k]
      <4>1. ASSUME NEW k \in Named(sig)
            PROVE  meta[k] = w._meta[k]
        <5>1. k \notin respare
          BY <1>8 DEF Spare
        <5> QED  BY <1>9, <1>14, <3>1, <5>1
      <4>2. ASSUME NEW k \in respare \ Clone!Excluded
            PROVE  meta[k] = w._meta[k]
        BY <1>9, <2>3, <3>1, <3>3, <3>4, <4>2 DEF Clone!Excluded
      <4> QED  BY <3>1, <4>1, <4>2
    <3> HIDE DEF meta, w
    <3>7. [k \in DOMAIN meta |-> meta[k]] = [k \in DOMAIN w._meta |-> w._meta[k]]
      BY <3>5, <3>6
    <3>8. meta = [k \in DOMAIN meta |-> meta[k]]
      BY <3>1
    <3> QED  BY <3>2, <3>7, <3>8 DEF meta
  <2> QED  BY <2>2, <2>3
<1>21. "name" \in Clone!NamesOf(sig, Clone!Kinds)
  BY <1>2, <1>3
<1>22. Clone!New(cls, again)
         = [name |-> rebound["name"], fsm |-> Clone!MachineOf(cls, again),
            fields |-> Clone!Restrict(rebound, Clone!Kept(cls)),
            _meta |-> Clone!CollectInitMeta(sig, again)]
  BY <1>13, <1>18, <1>21 DEF Clone!New
<1>23. w = [name |-> w.name, fsm |-> w.fsm, fields |-> w.fields, _meta |-> w._meta]
  BY <1>1
<1>24. Clone!New(cls, again)
         = [name |-> w.name, fsm |-> w.fsm, fields |-> w.fields, _meta |-> w._meta]
  BY <1>14, <1>18, <1>19, <1>20, <1>22
<1> HIDE DEF w
<1> QED  BY <1>23, <1>24 DEF Clone!Clone, w

\* What a construction leaves in _meta whatever it was called with.
LEMMA NamedAreCollected ==
    ASSUME NEW cls, cls.sig \in Signatures, NEW call, ~Clone!Failed(Clone!New(cls, call))
    PROVE  Named(cls.sig) \subseteq DOMAIN Clone!New(cls, call)._meta
<1>1. Clone!New(cls, call)._meta = Clone!CollectInitMeta(cls.sig, call)
  BY DEF Clone!New, Clone!Failed, Clone!Fail
<1>2. CASE Clone!NamesOf(cls.sig, {"var_keyword"}) = {}
  BY <1>1, <1>2, MetaOfNames DEF Clone!Restrict
<1>3. CASE Clone!NamesOf(cls.sig, {"var_keyword"}) # {}
  <2>1. DOMAIN Clone!CollectInitMeta(cls.sig, call)
            = Named(cls.sig) \cup (Spare(cls.sig, call) \ Clone!Excluded)
    BY <1>3, MetaOfMore
  <2> QED  BY <1>1, <2>1
<1> QED  BY <1>2, <1>3

\* The clones of a template: all equal to it, or each an error or in something else.
CloneInv ==
    /\ part = "clone" =>
          /\ class \in [sig : Signatures, super : Clone!Supers] /\ Clone!IsClass(class)
          /\ clone_pc \in {"built", "clone_error"} =>
                /\ \E call : template = Clone!New(class, call)
                /\ ~Clone!Failed(template)
                /\ Clone!IsReplayable(class, template) =>
                        clone_pc = "built" /\ clone = template
          /\ clone_pc = "built" =>
                /\ Named(class.sig) \subseteq DOMAIN clone._meta
                /\ clones > 0 /\ Clone!Same(clone, template) =>
                        \/ Clone!IsReplayable(class, template)
                        \/ Clone!IsShadowed(class, template)
    /\ clone_pc \notin {"built", "clone_error"} \/ part # "clone" => clones = 0

LEMMA ConstructKeeps ==
    ASSUME CloneInv, NEW call, part = "clone", Clone!Construct(call), part' = part
    PROVE  CloneInv'
<1> DEFINE w == Clone!New(class, call)
<1>1. class' = class /\ clones' = clones /\ clone_pc = "new" /\ clones = 0
  BY DEF Clone!Construct, CloneInv
<1>2. CASE Clone!Failed(w)
  <2>1. clone_pc' = "type_error"
    BY <1>2 DEF Clone!Construct
  <2> QED  BY <1>1, <2>1 DEF CloneInv
<1>3. CASE ~Clone!Failed(w)
  <2>1. clone_pc' = "built" /\ clone' = w /\ template' = w
    BY <1>3 DEF Clone!Construct
  <2>2. class.sig \in Signatures
    BY DEF CloneInv
  <2>3. Named(class.sig) \subseteq DOMAIN w._meta
    BY <1>3, <2>2, NamedAreCollected
  <2> HIDE DEF w
  <2>4. \E c : template' = Clone!New(class, c)
    BY <2>1 DEF w
  <2> QED  BY <1>1, <1>3, <2>1, <2>3, <2>4 DEF CloneInv
<1> QED  BY <1>2, <1>3

LEMMA CloneAgainKeeps ==
    ASSUME CloneInv, part = "clone", Clone!CloneAgain, part' = part
    PROVE  CloneInv'
<1> DEFINE w == Clone!Clone(class, clone)
<1>1. class' = class /\ template' = template /\ clone_pc = "built"
  BY DEF Clone!CloneAgain
<1>2. /\ class.sig \in Signatures /\ class.super \in Clone!Supers /\ Clone!IsClass(class)
      /\ Named(class.sig) \subseteq DOMAIN clone._meta
      /\ ~Clone!Failed(template)
      /\ Clone!IsReplayable(class, template) => clone = template
  BY <1>1 DEF CloneInv
<1>3. PICK call : template = Clone!New(class, call)
  BY <1>1 DEF CloneInv
<1>4. Clone!IsReplayable(class, template) => w = template
  BY <1>2, <1>3, ReplayableIsFixed
<1>5. CASE Clone!Failed(w)
  <2>1. clone_pc' = "clone_error"
    BY <1>5 DEF Clone!CloneAgain
  <2>2. ~Clone!IsReplayable(class, template)
    BY <1>2, <1>4, <1>5
  <2> QED  BY <1>1, <1>2, <1>3, <2>1, <2>2 DEF CloneInv
<1>6. CASE ~Clone!Failed(w)
  <2>1. clone_pc' = "built" /\ clone' = w
    BY <1>1, <1>6 DEF Clone!CloneAgain
  <2>2. Named(class.sig) \subseteq DOMAIN w._meta
    BY <1>2, <1>6, NamedAreCollected DEF Clone!Clone
  <2>3. ASSUME Clone!Same(w, template), ~Clone!IsReplayable(class, template)
        PROVE  Clone!IsShadowed(class, template)
    BY <1>2, <1>6, <2>3, UnreplayableDiffers
  <2> HIDE DEF w
  <2> QED  BY <1>1, <1>2, <1>3, <1>4, <2>1, <2>2, <2>3 DEF CloneInv
<1> QED  BY <1>5, <1>6

\* For every set of signatures and calls: a clone is equivalent to its template, however
\* many clones lie between them, exactly if the arguments can be replayed, a shadowed
\* one excepted (worker.py:119-137, 201-209). A replayable worker is a fixed
\* point of clone(), so that nothing wears off; any other class gives each
\* clone an argument in a place where the template has none, or loses one.
THEOREM ClonesStayFaithful == SetUpSpec => []ClonesAreFaithful
<1>1. SetUpInit => CloneInv
  <2> SUFFICES ASSUME SetUpInit PROVE CloneInv
    OBVIOUS
  <2>1. CASE part = "clone"
    BY <2>1 DEF SetUpInit, Clone!Init, CloneInv
  <2>2. CASE part # "clone"
    BY <2>2 DEF SetUpInit, CloneInv
  <2> QED  BY <2>1, <2>2
<1>2. CloneInv /\ [SetUpNext]_all => CloneInv'
  <2> SUFFICES ASSUME CloneInv, [SetUpNext]_all PROVE CloneInv'
    OBVIOUS
  <2>1. part' = part
    BY DEF SetUpNext, InMachine, InClass, InClone, InBoot, InSettings, all
  <2>2. CASE UNCHANGED clone_vars
    <3>1. UNCHANGED <<class, clone, template, clones, clone_pc>>
      BY <2>2 DEF clone_vars
    <3> QED  BY <2>1, <3>1 DEF CloneInv
  <2>3. CASE InClone
    <3>1. part = "clone" /\ Clone!Next
      BY <2>3 DEF InClone
    <3>2. ASSUME NEW call \in Calls, Clone!Construct(call)
          PROVE  CloneInv'
      BY <2>1, <3>1, <3>2, ConstructKeeps
    <3>3. CASE Clone!CloneAgain
      BY <2>1, <3>1, <3>3, CloneAgainKeeps
    <3>4. CASE UNCHANGED Clone!vars
      BY <2>2, <3>4 DEF Clone!vars, clone_vars
    <3> QED  BY <3>1, <3>2, <3>3, <3>4 DEF Clone!Next
  <2> QED  BY <2>2, <2>3 DEF SetUpNext, InMachine, InClass, InBoot, InSettings, all
<1>3. CloneInv => ClonesAreFaithful
  <2> SUFFICES ASSUME CloneInv, clones > 0
               PROVE  /\ Clone!IsReplayable(class, template) => Clone!IsEquivalent
                      /\ Clone!IsEquivalent => \/ Clone!IsReplayable(class, template)
                                               \/ Clone!IsShadowed(class, template)
    BY DEF ClonesAreFaithful, Clone!ClonesAreFaithful
  <2>1. part = "clone" /\ clone_pc \in {"built", "clone_error"}
    BY DEF CloneInv
  <2>2. clone = template => Clone!Same(clone, template)
    BY DEF Clone!Same
  <2> QED  BY <2>1, <2>2 DEF CloneInv, Clone!IsEquivalent
<1> QED  BY <1>1, <1>2, <1>3, PTL DEF SetUpSpec

-----------------------------------------------------------------------------
(* Settings: the walk takes for each field what the three sources laid over each other *)
(* say of it. *)

IsTaken(i) ==
    /\ Setting!IsGood(Fields[i]) /\ Fields[i].name \in DOMAIN values
    /\ values[Fields[i].name] = Setting!Coerced(Setting!Sources[Fields[i].name], Fields[i].type)

IsWalking ==
    /\ next \in 1..Len(Fields) + 1
    /\ \A i \in 1..(next - 1) : IsTaken(i)

OutcomeIsTrue ==
    /\ outcome \in {"walking", "made"} => DOMAIN overrides \subseteq Setting!Known
    /\ outcome = "made" => next = Len(Fields) + 1
    /\ outcome \notin {"walking", "made"} /\ DOMAIN overrides \subseteq Setting!Known =>
            \E i \in DOMAIN Fields : ~Setting!IsGood(Fields[i])

WalkInv == IsWalking /\ OutcomeIsTrue

\* The first of override, environment and default is the top one of the three.
LEMMA SourcesAreTheFirst ==
    ASSUME NEW i \in DOMAIN Fields, DOMAIN overrides \subseteq Setting!Known
    PROVE  Setting!Sources[Fields[i].name] = Setting!Resolved(Fields[i])
<1> DEFINE n == Fields[i].name
           known == [m \in Setting!Known \cap DOMAIN env |-> env[m]]
           base == Setting!Merge(Setting!Defaults, known)
<1>1. n \in Setting!Known
  BY DEF Setting!Known
<1>2. Setting!Defaults[n] = Fields[i].default
  <2>1. (CHOOSE j \in DOMAIN Fields : Fields[j].name = n) = i
    BY FieldsAssumption
  <2>2. Setting!Defaults[n]
          = Fields[CHOOSE j \in DOMAIN Fields : Fields[j].name = n].default
    BY <1>1 DEF Setting!Defaults
  <2> QED BY <2>1, <2>2
<1>3. base[n] = IF n \in DOMAIN env THEN env[n] ELSE Fields[i].default
  <2>1. DOMAIN Setting!Defaults = Setting!Known
    BY DEF Setting!Defaults
  <2>2. base = [k \in DOMAIN Setting!Defaults \cup DOMAIN known |->
                  IF k \in DOMAIN known THEN known[k] ELSE Setting!Defaults[k]]
    BY DEF Setting!Merge
  <2>3. base[n] = IF n \in DOMAIN known THEN known[n] ELSE Setting!Defaults[n]
    <3> HIDE DEF base, known, n
    <3> QED BY <1>1, <2>1, <2>2
  <2>4. n \in DOMAIN known <=> n \in DOMAIN env
    BY <1>1
  <2>5. n \in DOMAIN env => known[n] = env[n]
    BY <1>1
  <2> HIDE DEF base, known, n
  <2> QED BY <1>2, <2>3, <2>4, <2>5
<1>4. n \in DOMAIN base
  BY <1>1 DEF Setting!Merge, Setting!Defaults
<1>5. Setting!Sources[n] = IF n \in DOMAIN overrides THEN overrides[n] ELSE base[n]
  <2>1. Setting!Sources = [k \in DOMAIN base \cup DOMAIN overrides |->
                             IF k \in DOMAIN overrides THEN overrides[k] ELSE base[k]]
    BY DEF Setting!Sources, Setting!Merge
  <2> HIDE DEF base, n
  <2> QED BY <1>4, <2>1
<1>6. Setting!Resolved(Fields[i]) = IF n \in DOMAIN overrides THEN overrides[n]
                                    ELSE IF n \in DOMAIN env THEN env[n] ELSE Fields[i].default
  BY DEF Setting!Resolved
<1> HIDE DEF base, n
<1>7. Setting!Sources[n] = Setting!Resolved(Fields[i])
  BY <1>3, <1>5, <1>6
<1> QED BY <1>7 DEF n

LEMMA SourcesStay ==
    ASSUME UNCHANGED <<overrides, env>>
    PROVE  /\ Setting!Known' = Setting!Known /\ Setting!Sources' = Setting!Sources
           /\ \A i \in DOMAIN Fields : Setting!IsGood(Fields[i])' <=> Setting!IsGood(Fields[i])
<1>1. Setting!Known' = Setting!Known /\ Setting!Sources' = Setting!Sources
  BY DEF Setting!Known, Setting!Sources, Setting!Merge, Setting!Defaults
<1> QED BY <1>1 DEF Setting!IsGood

LEMMA WalkStays ==
    ASSUME WalkInv, UNCHANGED <<overrides, env, next, values>>
    PROVE  IsWalking'
<1>1. /\ Setting!Sources' = Setting!Sources
      /\ \A i \in DOMAIN Fields : Setting!IsGood(Fields[i])' <=> Setting!IsGood(Fields[i])
  BY SourcesStay
<1>2. ASSUME NEW i \in 1..(next - 1)
      PROVE  IsTaken(i)'
  <2>1. IsTaken(i) /\ i \in DOMAIN Fields
    BY FieldsAssumption DEF WalkInv, IsWalking
  <2> QED BY <1>1, <2>1 DEF IsTaken
<1> QED BY <1>2 DEF WalkInv, IsWalking

LEMMA SetFieldKeeps ==
    ASSUME WalkInv, Setting!SetField
    PROVE  WalkInv'
<1> DEFINE field == Fields[next]
           value == Setting!Coerced(Setting!Resolved(field), field.type)
<1>1. outcome = "walking" /\ next \in DOMAIN Fields /\ UNCHANGED <<overrides, env>>
  BY DEF Setting!SetField
<1>2. DOMAIN overrides \subseteq Setting!Known
  BY <1>1 DEF WalkInv, OutcomeIsTrue
<1>3. next \in 1..Len(Fields) /\ Len(Fields) \in Nat
  BY <1>1, FieldsAssumption
<1>4. Setting!Sources[field.name] = Setting!Resolved(field)
  BY <1>1, <1>2, SourcesAreTheFirst
<1>5. Setting!IsGood(field)
        <=> /\ Setting!Resolved(field).kind # "missing"
            /\ value \notin {Setting!NotConvertible, Setting!Overflow}
  BY <1>4 DEF Setting!IsGood
<1>6. Setting!Known' = Setting!Known /\ Setting!Sources' = Setting!Sources
      /\ \A i \in DOMAIN Fields : Setting!IsGood(Fields[i])' <=> Setting!IsGood(Fields[i])
  BY <1>1, SourcesStay
<1>7. CASE ~Setting!IsGood(field)
  <2>1. outcome' \in {"TypeError", "ValueError", "OverflowError"} /\ UNCHANGED <<next, values>>
    BY <1>5, <1>7 DEF Setting!SetField, Setting!Raises, Setting!NotConvertible, Setting!Overflow
  <2>2. IsWalking'
    BY <1>1, <2>1, WalkStays
  <2>3. OutcomeIsTrue'
    BY <1>1, <1>6, <1>7, <2>1 DEF OutcomeIsTrue
  <2> QED BY <2>2, <2>3 DEF WalkInv
<1>8. CASE Setting!IsGood(field)
  <2>1. /\ values' = [n \in DOMAIN values \cup {field.name} |->
                        IF n = field.name THEN value ELSE values[n]]
        /\ next' = next + 1 /\ UNCHANGED outcome
    BY <1>5, <1>8 DEF Setting!SetField
  <2>2. values'[field.name] = value /\ field.name \in DOMAIN values'
    BY <2>1
  <2>3. ASSUME NEW i \in 1..(next' - 1)
        PROVE  IsTaken(i)'
    <3>1. CASE i = next
      BY <1>1, <1>4, <1>6, <1>8, <2>2, <3>1 DEF IsTaken
    <3>2. CASE i # next
      <4>1. i \in 1..(next - 1) /\ i \in DOMAIN Fields
        BY <1>3, <2>1, <3>2, FieldsAssumption
      <4>2. IsTaken(i) /\ Fields[i].name # field.name
        BY <1>1, <3>2, <4>1, FieldsAssumption DEF WalkInv, IsWalking
      <4>3. values'[Fields[i].name] = values[Fields[i].name] /\ Fields[i].name \in DOMAIN values'
        BY <2>1, <4>2 DEF IsTaken
      <4> QED BY <1>6, <4>1, <4>2, <4>3 DEF IsTaken
    <3> QED BY <3>1, <3>2
  <2>4. next' \in 1..Len(Fields) + 1
    BY <1>3, <2>1
  <2>5. OutcomeIsTrue'
    BY <1>1, <1>2, <1>6, <2>1 DEF OutcomeIsTrue
  <2> QED BY <2>3, <2>4, <2>5 DEF WalkInv, IsWalking
<1> QED BY <1>7, <1>8

LEMMA SettingsAreInductive ==
    ASSUME WalkInv, [SetUpNext]_all
    PROVE  WalkInv'
<1>1. CASE Setting!SetField
  BY <1>1, SetFieldKeeps
<1>2. CASE Setting!Finish
  <2>1. /\ outcome = "walking" /\ next \notin DOMAIN Fields /\ outcome' = "made"
        /\ UNCHANGED <<overrides, env, next, values>>
    BY <1>2 DEF Setting!Finish
  <2>2. next = Len(Fields) + 1
    BY <2>1, FieldsAssumption DEF WalkInv, IsWalking
  <2>3. Setting!Known' = Setting!Known
    BY <2>1, SourcesStay
  <2>4. OutcomeIsTrue'
    BY <2>1, <2>2, <2>3 DEF WalkInv, OutcomeIsTrue
  <2> QED BY <2>1, <2>4, WalkStays DEF WalkInv
<1>3. CASE UNCHANGED setting_vars
  <2>1. UNCHANGED <<overrides, env, next, values, outcome>>
    BY <1>3 DEF setting_vars
  <2>2. /\ Setting!Known' = Setting!Known
        /\ \A i \in DOMAIN Fields : Setting!IsGood(Fields[i])' <=> Setting!IsGood(Fields[i])
    BY <2>1, SourcesStay
  <2>3. OutcomeIsTrue'
    BY <2>1, <2>2 DEF WalkInv, OutcomeIsTrue
  <2> QED BY <2>1, <2>3, WalkStays DEF WalkInv
<1> QED BY <1>1, <1>2, <1>3
        DEF SetUpNext, InMachine, InClass, InClone, InBoot, InSettings, all, Setting!Next

\* For every class of settings, all its fields or none: the object is made exactly if
\* no override is unknown and the first source of each field, and that source
\* alone, converts to the type of the field (settings.py:51-92). The walk looks the
\* sources up one by one and stops at the first field in trouble; what the theorem
\* says of all fields at once rests on no two of them having one name.
THEOREM SettingsStayResolved == SetUpSpec => []SettingsAreResolved
<1>1. SetUpInit => WalkInv
  <2> SUFFICES ASSUME SetUpInit PROVE WalkInv
    OBVIOUS
  <2>1. next = 1 /\ outcome \in {"walking", "TypeError"}
        /\ (outcome = "walking" <=> DOMAIN overrides \subseteq Setting!Known)
    <3>1. CASE part = "settings"
      BY <3>1 DEF SetUpInit, Setting!Init
    <3>2. CASE part # "settings"
      <4>1. next = 1 /\ outcome = "walking" /\ overrides = <<>>
        BY <3>2 DEF SetUpInit
      <4>2. DOMAIN overrides = {}
        BY <4>1
      <4> QED BY <4>1, <4>2
    <3> QED BY <3>1, <3>2
  <2>2. 1 \in 1..Len(Fields) + 1 /\ 1..(1 - 1) = {}
    BY FieldsAssumption
  <2> QED BY <2>1, <2>2 DEF WalkInv, IsWalking, OutcomeIsTrue
<1>2. WalkInv /\ [SetUpNext]_all => WalkInv'
  BY SettingsAreInductive
<1>3. WalkInv => SettingsAreResolved
  <2> SUFFICES ASSUME WalkInv PROVE SettingsAreResolved
    OBVIOUS
  <2>1. outcome = "made" => \A i \in DOMAIN Fields : IsTaken(i)
    BY FieldsAssumption DEF WalkInv, IsWalking, OutcomeIsTrue
  <2> QED BY <2>1 DEF WalkInv, OutcomeIsTrue, IsTaken, SettingsAreResolved,
                      Setting!SettingsAreResolved
<1> QED BY <1>1, <1>2, <1>3, PTL DEF SetUpSpec
=============================================================================
