---------------------------- MODULE RuntimeProofs ----------------------------
(***************************************************************************)
(* What the code of a worker sees, where the failures of callbacks go, and *)
(* which threads a kill can hit, proved for every machine, set of hooks,   *)
(* ring buffer, backlog, number of units and of restarts.                  *)
(*                                                                         *)
(* Each of the three has an inductive invariant of its own. Of the worker: *)
(* where it is in its loop says what its last activity is, the hooks that  *)
(* ran and those pending make up the registration of the edge, and history *)
(* is the path announced or lags behind it by the end being put. Of the    *)
(* queue: a task is pending until it was collected or dropped. Of the      *)
(* kills: idents of live threads differ and a thread keeps its ident, so   *)
(* that the threads that ran beside the target when a kill began have      *)
(* other idents than the one it goes by for as long as they live.          *)
(***************************************************************************)
EXTENDS Runtime, FiniteSetTheorems, WellFoundedInduction, TLAPS

-----------------------------------------------------------------------------
(* WorkerLoop. *)

(* Sequences. *)

LEMMA LastOfShort ==
  ASSUME NEW s, NEW n, ~(Len(s) > n)
  PROVE  LastOf(n, s) = s
BY DEF LastOf

LEMMA LastOfLong ==
  ASSUME NEW S, NEW s \in Seq(S), NEW n \in Nat, Len(s) > n
  PROVE  /\ LastOf(n, s) \in Seq(S) /\ Len(LastOf(n, s)) = n
         /\ \A i \in 1..n : LastOf(n, s)[i] = s[Len(s) - n + i]
<1>1. LastOf(n, s) = SubSeq(s, Len(s) - n + 1, Len(s))
  BY DEF LastOf
<1> DEFINE k == Len(s) - n + 1
<1>2. k \in 1..Len(s) + 1 /\ Len(s) - k + 1 = n
  OBVIOUS
<1>3. SubSeq(s, k, Len(s)) \in Seq(S) /\ Len(SubSeq(s, k, Len(s))) = n
  BY <1>2
<1>4. \A i \in 1..n : SubSeq(s, k, Len(s))[i] = s[k + i - 1] /\ k + i - 1 = Len(s) - n + i
  BY <1>2
<1> QED
  BY <1>1, <1>3, <1>4

LEMMA LastFacts ==
  ASSUME NEW S, NEW s \in Seq(S), NEW n \in Nat \ {0}, NEW x \in S
  PROVE  /\ LastOf(n, Append(s, x)) \in Seq(S)
         /\ LastOf(n, Append(s, x)) # <<>>
         /\ Len(LastOf(n, Append(s, x))) <= n
         /\ Last(LastOf(n, Append(s, x))) = x
<1> DEFINE a == Append(s, x)
           r == LastOf(n, a)
<1>1. a \in Seq(S) /\ Len(a) = Len(s) + 1 /\ a[Len(a)] = x
  OBVIOUS
<1> HIDE DEF a
<1>2. r \in Seq(S) /\ Len(r) > 0 /\ Len(r) <= n /\ r[Len(r)] = x
  <2>1. CASE ~(Len(a) > n)
    <3>1. r = a
      BY <2>1, LastOfShort
    <3> QED
      BY <1>1, <2>1, <3>1
  <2>2. CASE Len(a) > n
    <3>1. r \in Seq(S) /\ Len(r) = n /\ \A i \in 1..n : r[i] = a[Len(a) - n + i]
      BY <1>1, <2>2, LastOfLong
    <3>2. n \in 1..n /\ Len(a) - n + n = Len(a)
      BY <1>1
    <3> HIDE DEF r
    <3> QED
      BY <1>1, <2>2, <3>1, <3>2
  <2> QED
    BY <2>1, <2>2
<1> HIDE DEF r
<1>3. r # <<>> /\ Last(r) = x
  BY <1>2 DEF Last
<1> QED
  BY <1>2, <1>3 DEF r, a

\* The ring buffer of the last n + 1 has, but for its newest, the last n.
LEMMA FrontOfLonger ==
  ASSUME NEW S, NEW s \in Seq(S), NEW n \in Nat, NEW x \in S, Len(s) <= n + 1
  PROVE  LastOf(n, Front(LastOf(n + 1, Append(s, x)))) = LastOf(n, s)
<1> DEFINE a == Append(s, x)
           r == LastOf(n + 1, a)
           f == Front(r)
<1>1. /\ a \in Seq(S) /\ Len(a) = Len(s) + 1 /\ a[Len(a)] = x
      /\ \A i \in 1..Len(s) : a[i] = s[i]
  OBVIOUS
<1> HIDE DEF a
<1>2. CASE Len(s) <= n
  <2>1. r = a
    <3>1. ~(Len(a) > n + 1)
      BY <1>1, <1>2
    <3> QED
      BY <3>1, LastOfShort
  <2> DEFINE b == SubSeq(a, 1, Len(a) - 1)
  <2>2. Front(a) = b
    BY DEF Front
  <2>3. Len(a) - 1 \in 0..Len(a) /\ Len(a) - 1 = Len(s)
    BY <1>1
  <2>4. b \in Seq(S) /\ Len(b) = Len(s) /\ \A i \in 1..Len(s) : b[i] = a[i]
    BY <1>1, <2>3
  <2> HIDE DEF b
  <2>5. b = s
    BY <1>1, <2>4
  <2>6. LastOf(n, Front(r)) = LastOf(n, s)
    BY <2>1, <2>2, <2>5
  <2> QED
    BY <2>6 DEF a
<1>3. CASE Len(s) = n + 1
  <2>1. r \in Seq(S) /\ Len(r) = n + 1 /\ \A i \in 1..(n + 1) : r[i] = a[1 + i]
    <3> DEFINE k == n + 1
    <3>1. k \in Nat /\ Len(a) > k /\ Len(a) - k = 1
      BY <1>1, <1>3
    <3> HIDE DEF k
    <3>2. LastOf(k, a) \in Seq(S) /\ Len(LastOf(k, a)) = k
          /\ \A i \in 1..k : LastOf(k, a)[i] = a[Len(a) - k + i]
      BY <1>1, <3>1, LastOfLong
    <3> QED
      BY <3>1, <3>2 DEF k
  <2> HIDE DEF r
  <2>2. f \in Seq(S) /\ Len(f) = n /\ \A i \in 1..n : f[i] = r[i]
    BY <2>1 DEF Front
  <2> HIDE DEF f
  <2>3. \A i \in 1..n : f[i] = s[1 + i]
    <3> SUFFICES ASSUME NEW i \in 1..n
                 PROVE  f[i] = s[1 + i]
      OBVIOUS
    <3>1. i \in 1..(n + 1) /\ 1 + i \in 1..Len(s)
      BY <1>3
    <3> QED
      BY <1>1, <2>1, <2>2, <3>1
  <2>4. LastOf(n, f) = f
    BY <2>2, LastOfShort
  <2> DEFINE l == LastOf(n, s)
  <2>5. l \in Seq(S) /\ Len(l) = n /\ \A i \in 1..n : l[i] = s[Len(s) - n + i]
    <3>1. Len(s) > n
      BY <1>3
    <3> QED
      BY <3>1, LastOfLong
  <2>6. Len(s) - n = 1
    BY <1>3
  <2> HIDE DEF l
  <2>7. \A i \in 1..n : l[i] = f[i]
    BY <2>3, <2>5, <2>6
  <2>8. f = l
    BY <2>2, <2>5, <2>7
  <2>9. LastOf(n, f) = l
    BY <2>4, <2>8
  <2> QED
    BY <2>9 DEF f, l, r, a
<1> QED
  BY <1>2, <1>3

\* Once the newest is known, the last n are.
LEMMA LastOfAppended ==
  ASSUME NEW S, NEW s \in Seq(S), s # <<>>, NEW n \in Nat \ {0}
  PROVE  /\ Front(s) \in Seq(S) /\ Last(s) \in S
         /\ LastOf(n, Append(LastOf(n, Front(s)), Last(s))) = LastOf(n, s)
<1> DEFINE f == Front(s)
           x == Last(s)
           m == Len(s) - 1
<1>1. Len(s) \in Nat /\ Len(s) > 0 /\ m \in Nat
  OBVIOUS
<1>2. f \in Seq(S) /\ Len(f) = m /\ \A i \in 1..m : f[i] = s[i]
  <2>1. f = SubSeq(s, 1, m)
    BY DEF Front
  <2>2. m \in 0..Len(s)
    BY <1>1
  <2> HIDE DEF m
  <2>3. /\ SubSeq(s, 1, m) \in Seq(S) /\ Len(SubSeq(s, 1, m)) = m
        /\ \A i \in 1..m : SubSeq(s, 1, m)[i] = s[i]
    BY <2>2
  <2> QED
    BY <2>1, <2>3
<1>3. x \in S /\ x = s[m + 1]
  BY <1>1 DEF Last
<1> HIDE DEF f, x
<1>4. Append(f, x) = s
  <2> DEFINE a == Append(f, x)
  <2>1. a \in Seq(S) /\ Len(a) = m + 1 /\ a[m + 1] = x /\ \A i \in 1..m : a[i] = f[i]
    BY <1>2, <1>3
  <2> HIDE DEF a
  <2>2. \A i \in 1..(m + 1) : a[i] = s[i]
    BY <1>1, <1>2, <1>3, <2>1
  <2>3. a = s
    BY <1>1, <2>1, <2>2
  <2> QED
    BY <2>3 DEF a
<1>5. CASE ~(m > n)
  <2>1. LastOf(n, f) = f
    BY <1>2, <1>5, LastOfShort
  <2> QED
    BY <1>2, <1>3, <1>4, <2>1 DEF f, x
<1>6. CASE m > n
  <2> DEFINE l == LastOf(n, f)
             a == Append(l, x)
             r == LastOf(n, a)
             t == LastOf(n, s)
  <2>1. l \in Seq(S) /\ Len(l) = n /\ \A i \in 1..n : l[i] = f[Len(f) - n + i]
    <3>1. f \in Seq(S) /\ Len(f) > n
      BY <1>2, <1>6
    <3>2. l \in Seq(S) /\ Len(l) = n /\ \A i \in 1..n : l[i] = f[Len(f) - n + i]
      BY <3>1, LastOfLong
    <3> QED
      BY <3>2
  <2> HIDE DEF l
  <2>2. \A i \in 1..n : l[i] = s[m - n + i]
    <3> SUFFICES ASSUME NEW i \in 1..n
                 PROVE  l[i] = s[m - n + i]
      OBVIOUS
    <3>1. m - n + i \in 1..m
      BY <1>1, <1>6
    <3> QED
      BY <1>2, <2>1, <3>1
  <2>3. a \in Seq(S) /\ Len(a) = n + 1 /\ a[n + 1] = x /\ \A i \in 1..n : a[i] = l[i]
    BY <1>3, <2>1
  <2> HIDE DEF a
  <2>4. r \in Seq(S) /\ Len(r) = n /\ \A i \in 1..n : r[i] = a[1 + i]
    <3>1. Len(a) > n /\ Len(a) - n = 1
      BY <2>3
    <3>2. r \in Seq(S) /\ Len(r) = n /\ \A i \in 1..n : r[i] = a[Len(a) - n + i]
      BY <2>3, <3>1, LastOfLong
    <3> HIDE DEF r
    <3> QED
      BY <3>1, <3>2
  <2>5. t \in Seq(S) /\ Len(t) = n /\ \A i \in 1..n : t[i] = s[m + 1 - n + i]
    <3>1. Len(s) > n /\ Len(s) - n = m + 1 - n
      BY <1>1, <1>6
    <3>2. t \in Seq(S) /\ Len(t) = n /\ \A i \in 1..n : t[i] = s[Len(s) - n + i]
      BY <3>1, LastOfLong
    <3> HIDE DEF t
    <3> QED
      BY <3>1, <3>2
  <2> HIDE DEF r, t
  <2>6. ASSUME NEW i \in 1..n
        PROVE  r[i] = t[i]
    <3>1. CASE i = n
      <4>1. r[i] = x
        BY <2>3, <2>4, <3>1
      <4>2. m + 1 - n + i = m + 1
        BY <1>1, <3>1
      <4> QED
        BY <1>3, <2>5, <4>1, <4>2
    <3>2. CASE i # n
      <4>1. i + 1 \in 1..n
        BY <3>2
      <4>2. r[i] = l[i + 1] /\ l[i + 1] = s[m - n + (i + 1)]
        BY <2>2, <2>3, <2>4, <4>1
      <4>3. m - n + (i + 1) = m + 1 - n + i
        BY <1>1
      <4> QED
        BY <2>5, <4>2, <4>3
    <3> QED
      BY <3>1, <3>2
  <2>7. r = t
    <3>1. r \in Seq(S) /\ t \in Seq(S) /\ Len(r) = n /\ Len(t) = n
      BY <2>4, <2>5
    <3> QED
      BY <2>6, <3>1
  <2> QED
    BY <1>2, <1>3, <2>7 DEF r, t, a, l, f, x
<1> QED
  BY <1>1, <1>5, <1>6

-----------------------------------------------------------------------------
(* The machine, and the types. *)

LEMMA MachineFacts ==
  /\ InitialState(Machine) \in States(Machine)
  /\ InitialState(Machine) \notin TerminalStates(Machine)
  /\ Machine.initial_event \in Events(Machine, InitialState(Machine))
  /\ \A s \in States(Machine) : \A e \in Events(Machine, s) :
        e \in AllEvents /\ TargetState(Machine, s, e) \in States(Machine)
<1>1. IsStateMachine(Machine)
  BY LoopAssumption
<1>2. \E s \in DOMAIN Machine.next : ~HasIncomingEdge(Machine, s)
  BY <1>1 DEF IsStateMachine, States
<1>3. InitialState(Machine) \in DOMAIN Machine.next
  BY <1>2 DEF InitialState
<1>4. \A s \in States(Machine) : \A e \in Events(Machine, s) :
        e \in AllEvents /\ TargetState(Machine, s, e) \in States(Machine)
  BY <1>1 DEF IsStateMachine, AllEvents, Events, States
<1> QED
  BY <1>1, <1>3, <1>4 DEF IsStateMachine, States, TerminalStates

Steps == AllEvents \X States(Machine)

Transitions == States(Machine) \X AllEvents \X States(Machine)

LoopTypes ==
    /\ interruptible \in BOOLEAN /\ cooperative \in BOOLEAN /\ term_event \in BOOLEAN
    /\ pc \in {"unstarted", "put", "resume", "actor", "hooks", "exit", "over"}
    /\ how \in {"running", "returned", "raised", "killed"}
    /\ exception \in {"none", "raised"}
    /\ state \in States(Machine)
    /\ activity \in [kind : {"none", "heartbeat", "transition_begin", "transition_end"},
                     transition : Transitions \cup {<<>>}]
    /\ activity.kind \in {"transition_begin", "transition_end"}
            => activity.transition \in Transitions
    /\ history \in Seq(Steps)
    /\ ended \in Seq(Steps) /\ Len(ended) <= MaxHistory + 1
    /\ pending \in Seq(HookNames) /\ ran \in Seq(HookNames \X States(Machine))

\* Where the loop is, and what it is about.
LoopControl ==
    /\ how = "running" => pc # "over"
    /\ how = "returned" => pc = "over"
    /\ how \in {"raised", "killed"} => pc \in {"exit", "over"}
    /\ pc = "hooks" => activity.kind = "transition_begin"
    /\ pc \in {"put", "resume"} => activity.kind # "none"
    /\ (pc = "exit" /\ how = "running") \/ how = "returned" => state \in TerminalStates(Machine)

LEMMA RegisteredIsSequence ==
  ASSUME NEW key
  PROVE  Registered(Post, key) \in Seq(HookNames) /\ Registered(Pre, key) \in Seq(HookNames)
<1>1. <<>> \in Seq(HookNames)
  OBVIOUS
<1> QED
  BY <1>1, LoopAssumption DEF Registered

\* An event that is emitted leaves the state, unless it is keepalive.
LEMMA EmittedFacts ==
  ASSUME LoopTypes, NEW e, e \in Emits \ {"keepalive"}
  PROVE  <<state, e, TargetState(Machine, state, e)>> \in Transitions
<1>1. e \in Events(Machine, state)
  BY MachineFacts DEF Emits
<1> QED
  BY <1>1, MachineFacts DEF LoopTypes, Transitions

LEMMA InitLoop == Init => LoopTypes /\ LoopControl
<1> SUFFICES ASSUME Init
             PROVE  LoopTypes /\ LoopControl
  OBVIOUS
<1>1. activity \in [kind : {"none", "heartbeat", "transition_begin", "transition_end"},
                    transition : Transitions \cup {<<>>}]
      /\ activity.kind = "none"
  BY DEF Init
<1>2. history \in Seq(Steps) /\ ended \in Seq(Steps) /\ Len(ended) <= MaxHistory + 1
      /\ pending \in Seq(HookNames) /\ ran \in Seq(HookNames \X States(Machine))
  BY LoopAssumption DEF Init
<1> QED
  BY <1>1, <1>2, MachineFacts DEF Init, LoopTypes, LoopControl

\* What the steps of main_loop do to the types.
LEMMA LoopStepTypes ==
  ASSUME LoopTypes, LoopControl, Loop
  PROVE  LoopTypes'
<1> USE DEF LoopTypes
<1>1. CASE Start
  BY <1>1 DEF Start, Yield, Heartbeat, given, ctx, hooks
<1>2. CASE Put
  <2>1. ended' \in Seq(Steps) /\ Len(ended') <= MaxHistory + 1
    <3>1. CASE activity.kind = "transition_end"
      <4> DEFINE x == <<activity.transition[2], activity.transition[3]>>
                 n == MaxHistory + 1
      <4>1. x \in Steps
        BY <3>1 DEF Transitions, Steps
      <4>2. n \in Nat \ {0}
        BY LoopAssumption
      <4>3. ended' = LastOf(n, Append(ended, x))
        BY <1>2, <3>1 DEF Put
      <4> HIDE DEF x, n
      <4>4. ended' \in Seq(Steps) /\ Len(ended') <= n
        BY <4>1, <4>2, <4>3, LastFacts
      <4> QED
        BY <4>4 DEF n
    <3>2. CASE activity.kind # "transition_end"
      BY <1>2, <3>2 DEF Put
    <3> QED
      BY <3>1, <3>2
  <2> QED
    BY <1>2, <2>1 DEF Put, given, ctx, hooks
<1>3. CASE Resume
  <2>1. history' \in Seq(Steps)
    <3>1. CASE activity.kind = "transition_end"
      <4> DEFINE x == <<activity.transition[2], activity.transition[3]>>
      <4>1. x \in Steps
        BY <3>1 DEF Transitions, Steps
      <4>2. history' = LastOf(MaxHistory, Append(history, x))
        BY <1>3, <3>1 DEF Resume, AddTransition
      <4> HIDE DEF x
      <4> QED
        BY <4>1, <4>2, LoopAssumption, LastFacts
    <3>2. CASE activity.kind # "transition_end"
      BY <1>3, <3>2 DEF Resume, LoopControl
    <3> QED
      BY <3>1, <3>2
  <2>2. pc' \in {"hooks", "exit", "actor"}
    BY <1>3 DEF Resume, LoopHead, LoopControl
  <2> QED
    BY <1>3, <2>1, <2>2 DEF Resume, given, hooks
<1>4. CASE Keepalive
  BY <1>4 DEF Keepalive, Yield, Heartbeat, given, ctx, hooks
<1>5. CASE \E e \in AllEvents : BeginTransition(e)
  <2>1. PICK e \in AllEvents : BeginTransition(e)
    BY <1>5
  <2> DEFINE tgt == TargetState(Machine, state, e)
  <2>2. <<state, e, tgt>> \in Transitions
    BY <2>1, EmittedFacts DEF BeginTransition
  <2>3. /\ activity' = [kind |-> "transition_begin", transition |-> <<state, e, tgt>>]
        /\ pc' = "put"
        /\ pending' = Registered(Post, <<state, e>>) \o Registered(Pre, <<tgt, e>>)
        /\ ran' = <<>>
        /\ UNCHANGED <<given, term_event, state, ctx, ended, exits, how>>
    BY <2>1 DEF BeginTransition, Yield, Transition, HooksOf
  <2>4. pending' \in Seq(HookNames)
    BY <2>3, RegisteredIsSequence
  <2>5. ran' \in Seq(HookNames \X States(Machine))
    BY <2>3
  <2> HIDE DEF tgt
  <2> QED
    BY <2>2, <2>3, <2>4, <2>5 DEF given, ctx
<1>6. CASE RunHook
  <2>1. Head(pending) \in HookNames /\ pending' \in Seq(HookNames)
    BY <1>6 DEF RunHook
  <2>2. ran' \in Seq(HookNames \X States(Machine))
    <3>1. <<Head(pending), state>> \in HookNames \X States(Machine)
      BY <2>1
    <3> QED
      BY <1>6, <3>1 DEF RunHook
  <2> QED
    BY <1>6, <2>1, <2>2 DEF RunHook, given, ctx
<1>7. CASE EndTransition
  <2>1. activity.kind = "transition_begin" /\ activity.transition \in Transitions
    BY <1>7 DEF EndTransition, LoopControl
  <2>2. state' \in States(Machine)
    BY <1>7, <2>1 DEF EndTransition, Transitions
  <2>3. activity' = [activity EXCEPT !.kind = "transition_end"] /\ pc' = "put"
    BY <1>7 DEF EndTransition, Yield
  <2> QED
    BY <1>7, <2>1, <2>2, <2>3 DEF EndTransition, given, ctx, hooks
<1>8. CASE BeforeExit
  BY <1>8 DEF BeforeExit, given, ctx, hooks
<1> QED
  BY <1>1, <1>2, <1>3, <1>4, <1>5, <1>6, <1>7, <1>8 DEF Loop

LEMMA NextTypes ==
  ASSUME LoopTypes, LoopControl, [Next]_vars
  PROVE  LoopTypes'
<1> USE DEF LoopTypes
<1>1. CASE Raise \/ Stop \/ Interrupt \/ Vanish
  BY <1>1, ZenonT(40) DEF Raise, Stop, Interrupt, Vanish, given, ctx, hooks
<1>2. CASE UNCHANGED vars
  BY <1>2 DEF vars
<1> QED
  BY <1>1, <1>2, LoopStepTypes DEF Next, Over

LEMMA NextControl ==
  ASSUME LoopTypes, LoopControl, [Next]_vars
  PROVE  LoopControl'
<1> USE DEF LoopTypes, LoopControl
<1>1. CASE Start \/ Keepalive
  BY <1>1 DEF Start, Keepalive, Yield, Heartbeat
<1>2. CASE Put \/ RunHook
  BY <1>2 DEF Put, RunHook
<1>3. CASE Resume
  BY <1>3 DEF Resume, LoopHead
<1>4. CASE \E e \in AllEvents : BeginTransition(e)
  BY <1>4 DEF BeginTransition, Yield, Transition
<1>5. CASE EndTransition
  BY <1>5 DEF EndTransition, Yield
<1>6. CASE BeforeExit \/ Raise \/ Stop \/ Interrupt \/ Vanish
  BY <1>6 DEF BeforeExit, Raise, Stop, Interrupt, Vanish, InTry
<1>7. CASE UNCHANGED vars
  BY <1>7 DEF vars
<1> QED
  BY <1>1, <1>2, <1>3, <1>4, <1>5, <1>6, <1>7 DEF Next, Loop, Over

-----------------------------------------------------------------------------
(* before_exit. *)

\* It has been called at the end, if at all, and told how the loop had ended.
ExitTold ==
    /\ \/ exits = <<>>
       \/ pc = "over" /\ exits = <<[graceful |-> how = "returned", exception |-> exception]>>
    /\ exception = "raised" =>
            how = "raised" \/ (how = "killed" /\ pc = "over" /\ exits = <<>>)
    /\ how = "raised" => exception = "raised"
    /\ pc = "over" /\ exits = <<>> =>
            /\ how = "killed"
            /\ interruptible => \/ state \in TerminalStates(Machine) \cup {InitialState(Machine)}
                               \/ exception = "raised"

LEMMA NextExitTold ==
  ASSUME LoopTypes, LoopControl, ExitTold, [Next]_vars
  PROVE  ExitTold'
<1> USE DEF LoopTypes, LoopControl, ExitTold
<1>1. CASE Start \/ Keepalive \/ Put \/ RunHook \/ Resume \/ EndTransition
           \/ \E e \in AllEvents : BeginTransition(e)
  <2>1. pc # "over" /\ pc' # "over" /\ exits' = exits /\ how' = how /\ exception' = exception
    BY <1>1 DEF Start, Keepalive, Put, RunHook, Resume, LoopHead, EndTransition,
                BeginTransition, Yield, ctx
  <2> QED
    BY <2>1
<1>2. CASE BeforeExit
  <2>1. exits = <<>>
    BY <1>2 DEF BeforeExit
  <2>2. exits' = <<[graceful |-> how = "running", exception |-> exception]>>
    BY <1>2, <2>1 DEF BeforeExit
  <2>3. /\ pc = "exit" /\ pc' = "over" /\ exception' = exception /\ exits' # <<>>
        /\ how' = IF how = "running" THEN "returned" ELSE how
    BY <1>2, <2>2 DEF BeforeExit, ctx
  <2>4. (how = "running") <=> (how' = "returned")
    BY <2>3
  <2>5. exits' = <<[graceful |-> how' = "returned", exception |-> exception']>>
    BY <2>2, <2>3, <2>4, Zenon
  <2>6. how \in {"running", "raised", "killed"}
    BY <2>3
  <2> QED
    BY <2>3, <2>5, <2>6
<1>3. CASE Raise
  BY <1>3 DEF Raise, InUserCode
<1>4. CASE Stop
  BY <1>4 DEF Stop, given, ctx
<1>5. CASE Interrupt
  <2>1. /\ interruptible /\ pc \notin {"unstarted", "over"} /\ how # "killed"
        /\ pc' = (IF InTry THEN "exit" ELSE "over") /\ how' = "killed"
        /\ exits' = exits /\ exception' = exception /\ state' = state
        /\ interruptible' = interruptible
    BY <1>5 DEF Interrupt, given, ctx
  <2>2. exits = <<>>
    BY <2>1
  <2>3. CASE InTry
    BY <2>1, <2>2, <2>3 DEF InTry
  <2>4. CASE ~InTry
    BY <2>1, <2>2, <2>4 DEF InTry, AtFirstYield
  <2> QED
    BY <2>3, <2>4
<1>6. CASE Vanish
  BY <1>6 DEF Vanish, given, ctx
<1>7. CASE UNCHANGED vars
  BY <1>7 DEF vars
<1> QED
  BY <1>1, <1>2, <1>3, <1>4, <1>5, <1>6, <1>7 DEF Next, Loop, Over

-----------------------------------------------------------------------------
(* The hooks of a transition. *)

LEMMA SawFacts ==
  ASSUME NEW src \in States(Machine), NEW names \in Seq(HookNames)
  PROVE  /\ Saw(src, names) \in Seq(HookNames \X States(Machine))
         /\ Len(Saw(src, names)) = Len(names)
         /\ \A i \in 1..Len(names) : Saw(src, names)[i] = <<names[i], src>>
  BY DEF Saw

\* Running the next hook moves it from what is pending to what was seen.
LEMMA HookMoves ==
  ASSUME NEW S, NEW r \in Seq(S), NEW p \in Seq(S), p # <<>>
  PROVE  Append(r, Head(p)) \o Tail(p) = r \o p
  OBVIOUS

LEMMA SawTail ==
  ASSUME NEW src \in States(Machine), NEW names \in Seq(HookNames), names # <<>>
  PROVE  /\ Saw(src, names) # <<>>
         /\ Head(Saw(src, names)) = <<Head(names), src>>
         /\ Tail(Saw(src, names)) = Saw(src, Tail(names))
<1> DEFINE t == Tail(Saw(src, names))
           u == Saw(src, Tail(names))
<1>1. Len(names) \in Nat /\ Len(names) > 0
  OBVIOUS
<1>2. Saw(src, names) # <<>> /\ Head(Saw(src, names)) = <<Head(names), src>>
  BY <1>1, SawFacts
<1>3. Tail(names) \in Seq(HookNames) /\ Len(Tail(names)) = Len(names) - 1
      /\ \A i \in 1..(Len(names) - 1) : Tail(names)[i] = names[i + 1]
  BY <1>1
<1>4. /\ u \in Seq(HookNames \X States(Machine)) /\ Len(u) = Len(names) - 1
      /\ \A i \in 1..(Len(names) - 1) : u[i] = <<names[i + 1], src>>
  <2> DEFINE n == Tail(names)
  <2> HIDE DEF n
  <2>1. n \in Seq(HookNames) /\ Len(n) = Len(names) - 1
        /\ \A i \in 1..(Len(names) - 1) : n[i] = names[i + 1]
    BY <1>3 DEF n
  <2>2. /\ Saw(src, n) \in Seq(HookNames \X States(Machine)) /\ Len(Saw(src, n)) = Len(n)
        /\ \A i \in 1..Len(n) : Saw(src, n)[i] = <<n[i], src>>
    BY <2>1, SawFacts
  <2>3. u = Saw(src, n)
    BY DEF n
  <2> HIDE DEF u
  <2> QED
    BY <2>1, <2>2, <2>3
<1>5. /\ t \in Seq(HookNames \X States(Machine)) /\ Len(t) = Len(names) - 1
      /\ \A i \in 1..(Len(names) - 1) : t[i] = Saw(src, names)[i + 1]
  BY <1>1, <1>2, SawFacts
<1>6. \A i \in 1..(Len(names) - 1) : Saw(src, names)[i + 1] = <<names[i + 1], src>>
  BY <1>1, SawFacts
<1> HIDE DEF t, u
<1>7. t = u
  <2> DEFINE k == Len(names) - 1
  <2>1. \A i \in 1..k : t[i] = u[i]
    BY <1>4, <1>5, <1>6
  <2>2. Len(t) = k /\ Len(u) = k /\ k \in Nat
    BY <1>1, <1>4, <1>5
  <2> HIDE DEF k
  <2> QED
    BY <1>4, <1>5, <2>1, <2>2
<1> QED
  BY <1>2, <1>7 DEF t, u

LEMMA NextEarned ==
  ASSUME LoopTypes, LoopControl, EndIsEarned, [Next]_vars
  PROVE  EndIsEarned'
<1> USE DEF LoopTypes, LoopControl
<1>1. CASE Start \/ Keepalive
  BY <1>1 DEF Start, Keepalive, Yield, Heartbeat, EndIsEarned
<1>2. CASE \E e \in AllEvents : BeginTransition(e)
  <2>1. PICK e \in AllEvents : BeginTransition(e)
    BY <1>2
  <2> DEFINE tgt == TargetState(Machine, state, e)
  <2>2. /\ activity' = [kind |-> "transition_begin", transition |-> <<state, e, tgt>>]
        /\ pending' = Registered(Post, <<state, e>>) \o Registered(Pre, <<tgt, e>>)
        /\ ran' = <<>> /\ state' = state
    BY <2>1 DEF BeginTransition, Yield, Transition, HooksOf
  <2> HIDE DEF tgt
  <2>3. pending' = Registration(activity')
    BY <2>2 DEF Registration
  <2>4. pending' \in Seq(HookNames)
    BY <2>2, RegisteredIsSequence
  <2>5. Saw(state, pending') \in Seq(HookNames \X States(Machine))
    BY <2>4, SawFacts
  <2>6. <<>> \o Saw(state, pending') = Saw(state, pending')
    BY <2>5
  <2>7. ran' \o Saw(state', pending') = Saw(state', Registration(activity'))
    BY <2>2, <2>3, <2>6
  <2> QED
    BY <2>2, <2>7 DEF EndIsEarned, Registration
<1>3. CASE RunHook
  <2>1. /\ pc = "hooks" /\ pending # <<>> /\ activity.kind = "transition_begin"
        /\ pending' = Tail(pending) /\ ran' = Append(ran, <<Head(pending), state>>)
        /\ activity' = activity /\ state' = state
    BY <1>3 DEF RunHook
  <2>2. state = activity.transition[1]
        /\ ran \o Saw(state, pending) = Saw(state, Registration(activity))
    BY <2>1 DEF EndIsEarned
  <2> DEFINE s == Saw(state, pending)
  <2>3. s # <<>> /\ s \in Seq(HookNames \X States(Machine))
        /\ Head(s) = <<Head(pending), state>> /\ Tail(s) = Saw(state, Tail(pending))
    BY <2>1, SawTail, SawFacts
  <2>4. Append(ran, Head(s)) \o Tail(s) = ran \o s
    <3> DEFINE S == HookNames \X States(Machine)
    <3>1. ran \in Seq(S) /\ s \in Seq(S) /\ s # <<>>
      BY <2>3
    <3> HIDE DEF S, s
    <3> QED
      BY ONLY <3>1, HookMoves
  <2>5. ran' \o Saw(state', pending') = Saw(state', Registration(activity'))
    BY <2>1, <2>2, <2>3, <2>4
  <2> QED
    BY <2>1, <2>2, <2>5 DEF EndIsEarned, Registration
<1>4. CASE EndTransition
  <2>1. /\ pc = "hooks" /\ pending = <<>> /\ activity.kind = "transition_begin"
        /\ state' = activity.transition[3] /\ ran' = ran
        /\ activity' = [activity EXCEPT !.kind = "transition_end"]
    BY <1>4 DEF EndTransition, Yield, hooks
  <2>2. activity'.transition = activity.transition /\ activity'.kind = "transition_end"
    BY <2>1
  <2>3. state = activity.transition[1]
        /\ ran \o Saw(state, pending) = Saw(state, Registration(activity))
    BY <2>1 DEF EndIsEarned
  <2>4. Saw(state, pending) = <<>>
    <3> DEFINE q == Saw(state, pending)
    <3>1. q \in Seq(HookNames \X States(Machine)) /\ Len(q) = Len(pending)
      BY SawFacts
    <3>2. Len(pending) = 0
      BY <2>1
    <3> HIDE DEF q
    <3>3. q = <<>>
      BY <3>1, <3>2
    <3> QED
      BY <3>3 DEF q
  <2>5. ran \o <<>> = ran
    OBVIOUS
  <2>6. Registration(activity') = Registration(activity)
    BY <2>2 DEF Registration
  <2>7. ran' = Saw(activity'.transition[1], Registration(activity'))
    BY <2>1, <2>2, <2>3, <2>4, <2>5, <2>6
  <2> QED
    BY <2>1, <2>2, <2>7 DEF EndIsEarned
<1>5. CASE Put \/ Resume \/ BeforeExit \/ Raise \/ Stop \/ Interrupt \/ Vanish
  BY <1>5 DEF Put, Resume, BeforeExit, Raise, Stop, Interrupt, Vanish, hooks, EndIsEarned,
              Registration
<1>6. CASE UNCHANGED vars
  BY <1>6 DEF vars, EndIsEarned, Registration
<1> QED
  BY <1>1, <1>2, <1>3, <1>4, <1>5, <1>6 DEF Next, Loop, Over

-----------------------------------------------------------------------------
(* The history. *)

Lags == pc = "resume" /\ activity.kind = "transition_end"

\* What was announced, but for the transition whose end is being put.
HistoryLags ==
    /\ Lags => /\ ended # <<>>
               /\ Last(ended) = <<activity.transition[2], activity.transition[3]>>
               /\ history = Behind
    /\ ~Lags => \/ history = LastOf(MaxHistory, ended)
                \/ how = "killed" /\ activity.kind = "transition_end" /\ history = Behind
    /\ how # "killed" => Len(history) <= MaxHistory

\* Where user code runs, and where the worker ends by itself, the history ends there.
AtTip ==
    \/ pc \in {"unstarted", "actor", "hooks"}
    \/ pc \in {"put", "resume"} /\ activity.kind # "transition_end"
    \/ pc = "exit" /\ how = "running"
    \/ how = "returned"

TipIsHere ==
    AtTip => IF history = <<>> THEN state = InitialState(Machine) ELSE Last(history)[2] = state

LEMMA InitHistory == Init => HistoryLags /\ TipIsHere
<1> SUFFICES ASSUME Init
             PROVE  HistoryLags /\ TipIsHere
  OBVIOUS
<1>1. ~(Len(<<>>) > MaxHistory)
  BY LoopAssumption
<1>2. LastOf(MaxHistory, <<>>) = <<>>
  BY <1>1, LastOfShort
<1>3. Len(history) <= MaxHistory
  BY LoopAssumption DEF Init
<1> QED
  BY <1>2, <1>3 DEF Init, HistoryLags, Lags, TipIsHere

\* A put announces the end of a transition, and leaves the history behind.
LEMMA PutHistory ==
  ASSUME LoopTypes, LoopControl, HistoryLags, TipIsHere, Put
  PROVE  HistoryLags' /\ TipIsHere'
<1> USE DEF LoopTypes, LoopControl
<1>1. /\ pc = "put" /\ pc' = "resume" /\ activity' = activity /\ state' = state
      /\ history' = history /\ how' = how /\ how = "running"
  BY DEF Put, ctx
<1>2. history = LastOf(MaxHistory, ended)
  BY <1>1 DEF HistoryLags, Lags
<1>3. CASE activity.kind = "transition_end"
  <2> DEFINE x == <<activity.transition[2], activity.transition[3]>>
  <2>1. x \in Steps
    BY <1>3 DEF Transitions, Steps
  <2>2. ended' = LastOf(MaxHistory + 1, Append(ended, x))
    BY <1>3 DEF Put
  <2>3. x = <<activity'.transition[2], activity'.transition[3]>>
    BY <1>1
  <2> HIDE DEF x
  <2>4. MaxHistory \in Nat /\ MaxHistory + 1 \in Nat \ {0}
    BY LoopAssumption
  <2>5. ended' # <<>> /\ Last(ended') = x
    BY <2>1, <2>2, <2>4, LastFacts
  <2>6. LastOf(MaxHistory, Front(ended')) = LastOf(MaxHistory, ended)
    BY <2>1, <2>2, <2>4, FrontOfLonger
  <2> QED
    BY <1>1, <1>2, <1>3, <2>3, <2>5, <2>6 DEF HistoryLags, Lags, Behind, TipIsHere, AtTip
<1>4. CASE activity.kind # "transition_end"
  <2>1. ended' = ended
    BY <1>4 DEF Put
  <2> QED
    BY <1>1, <1>2, <1>4, <2>1 DEF HistoryLags, Lags, TipIsHere, AtTip
<1> QED
  BY <1>3, <1>4

\* A resume makes up for it.
LEMMA ResumeHistory ==
  ASSUME LoopTypes, LoopControl, EndIsEarned, HistoryLags, TipIsHere, Resume
  PROVE  HistoryLags' /\ TipIsHere'
<1> USE DEF LoopTypes, LoopControl
<1>1. /\ pc = "resume" /\ pc' # "resume" /\ pc' # "put" /\ activity' = activity /\ state' = state
      /\ ended' = ended /\ how' = how /\ how = "running"
  BY DEF Resume, LoopHead
<1>2. CASE activity.kind = "transition_end"
  <2>1. ended # <<>> /\ history = LastOf(MaxHistory, Front(ended))
        /\ Last(ended) = <<activity.transition[2], activity.transition[3]>>
    BY <1>1, <1>2 DEF HistoryLags, Lags, Behind
  <2>2. history' = LastOf(MaxHistory, Append(history, Last(ended)))
    BY <1>2, <2>1 DEF Resume, AddTransition
  <2>3. MaxHistory \in Nat \ {0}
    BY LoopAssumption
  <2>4. Last(ended) \in Steps /\ history' = LastOf(MaxHistory, ended)
    BY <2>1, <2>2, <2>3, LastOfAppended
  <2>5. history' # <<>> /\ Len(history') <= MaxHistory /\ Last(history') = Last(ended)
    <3> DEFINE x == Last(ended)
    <3>1. x \in Steps /\ history \in Seq(Steps)
          /\ history' = LastOf(MaxHistory, Append(history, x))
      BY <2>2, <2>4
    <3> HIDE DEF x
    <3>2. history' # <<>> /\ Len(history') <= MaxHistory /\ Last(history') = x
      BY <2>3, <3>1, LastFacts
    <3> QED
      BY <3>2 DEF x
  <2>6. Last(ended)[2] = state
    BY <1>2, <2>1 DEF EndIsEarned
  <2> QED
    BY <1>1, <2>4, <2>5, <2>6 DEF HistoryLags, Lags, TipIsHere
<1>3. CASE activity.kind # "transition_end"
  <2>1. history' = history
    BY <1>3 DEF Resume
  <2> QED
    BY <1>1, <1>3, <2>1 DEF HistoryLags, Lags, TipIsHere, AtTip
<1> QED
  BY <1>2, <1>3

LEMMA NextHistory ==
  ASSUME LoopTypes, LoopControl, EndIsEarned, HistoryLags, TipIsHere, [Next]_vars
  PROVE  HistoryLags' /\ TipIsHere'
<1> USE DEF LoopTypes, LoopControl
<1>1. CASE Start \/ Keepalive
  <2>1. /\ pc \in {"unstarted", "actor"} /\ pc' = "put" /\ activity'.kind = "heartbeat"
        /\ UNCHANGED <<state, history, ended, how>>
    BY <1>1 DEF Start, Keepalive, Yield, Heartbeat, ctx
  <2> QED
    BY <2>1 DEF HistoryLags, Lags, TipIsHere, AtTip
<1>2. CASE \E e \in AllEvents : BeginTransition(e)
  <2>1. /\ pc = "actor" /\ pc' = "put" /\ activity'.kind = "transition_begin"
        /\ UNCHANGED <<state, history, ended, how>>
    BY <1>2 DEF BeginTransition, Yield, Transition, ctx
  <2> QED
    BY <2>1 DEF HistoryLags, Lags, TipIsHere, AtTip
<1>3. CASE RunHook
  BY <1>3 DEF RunHook, ctx, HistoryLags, Lags, Behind, TipIsHere, AtTip
<1>4. CASE EndTransition
  <2>1. /\ pc = "hooks" /\ pc' = "put" /\ activity'.kind = "transition_end" /\ how = "running"
        /\ UNCHANGED <<history, ended, how>>
    BY <1>4 DEF EndTransition, Yield, ctx
  <2> QED
    BY <2>1 DEF HistoryLags, Lags, TipIsHere, AtTip
<1>5. CASE BeforeExit
  <2>1. /\ pc = "exit" /\ pc' = "over" /\ how' = IF how = "running" THEN "returned" ELSE how
        /\ UNCHANGED <<activity, state, history, ended>>
    BY <1>5 DEF BeforeExit, ctx
  <2>2. HistoryLags'
    BY <2>1 DEF HistoryLags, Lags, Behind
  <2>3. AtTip' => AtTip
    BY <2>1 DEF AtTip
  <2> QED
    BY <2>1, <2>2, <2>3 DEF TipIsHere
<1>8. CASE Raise
  <2>1. /\ pc \in {"actor", "hooks"} /\ pc' = "exit" /\ how' = "raised" /\ how = "running"
        /\ UNCHANGED <<activity, state, history, ended>>
    BY <1>8 DEF Raise, InUserCode
  <2> QED
    BY <2>1 DEF HistoryLags, Lags, Behind, TipIsHere, AtTip
<1>9. CASE Stop
  <2>1. UNCHANGED <<pc, how, activity, state, history, ended>>
    BY <1>9 DEF Stop, ctx
  <2> QED
    BY <2>1 DEF HistoryLags, Lags, Behind, TipIsHere, AtTip
<1>6. CASE Interrupt \/ Vanish
  <2>1. /\ pc' \in {"exit", "over"} /\ how' = "killed"
        /\ UNCHANGED <<activity, state, history, ended>>
    BY <1>6 DEF Interrupt, Vanish, ctx
  <2> QED
    BY <2>1 DEF HistoryLags, Lags, Behind, TipIsHere, AtTip
<1>7. CASE UNCHANGED vars
  BY <1>7 DEF vars, HistoryLags, Lags, Behind, TipIsHere, AtTip
<1> QED
  BY <1>1, <1>2, <1>3, <1>4, <1>5, <1>6, <1>7, <1>8, <1>9, PutHistory, ResumeHistory
     DEF Next, Loop, Over

-----------------------------------------------------------------------------
LoopInv ==
    LoopTypes /\ LoopControl /\ ExitTold /\ EndIsEarned /\ HistoryLags /\ TipIsHere

LEMMA InitLoopInv == Init => LoopInv
  BY InitLoop, InitHistory DEF Init, LoopInv, ExitTold, EndIsEarned

LEMMA NextLoopInv == LoopInv /\ [Next]_vars => LoopInv'
  BY NextTypes, NextControl, NextExitTold, NextEarned, NextHistory DEF LoopInv

LEMMA LoopConsequences == LoopInv => HistoryIsThePath /\ EndIsEarned /\ ExitIsTrue
<1> SUFFICES ASSUME LoopInv
             PROVE  HistoryIsThePath /\ ExitIsTrue
  BY DEF LoopInv
<1> USE DEF LoopInv, LoopTypes, LoopControl
<1>1. HistoryIsThePath
  <2>1. how = "returned" => Last(history)[2] = state
    BY MachineFacts DEF TipIsHere, AtTip
  <2>2. pc \in {"actor", "hooks"} /\ history # <<>> => Last(history)[2] = state
    BY DEF TipIsHere, AtTip
  <2> QED
    BY <2>1, <2>2 DEF HistoryIsThePath, HistoryLags, Lags
<1>2. ExitIsTrue
  <2>1. CASE exits = <<>>
    BY <2>1 DEF ExitTold, ExitIsTrue
  <2>2. CASE exits # <<>>
    <3>1. /\ pc = "over" /\ Len(exits) = 1 /\ exits[1].exception = exception
      BY <2>2 DEF ExitTold
    <3>2. exits[1].graceful <=> how = "returned"
      <4>1. exits[1] = [graceful |-> how = "returned", exception |-> exception]
        BY <2>2 DEF ExitTold
      <4>2. CASE how = "returned"
        <5>1. exits[1] = [graceful |-> TRUE, exception |-> exception]
          BY <4>1, <4>2
        <5> QED
          BY <4>2, <5>1
      <4>3. CASE how # "returned"
        <5>1. exits[1] = [graceful |-> FALSE, exception |-> exception]
          BY <4>1, <4>3
        <5> QED
          BY <4>3, <5>1
      <4> QED
        BY <4>2, <4>3
    <3>3. exception = "raised" <=> how = "raised"
      BY <2>2 DEF ExitTold
    <3> QED
      BY <2>2, <3>1, <3>2, <3>3 DEF ExitIsTrue
  <2> QED
    BY <2>1, <2>2
<1> QED
  BY <1>1, <1>2

-----------------------------------------------------------------------------
(* CoroutineQueue. *)

\* Where a task may be: it is queue_pending until it was collected or dropped, collected only
\* when it is done, and of those collected the failed ones are in errors or in the log.
Bookkeeping ==
    /\ \A t \in 1..submitted : t \in queue_pending \/ t \in dropped \/ Queue!IsDone(t)
    /\ \A t \in dropped : t \notin queue_pending
    /\ \A t \in errors \cup logged :
            status[t] = "failed" /\ t \notin dropped /\ t \notin queue_pending
    /\ \A t \in errors : t \notin logged
    /\ \A t \in 1..submitted :
            status[t] = "failed" /\ t \notin dropped => t \in queue_pending \cup errors \cup logged
    /\ phase = "returned" => queue_pending = {} /\ errors = {}

QueueInv == Queue!TypeOK /\ Bookkeeping /\ Queue!BacklogIsLatest

-----------------------------------------------------------------------------
(* Finite sets of numbers. *)

\* A set of numbers that is not empty has a least element: the one submit drops.
LEMMA LeastElement ==
    ASSUME NEW S \in SUBSET Nat, S # {} PROVE \E d \in S : \A u \in S : d <= u
<1> DEFINE R == OpToRel(<, Nat)
<1>1. \E d \in S : \A u \in S : ~(<<u, d>> \in R)
  <2> HIDE DEF R
  <2>1. IsWellFoundedOn(R, Nat)
      BY NatLessThanWellFounded DEF R
  <2> QED BY <2>1, WFMin
<1>2. \A u, d \in S : ~(<<u, d>> \in R) => d <= u
    BY DEF OpToRel
<1> QED BY <1>1, <1>2

\* The set operators of the instance are those of this module.
LEMMA SameCardinality ==
    ASSUME NEW S
    PROVE  /\ Queue!Cardinality(S) = Cardinality(S)
           /\ Queue!IsFiniteSet(S) <=> IsFiniteSet(S)
<1>1. Queue!Cardinality(S) = Cardinality(S)
    BY Zenon DEF Queue!Cardinality, Cardinality
<1>2. Queue!IsFiniteSet(S) <=> IsFiniteSet(S)
    BY Zenon DEF Queue!IsFiniteSet, IsFiniteSet
<1> QED BY <1>1, <1>2

LEMMA PendingIsFinite ==
    ASSUME Queue!TypeOK, NEW S \in SUBSET queue_pending
    PROVE  IsFiniteSet(S) /\ Cardinality(S) \in Nat /\ Cardinality(S) <= Cardinality(queue_pending)
<1>1. submitted \in Nat /\ IsFiniteSet(1..submitted)
    BY QueueAssumption, FS_Interval DEF Queue!TypeOK
<1>2. IsFiniteSet(queue_pending)
    BY <1>1, FS_Subset DEF Queue!TypeOK
<1>3. IsFiniteSet(S) /\ Cardinality(S) <= Cardinality(queue_pending)
    BY <1>2, FS_Subset
<1> QED BY <1>3, FS_CardinalityType

\* What submit leaves of the backlog: within the bound again, and what it drops is older
\* than what it keeps.
LEMMA SubmitDropsOldest ==
    ASSUME QueueInv, submitted < MaxActivities
    PROVE  /\ Queue!DroppedFor(submitted + 1) \subseteq Queue!Unfinished \cup {submitted + 1}
           /\ Cardinality((Queue!Unfinished \cup {submitted + 1}) \ Queue!DroppedFor(submitted + 1)) <= MaxPending
           /\ \A d \in Queue!DroppedFor(submitted + 1) :
                \A u \in (Queue!Unfinished \cup {submitted + 1}) \ Queue!DroppedFor(submitted + 1) : d < u
<1> DEFINE t == submitted + 1
<1> DEFINE backlog == Queue!Unfinished \cup {t}
<1>1. /\ t \in Nat /\ (\A u \in backlog : u \in Nat) /\ t \notin Queue!Unfinished
      /\ Queue!Unfinished \subseteq queue_pending
  <2>1. submitted \in Nat /\ queue_pending \subseteq 1..submitted
      BY QueueAssumption DEF QueueInv, Queue!TypeOK
  <2>2. Queue!Unfinished \subseteq queue_pending
      BY DEF Queue!Unfinished
  <2>3. \A u \in Queue!Unfinished : u \in Nat /\ u <= submitted
      BY <2>1, <2>2
  <2> QED BY <2>1, <2>2, <2>3
<1>2. Queue!DroppedFor(t) = {d \in backlog : Cardinality(backlog) > MaxPending /\ \A u \in backlog : d <= u}
    BY SameCardinality DEF Queue!DroppedFor
<1>3. /\ IsFiniteSet(backlog) /\ Cardinality(backlog) \in Nat
      /\ Cardinality(backlog) <= MaxPending + 1
  <2>1. /\ IsFiniteSet(Queue!Unfinished) /\ Cardinality(Queue!Unfinished) \in Nat
        /\ Cardinality(Queue!Unfinished) <= Cardinality(queue_pending)
      BY <1>1, PendingIsFinite DEF QueueInv
  <2>2. IsFiniteSet(backlog) /\ Cardinality(backlog) = Cardinality(Queue!Unfinished) + 1
      BY <1>1, <2>1, FS_AddElement
  <2>3. Cardinality(queue_pending) \in Nat /\ Cardinality(queue_pending) <= MaxPending
      BY PendingIsFinite, SameCardinality DEF QueueInv, Queue!BacklogIsLatest
  <2> HIDE DEF backlog
  <2> QED BY <2>1, <2>2, <2>3, QueueAssumption
<1> HIDE DEF backlog
<1>4. Cardinality(backlog \ Queue!DroppedFor(t)) <= MaxPending
  <2>1. CASE Cardinality(backlog) > MaxPending
    <3>1. PICK d \in backlog : \A u \in backlog : d <= u
      <4>1. backlog # {}
          BY DEF backlog
      <4> QED BY <1>1, <4>1, LeastElement
    <3>2. Queue!DroppedFor(t) = {d}
      <4>1. \A u \in backlog : u <= d => u = d
          BY <1>1, <3>1
      <4>2. d \in Queue!DroppedFor(t)
          BY <1>2, <2>1, <3>1
      <4>3. \A u \in Queue!DroppedFor(t) : u \in backlog /\ u <= d
          BY <1>2, <3>1
      <4> QED BY <4>1, <4>2, <4>3
    <3>3. Cardinality(backlog \ {d}) = Cardinality(backlog) - 1
        BY <1>3, FS_RemoveElement
    <3> QED BY <1>3, <2>1, <3>2, <3>3, QueueAssumption
  <2>2. CASE ~(Cardinality(backlog) > MaxPending)
    <3>1. Queue!DroppedFor(t) = {}
        BY <1>2, <2>2
    <3>2. backlog \ Queue!DroppedFor(t) = backlog
        BY <3>1
    <3> QED BY <1>3, <2>2, <3>2, QueueAssumption
  <2> QED BY <2>1, <2>2
<1>5. ASSUME NEW d \in Queue!DroppedFor(t), NEW u \in backlog \ Queue!DroppedFor(t) PROVE d < u
  <2>1. d \in backlog /\ u \in backlog /\ d <= u /\ d # u
      BY <1>2
  <2>2. d \in Nat /\ u \in Nat
      BY <1>1, <2>1
  <2> HIDE DEF t
  <2> QED BY <2>1, <2>2
<1> QED BY <1>2, <1>4, <1>5 DEF backlog

-----------------------------------------------------------------------------
(* The invariant. *)

LEMMA InitQueueInv == Queue!Init => QueueInv
<1> SUFFICES ASSUME Queue!Init PROVE QueueInv
    OBVIOUS
<1>1. Queue!TypeOK
    BY QueueAssumption DEF Queue!Init, Queue!TypeOK, Queue!Tasks
<1>2. Bookkeeping
    BY DEF Queue!Init, Bookkeeping
<1>3. Queue!BacklogIsLatest
    BY FS_EmptySet, SameCardinality, QueueAssumption DEF Queue!Init, Queue!BacklogIsLatest
<1> QED BY <1>1, <1>2, <1>3 DEF QueueInv

LEMMA ActivityQueueInv ==
    ASSUME QueueInv, Queue!Activity PROVE QueueInv'
<1> DEFINE t == submitted + 1
<1> DEFINE D == Queue!DroppedFor(t)
<1> DEFINE logs == errors \cup Queue!NewErrors
<1>1. /\ phase = "looping" /\ phase' = phase
      /\ submitted < MaxActivities /\ submitted' = t
      /\ status' = [status EXCEPT ![t] = "ready"]
      /\ queue_pending' = (Queue!Unfinished \cup {t}) \ D
      /\ cancelling' = cancelling \cup D /\ dropped' = dropped \cup D
      /\ logged' = logged \cup logs /\ errors' = {} /\ received' = received
    BY DEF Queue!Activity, Queue!Flushed
<1>2. /\ submitted \in Nat /\ t \in Queue!Tasks /\ t \in 1..t /\ 1..submitted \subseteq 1..t
      /\ t \notin 1..submitted /\ 1..t = 1..submitted \cup {t} /\ t \in Nat /\ t \in 0..MaxActivities
    BY <1>1, QueueAssumption DEF QueueInv, Queue!TypeOK, Queue!Tasks
<1>3. /\ D \subseteq Queue!Unfinished \cup {t}
      /\ Cardinality((Queue!Unfinished \cup {t}) \ D) <= MaxPending
      /\ \A d \in D : \A u \in (Queue!Unfinished \cup {t}) \ D : d < u
    BY <1>1, SubmitDropsOldest
<1>4. /\ \A s \in queue_pending : s \in Queue!Unfinished \/ Queue!IsDone(s)
      /\ Queue!Unfinished \subseteq queue_pending /\ \A s \in Queue!Unfinished : ~Queue!IsDone(s)
      /\ \A s \in Queue!NewErrors : s \in queue_pending /\ status[s] = "failed"
      /\ \A s \in queue_pending : status[s] = "failed" => s \in Queue!NewErrors
    BY DEF Queue!Unfinished, Queue!Completed, Queue!NewErrors, Queue!IsDone
<1>5. /\ queue_pending \subseteq 1..submitted /\ dropped \subseteq 1..submitted /\ errors \subseteq 1..submitted
      /\ logged \subseteq 1..submitted /\ Queue!NewErrors \subseteq 1..submitted
    BY <1>4 DEF QueueInv, Queue!TypeOK
<1>6. /\ status'[t] = "ready"
      /\ \A s \in 1..submitted : status'[s] = status[s]
    BY <1>1, <1>2, QueueAssumption DEF QueueInv, Queue!TypeOK, Queue!Tasks
<1> HIDE DEF D, t
<1>7. Queue!TypeOK'
  <2>1. /\ cancelling' \subseteq 1..submitted' /\ queue_pending' \subseteq 1..submitted'
        /\ errors' \subseteq 1..submitted' /\ logged' \subseteq 1..submitted'
        /\ dropped' \subseteq 1..submitted' /\ received' \subseteq 1..submitted'
    <3>1. cancelling \subseteq 1..submitted /\ received \subseteq 1..submitted
        BY DEF QueueInv, Queue!TypeOK
    <3> QED BY <1>1, <1>2, <1>3, <1>4, <1>5, <3>1
  <2>2. status' \in [Queue!Tasks -> {"new", "ready", "started", "ok", "failed", "cancelled"}]
      BY <1>1 DEF QueueInv, Queue!TypeOK
  <2>3. \A s \in Queue!Tasks : status'[s] = "new" <=> s > submitted'
      BY <1>1, <1>2, QueueAssumption DEF QueueInv, Queue!TypeOK, Queue!Tasks, t
  <2> QED BY <1>1, <1>2, <2>1, <2>2, <2>3 DEF Queue!TypeOK
<1>8. Bookkeeping'
  <2>1. \A s \in 1..t : s \in queue_pending' \/ s \in dropped'
                        \/ status'[s] \in {"ok", "failed", "cancelled"}
      BY <1>1, <1>2, <1>4, <1>6 DEF QueueInv, Bookkeeping, Queue!IsDone
  <2>2. \A s \in dropped' : s \notin queue_pending'
      BY <1>1, <1>2, <1>4, <1>5 DEF QueueInv, Bookkeeping
  <2>3. \A s \in logged' : status'[s] = "failed" /\ s \notin dropped' /\ s \notin queue_pending'
    <3> SUFFICES ASSUME NEW s \in logged'
                 PROVE  status'[s] = "failed" /\ s \notin dropped' /\ s \notin queue_pending'
        OBVIOUS
    <3>1. s \in 1..submitted /\ s # t
        BY <1>1, <1>2, <1>5
    <3>2. status[s] = "failed" /\ s \notin dropped /\ s \notin Queue!Unfinished
        BY <1>1, <1>4 DEF QueueInv, Bookkeeping, Queue!IsDone
    <3> QED BY <1>1, <1>3, <1>6, <3>1, <3>2
  <2>4. \A s \in 1..t : status'[s] = "failed" /\ s \notin dropped' => s \in logged'
      BY <1>1, <1>2, <1>4, <1>6 DEF QueueInv, Bookkeeping
  <2> QED BY <1>1, <2>1, <2>2, <2>3, <2>4 DEF Bookkeeping, Queue!IsDone
<1>9. Queue!BacklogIsLatest'
  <2>1. \A d \in dropped', s \in queue_pending' : d < s
    <3> SUFFICES ASSUME NEW d \in dropped', NEW s \in queue_pending' PROVE d < s
        OBVIOUS
    <3>1. CASE d \in D
        BY <1>1, <1>3, <3>1
    <3>2. CASE d \in dropped /\ s \in queue_pending
        BY <3>2 DEF QueueInv, Queue!BacklogIsLatest
    <3>3. CASE d \in dropped /\ s = t
        BY <1>2, <1>5, <3>3 DEF t
    <3> QED BY <1>1, <1>4, <3>1, <3>2, <3>3
  <2> QED BY <1>1, <1>3, <2>1, SameCardinality DEF Queue!BacklogIsLatest
<1> QED BY <1>7, <1>8, <1>9 DEF QueueInv

\* The phases of run() before and after the drain only move on.
LEMMA PhaseQueueInv ==
    ASSUME QueueInv,
           Queue!LoopEnds \/ Queue!LoopRaises \/ Queue!Abandoned \/ Queue!DrainCancelled
    PROVE  QueueInv'
<1>1. /\ UNCHANGED <<submitted, status, queue_pending, errors, logged, dropped, received>>
      /\ phase' \in {"draining", "raised", "abandoning"}
      /\ cancelling' \subseteq cancelling \cup queue_pending
    BY DEF Queue!LoopEnds, Queue!LoopRaises, Queue!Abandoned, Queue!DrainCancelled, Queue!Unfinished
<1>2. Queue!TypeOK'
    BY <1>1 DEF QueueInv, Queue!TypeOK
<1>3. Bookkeeping'
    BY <1>1 DEF QueueInv, Bookkeeping, Queue!IsDone
<1>4. Queue!BacklogIsLatest'
    BY <1>1 DEF QueueInv, Queue!BacklogIsLatest
<1> QED BY <1>2, <1>3, <1>4 DEF QueueInv

\* The drain is over: whatever is queue_pending is done, and collected.
LEMMA DrainedQueueInv ==
    ASSUME QueueInv, Queue!Drained PROVE QueueInv'
<1>1. /\ phase' = "returned" /\ Queue!Unfinished = {} /\ queue_pending' = {} /\ errors' = {}
      /\ logged' = logged \cup errors \cup Queue!NewErrors
      /\ UNCHANGED <<submitted, status, cancelling, dropped, received>>
    BY DEF Queue!Drained, Queue!Flushed
<1>2. /\ \A s \in queue_pending : Queue!IsDone(s)
      /\ \A s \in Queue!NewErrors : s \in queue_pending /\ status[s] = "failed"
      /\ \A s \in queue_pending : status[s] = "failed" => s \in Queue!NewErrors
    BY <1>1 DEF Queue!Unfinished, Queue!Completed, Queue!NewErrors, Queue!IsDone
<1>3. Queue!TypeOK'
    BY <1>1, <1>2 DEF QueueInv, Queue!TypeOK
<1>4. Bookkeeping'
    BY <1>1, <1>2 DEF QueueInv, Bookkeeping, Queue!IsDone
<1>5. Queue!BacklogIsLatest'
    BY <1>1, FS_EmptySet, SameCardinality, QueueAssumption DEF Queue!BacklogIsLatest
<1> QED BY <1>3, <1>4, <1>5 DEF QueueInv

\* A task that takes a step was not done before, so it is queue_pending or was dropped.
LEMMA TaskQueueInv ==
    ASSUME QueueInv, NEW t \in Queue!Tasks, Queue!Start(t) \/ Queue!Finish(t) PROVE QueueInv'
<1>1. /\ status[t] \in {"ready", "started"}
      /\ \E end \in {"started", "ok", "failed", "cancelled"} : status' = [status EXCEPT ![t] = end]
      /\ received' \subseteq received \cup {t}
      /\ UNCHANGED <<phase, submitted, cancelling, queue_pending, errors, logged, dropped>>
    BY DEF Queue!Start, Queue!Finish
<1>2. /\ status'[t] \in {"started", "ok", "failed", "cancelled"}
      /\ \A s \in Queue!Tasks : s # t => status'[s] = status[s]
      /\ status' \in [Queue!Tasks -> {"new", "ready", "started", "ok", "failed", "cancelled"}]
    BY <1>1 DEF QueueInv, Queue!TypeOK
<1>3. t \in 1..submitted /\ submitted \in Nat /\ 1..submitted \subseteq Queue!Tasks
    BY <1>1, QueueAssumption DEF QueueInv, Queue!TypeOK, Queue!Tasks
<1>4. Queue!TypeOK'
    BY <1>1, <1>2, <1>3 DEF QueueInv, Queue!TypeOK
<1>5. t \in queue_pending \/ t \in dropped
    BY <1>1, <1>3 DEF QueueInv, Bookkeeping, Queue!IsDone
<1>6. t \notin errors \cup logged
    BY <1>1 DEF QueueInv, Bookkeeping
<1>7. Bookkeeping'
  <2>1. errors \cup logged \subseteq Queue!Tasks
      BY <1>3 DEF QueueInv, Queue!TypeOK
  <2> QED BY <1>1, <1>2, <1>3, <1>5, <1>6, <2>1 DEF QueueInv, Bookkeeping, Queue!IsDone
<1>8. Queue!BacklogIsLatest'
    BY <1>1 DEF QueueInv, Queue!BacklogIsLatest
<1> QED BY <1>4, <1>7, <1>8 DEF QueueInv

LEMMA NextQueueInv == QueueInv /\ [Queue!Next]_callbacks => QueueInv'
<1> SUFFICES ASSUME QueueInv, [Queue!Next]_callbacks PROVE QueueInv'
    OBVIOUS
<1>1. CASE UNCHANGED callbacks \/ Queue!Terminated
    BY <1>1 DEF Queue!Terminated, Queue!vars, callbacks, QueueInv, Queue!TypeOK,
                Bookkeeping, Queue!IsDone, Queue!BacklogIsLatest
<1>2. CASE Queue!Run
    BY <1>2, ActivityQueueInv, PhaseQueueInv, DrainedQueueInv DEF Queue!Run
<1>3. ASSUME NEW t \in Queue!Tasks, Queue!Start(t) \/ Queue!Finish(t) PROVE QueueInv'
    BY <1>3, TaskQueueInv
<1> QED BY <1>1, <1>2, <1>3 DEF Queue!Next

LEMMA QueueConsequences ==
    ASSUME QueueInv PROVE FailuresAreKept /\ Queue!LogIsTrue /\ ReturnIsClean
<1>1. Queue!FailuresAreKept
    BY DEF QueueInv, Bookkeeping, Queue!FailuresAreKept
<1>2. Queue!LogIsTrue
    BY DEF QueueInv, Bookkeeping, Queue!LogIsTrue
<1>3. Queue!ReturnIsClean
    BY DEF QueueInv, Bookkeeping, Queue!ReturnIsClean
<1> QED BY <1>1, <1>2, <1>3 DEF FailuresAreKept, ReturnIsClean

-----------------------------------------------------------------------------
(* ThreadKill. *)

\* Live threads have idents of their own.
IdentsDiffer ==
    \A s, t \in Kill!Threads : Kill!IsAlive(s) /\ Kill!IsAlive(t) /\ ident[s] = ident[t] => s = t

\* Incarnations come one after the other.
Incarnations ==
    \A u \in Units :
        /\ thread_phase[<<u, generation[u]>>] # "unborn"
        /\ \A n \in 0..RestartQuota : n > generation[u] => thread_phase[<<u, n>>] = "unborn"

\* While a kill is under way its target was not hit, and the threads that ran when it
\* began do not have its ident.
KillsInCourse ==
    \A u \in Units : kill_pc[u] # "idle" =>
        /\ ~kill_requested[u]
        /\ \A t \in spared[u] : /\ thread_phase[t] # "unborn"
                                /\ Kill!IsAlive(t) => ident[t] # ident[<<u, generation[u]>>]

\* A hit is remembered by the flag of its unit, until the unit is replaced.
HitsAreRequested ==
    \A u \in Units : \A n \in 0..RestartQuota : \A t \in Kill!Threads :
        <<<<u, n>>, t>> \in hits => n <= generation[u] /\ (n = generation[u] => kill_requested[u])

KillInv ==
    /\ Kill!TypeOK /\ IdentsDiffer /\ Incarnations /\ KillsInCourse
    /\ HitsAreRequested /\ Kill!KillsOnce /\ Kill!StrangersAreSpared

LEMMA CurrentIsThread ==
    ASSUME Kill!TypeOK, NEW u \in Units
    PROVE  /\ Kill!Current(u) \in Kill!Threads /\ Kill!Current(u) = <<u, generation[u]>>
           /\ generation[u] \in 0..RestartQuota
BY DEF Kill!TypeOK, Kill!Current, Kill!Threads

LEMMA InitKillInv == Kill!Init => KillInv
<1> SUFFICES ASSUME Kill!Init PROVE KillInv
    OBVIOUS
<1>0. RestartQuota \in Nat
    BY QuotaAssumption
<1>1. Kill!TypeOK
    BY <1>0 DEF Kill!Init, Kill!TypeOK, Kill!Threads
<1>2. IdentsDiffer
    BY DEF Kill!Init, IdentsDiffer, Kill!IsAlive, Kill!Threads
<1>3. Incarnations
  <2> SUFFICES ASSUME NEW u \in Units
               PROVE  /\ thread_phase[<<u, generation[u]>>] # "unborn"
                      /\ \A n \in 0..RestartQuota : n > generation[u] => thread_phase[<<u, n>>] = "unborn"
      BY DEF Incarnations
  <2>1. generation[u] = 0
      BY DEF Kill!Init
  <2>2. \A n \in 0..RestartQuota :
            <<u, n>> \in Kill!Threads /\ thread_phase[<<u,
                   n>>] = IF n = 0 THEN "running" ELSE "unborn"
      BY <1>0 DEF Kill!Init, Kill!Threads
  <2> QED BY <1>0, <2>1, <2>2
<1>4. KillsInCourse /\ HitsAreRequested /\ Kill!KillsOnce /\ Kill!StrangersAreSpared
    BY DEF Kill!Init, KillsInCourse, HitsAreRequested, Kill!KillsOnce, Kill!StrangersAreSpared,
           Kill!Current, Kill!Threads
<1> QED BY <1>1, <1>2, <1>3, <1>4 DEF KillInv

\* A step of a thread leaves idents, units and hits alone and brings no thread to life.
LEMMA ThreadStepKillInv ==
    ASSUME KillInv, NEW t \in Kill!Threads, Kill!ThreadStep(t) PROVE KillInv'
<1>1. /\ thread_phase' \in [Kill!Threads -> {"unborn", "running", "leaving", "gone"}]
      /\ \A s \in Kill!Threads : thread_phase'[s] # thread_phase[s] =>
            thread_phase[s] \in {"running", "leaving"} /\ thread_phase'[s] \in {"leaving", "gone"}
      /\ \A s \in Kill!Threads : thread_phase'[s] \in {"running", "leaving"}
            => thread_phase[s] \in {"running", "leaving"}
    BY DEF KillInv, Kill!TypeOK, Kill!ThreadStep, Kill!Exit, Kill!RaiseSystemExit, Kill!Vanish,
           Kill!Leave
<1>2. thread_pending' \subseteq Kill!Threads
      /\ UNCHANGED <<ident, generation, kill_requested, kill_pc, spared, hits>>
    BY DEF KillInv, Kill!TypeOK, Kill!ThreadStep, Kill!Exit, Kill!RaiseSystemExit, Kill!Vanish,
           Kill!Leave
<1>3. Kill!TypeOK'
    BY <1>1, <1>2 DEF KillInv, Kill!TypeOK
<1>4. IdentsDiffer'
    BY <1>1, <1>2 DEF KillInv, IdentsDiffer, Kill!IsAlive
<1>5. Incarnations'
  <2> SUFFICES ASSUME NEW u \in Units
               PROVE  /\ thread_phase'[<<u, generation[u]>>] # "unborn"
                      /\ \A n \in 0..RestartQuota : n > generation[u] => thread_phase'[<<u, n>>] = "unborn"
      BY <1>2 DEF Incarnations
  <2>1. \A n \in 0..RestartQuota : <<u, n>> \in Kill!Threads
      BY DEF Kill!Threads
  <2>2. generation[u] \in 0..RestartQuota
      BY CurrentIsThread DEF KillInv
  <2> QED BY <1>1, <2>1, <2>2 DEF KillInv, Incarnations
<1>6. KillsInCourse'
  <2> SUFFICES ASSUME NEW u \in Units, kill_pc[u] # "idle", NEW s \in spared[u]
               PROVE  thread_phase'[s] # "unborn"
                      /\ (thread_phase'[s] \in {"running", "leaving"} => ident[s] # ident[<<u, generation[u]>>])
      BY <1>2 DEF KillsInCourse, Kill!IsAlive, KillInv
  <2>1. s \in Kill!Threads
      BY DEF KillInv, Kill!TypeOK
  <2> QED BY <1>1, <2>1 DEF KillInv, KillsInCourse, Kill!IsAlive
<1>7. HitsAreRequested' /\ Kill!KillsOnce' /\ Kill!StrangersAreSpared'
    BY <1>2 DEF KillInv, HitsAreRequested, Kill!KillsOnce, Kill!StrangersAreSpared, Kill!Current
<1> QED BY <1>3, <1>4, <1>5, <1>6, <1>7 DEF KillInv

LEMMA BeginKillInv ==
    ASSUME KillInv, NEW u \in Units, Kill!BeginKill(u) PROVE KillInv'
<1> DEFINE beside == {t \in Kill!Threads \ {Kill!Current(u)} : Kill!IsAlive(t)}
<1>1. /\ kill_pc[u] = "idle" /\ Kill!IsAlive(Kill!Current(u)) /\ ~kill_requested[u]
      /\ kill_pc' = [kill_pc EXCEPT ![u] = "killing"] /\ spared' = [spared EXCEPT ![u] = beside]
      /\ UNCHANGED <<thread_phase, ident, thread_pending, generation, kill_requested, hits>>
    BY DEF Kill!BeginKill
<1>2. /\ Kill!Current(u) \in Kill!Threads /\ Kill!Current(u) = <<u, generation[u]>>
    BY CurrentIsThread DEF KillInv
<1>3. \A t \in beside : t \in Kill!Threads /\ Kill!IsAlive(t) /\ ident[t] # ident[<<u,
       generation[u]>>]
    BY <1>1, <1>2 DEF KillInv, IdentsDiffer
<1> HIDE DEF beside
<1>4. /\ \A v \in Units : v # u => kill_pc'[v] = kill_pc[v] /\ spared'[v] = spared[v]
      /\ spared'[u] = beside /\ kill_pc'[u] = "killing"
    BY <1>1 DEF KillInv, Kill!TypeOK
<1>5. Kill!TypeOK'
    BY <1>1, <1>3 DEF KillInv, Kill!TypeOK
<1>6. IdentsDiffer' /\ Incarnations' /\ HitsAreRequested' /\ Kill!KillsOnce'
    BY <1>1 DEF KillInv, IdentsDiffer, Incarnations, HitsAreRequested, Kill!KillsOnce, Kill!IsAlive
<1>7. KillsInCourse'
    BY <1>1, <1>3, <1>4 DEF KillInv, KillsInCourse, Kill!IsAlive
<1>8. Kill!StrangersAreSpared'
  <2> SUFFICES ASSUME NEW v \in Units, NEW t \in spared'[v],
         kill_pc'[v] # "idle" \/ kill_requested[v]
               PROVE  <<<<v, generation[v]>>, t>> \notin hits
      BY <1>1 DEF Kill!StrangersAreSpared, Kill!Current
  <2>1. CASE v = u
    <3>1. t \in Kill!Threads
        BY <1>3, <1>4, <2>1
    <3> QED BY <1>1, <1>2, <2>1, <3>1, CurrentIsThread DEF KillInv, HitsAreRequested
  <2>2. CASE v # u
      BY <1>4, <2>2 DEF KillInv, Kill!StrangersAreSpared, Kill!Current
  <2> QED BY <2>1, <2>2
<1> QED BY <1>5, <1>6, <1>7, <1>8 DEF KillInv

LEMMA LookKillInv ==
    ASSUME KillInv, NEW u \in Units, Kill!Look(u) PROVE KillInv'
<1>1. /\ kill_pc[u] = "killing"
      /\ UNCHANGED <<thread_phase, ident, thread_pending, generation, spared, hits>>
      /\ \/ kill_pc' = [kill_pc EXCEPT ![u] = "looked"] /\ UNCHANGED kill_requested
         \/ /\ kill_pc' = [kill_pc EXCEPT ![u] = "idle"]
            /\ kill_requested' = [kill_requested EXCEPT ![u] = TRUE]
    BY DEF Kill!Look, Kill!EndKill
<1>2. Kill!TypeOK'
    BY <1>1 DEF KillInv, Kill!TypeOK
<1>3. IdentsDiffer' /\ Incarnations' /\ Kill!KillsOnce'
    BY <1>1 DEF KillInv, IdentsDiffer, Incarnations, Kill!KillsOnce, Kill!IsAlive
<1>4. /\ \A v \in Units : v # u => kill_pc'[v] = kill_pc[v] /\ kill_requested'[v] = kill_requested[v]
      /\ kill_pc'[u] = "looked" => ~kill_requested'[u]
      /\ kill_pc'[u] \in {"looked", "idle"}
    BY <1>1 DEF KillInv, Kill!TypeOK, KillsInCourse
<1>5. KillsInCourse'
    BY <1>1, <1>4 DEF KillInv, KillsInCourse, Kill!IsAlive
<1>6. \A t \in Kill!Threads : <<<<u, generation[u]>>, t>> \notin hits
    BY <1>1, CurrentIsThread DEF KillInv, KillsInCourse, HitsAreRequested
<1>7. HitsAreRequested'
    BY <1>1, <1>4, <1>6 DEF KillInv, HitsAreRequested
<1>8. Kill!StrangersAreSpared'
    BY <1>1, <1>4 DEF KillInv, Kill!StrangersAreSpared, Kill!Current
<1> QED BY <1>2, <1>3, <1>5, <1>7, <1>8 DEF KillInv

LEMMA InjectKillInv ==
    ASSUME KillInv, NEW u \in Units, Kill!Inject(u) PROVE KillInv'
<1> DEFINE victims == Kill!States(ident[Kill!Current(u)])
<1> DEFINE target == <<u, generation[u]>>
<1>1. /\ kill_pc[u] = "looked"
      /\ thread_pending' = thread_pending \cup victims
      /\ hits' = hits \cup {<<target, t>> : t \in victims}
      /\ kill_pc' = [kill_pc EXCEPT ![u] = "idle"]
      /\ kill_requested' = [kill_requested EXCEPT ![u] = TRUE]
      /\ UNCHANGED <<thread_phase, ident, generation, spared>>
    BY DEF Kill!Inject, Kill!EndKill, Kill!Current
<1>2. target \in Kill!Threads /\ target = Kill!Current(u) /\ generation[u] \in 0..RestartQuota
    BY CurrentIsThread DEF KillInv
<1>3. /\ victims \subseteq Kill!Threads
      /\ \A t \in victims : Kill!IsAlive(t) /\ ident[t] = ident[target]
      /\ \A s, t \in victims : s = t
    BY <1>2 DEF Kill!States, KillInv, IdentsDiffer
<1> HIDE DEF victims
<1>4. \A t \in Kill!Threads : <<target, t>> \notin hits
    BY <1>1, <1>2 DEF KillInv, KillsInCourse, HitsAreRequested
<1>5. /\ \A v \in Units : v # u => kill_pc'[v] = kill_pc[v] /\ kill_requested'[v] = kill_requested[v]
      /\ kill_pc'[u] = "idle" /\ kill_requested'[u]
    BY <1>1 DEF KillInv, Kill!TypeOK
<1>6. Kill!TypeOK'
    BY <1>1, <1>2, <1>3 DEF KillInv, Kill!TypeOK
<1>7. IdentsDiffer' /\ Incarnations'
    BY <1>1 DEF KillInv, IdentsDiffer, Incarnations, Kill!IsAlive
<1>8. KillsInCourse'
    BY <1>1, <1>5 DEF KillInv, KillsInCourse, Kill!IsAlive
<1>9. HitsAreRequested'
  <2> SUFFICES ASSUME NEW v \in Units, NEW n \in 0..RestartQuota, NEW t \in Kill!Threads,
                      <<<<v, n>>, t>> \in hits'
               PROVE  n <= generation[v] /\ (n = generation[v] => kill_requested'[v])
      BY <1>1 DEF HitsAreRequested
  <2>1. CASE <<<<v, n>>, t>> \in hits
    <3>1. n <= generation[v] /\ (n = generation[v] => kill_requested[v])
        BY <2>1 DEF KillInv, HitsAreRequested
    <3> QED BY <1>5, <3>1
  <2>2. CASE <<<<v, n>>, t>> \notin hits
    <3>1. v = u /\ n = generation[u]
        BY <1>1, <2>2
    <3> QED BY <1>2, <1>5, <3>1
  <2> QED BY <2>1, <2>2
<1>10. Kill!KillsOnce'
  <2> SUFFICES ASSUME NEW k \in hits', NEW l \in hits', k[1] = l[1] PROVE k = l
      BY DEF Kill!KillsOnce
  <2>1. CASE k \in hits /\ l \in hits
      BY <2>1 DEF KillInv, Kill!KillsOnce
  <2>2. CASE k \notin hits /\ l \notin hits
    <3>1. PICK s \in victims : k = <<target, s>>
        BY <1>1, <2>2
    <3>2. PICK t \in victims : l = <<target, t>>
        BY <1>1, <2>2
    <3> QED BY <1>3, <3>1, <3>2
  <2>3. ASSUME NEW a \in hits, NEW s \in victims, a[1] = target PROVE FALSE
    <3>1. a \in Kill!Threads \X Kill!Threads
        BY DEF KillInv, Kill!TypeOK
    <3>2. a = <<target, a[2]>> /\ a[2] \in Kill!Threads
        BY <2>3, <3>1
    <3> QED BY <1>4, <3>2
  <2>4. CASE k \in hits /\ l \notin hits
    <3>1. PICK t \in victims : l = <<target, t>>
        BY <1>1, <2>4
    <3> QED BY <2>3, <2>4, <3>1
  <2>5. CASE k \notin hits /\ l \in hits
    <3>1. PICK t \in victims : k = <<target, t>>
        BY <1>1, <2>5
    <3> QED BY <2>3, <2>5, <3>1
  <2> QED BY <2>1, <2>2, <2>4, <2>5
<1>11. Kill!StrangersAreSpared'
  <2> SUFFICES ASSUME NEW v \in Units, NEW t \in spared[v],
                      kill_pc'[v] # "idle" \/ kill_requested'[v]
               PROVE  <<<<v, generation[v]>>, t>> \notin hits'
      BY <1>1 DEF Kill!StrangersAreSpared, Kill!Current
  <2>0. t \in Kill!Threads
      BY DEF KillInv, Kill!TypeOK
  <2>1. CASE v = u
    <3>1. Kill!IsAlive(t) => ident[t] # ident[target]
        BY <1>1, <2>1 DEF KillInv, KillsInCourse
    <3>2. t \notin victims
        BY <1>3, <3>1
    <3> QED BY <1>1, <1>4, <2>0, <2>1, <3>2
  <2>2. CASE v # u
    <3>1. <<<<v, generation[v]>>, t>> \notin hits
        BY <1>5, <2>2 DEF KillInv, Kill!StrangersAreSpared, Kill!Current
    <3> QED BY <1>1, <2>2, <3>1
  <2> QED BY <2>1, <2>2
<1> QED BY <1>6, <1>7, <1>8, <1>9, <1>10, <1>11 DEF KillInv

LEMMA RestartKillInv ==
    ASSUME KillInv, NEW u \in Units, Kill!Restart(u) PROVE KillInv'
<1> DEFINE next == <<u, generation[u] + 1>>
<1>1. PICK i \in Idents :
        /\ kill_pc[u] = "idle" /\ ~Kill!IsAlive(Kill!Current(u)) /\ generation[u] < RestartQuota
        /\ generation' = [generation EXCEPT ![u] = @ + 1]
        /\ kill_requested' = [kill_requested EXCEPT ![u] = FALSE]
        /\ Kill!States(i) = {}
        /\ thread_phase' = [thread_phase EXCEPT ![next] = "running"]
        /\ ident' = [ident EXCEPT ![next] = i]
        /\ UNCHANGED <<thread_pending, kill_pc, spared, hits>>
    BY DEF Kill!Restart
<1>2. generation[u] \in 0..RestartQuota /\ generation[u] + 1 \in 0..RestartQuota
    BY <1>1, CurrentIsThread, QuotaAssumption DEF KillInv
<1>3. next \in Kill!Threads
    BY <1>2 DEF Kill!Threads
<1>4. thread_phase[next] = "unborn"
    BY <1>2, CurrentIsThread DEF KillInv, Incarnations
<1>5. /\ thread_phase'[next] = "running" /\ ident'[next] = i
      /\ \A t \in Kill!Threads : t # next => thread_phase'[t] = thread_phase[t] /\ ident'[t] = ident[t]
    BY <1>1, <1>3 DEF KillInv, Kill!TypeOK
<1>6. /\ generation'[u] = generation[u] + 1 /\ ~kill_requested'[u]
      /\ \A v \in Units : v # u =>
            generation'[v] = generation[v] /\ kill_requested'[v] = kill_requested[v]
    BY <1>1 DEF KillInv, Kill!TypeOK
<1>7. Kill!TypeOK'
    BY <1>1, <1>2, <1>3 DEF KillInv, Kill!TypeOK
<1>8. IdentsDiffer'
  <2>1. \A t \in Kill!Threads : Kill!IsAlive(t) => ident[t] # i
      BY <1>1 DEF Kill!States
  <2> HIDE DEF next
  <2> QED BY <1>5, <2>1 DEF KillInv, IdentsDiffer, Kill!IsAlive
<1>9. Incarnations'
  <2> SUFFICES ASSUME NEW v \in Units
               PROVE  /\ thread_phase'[<<v, generation'[v]>>] # "unborn"
                      /\ \A n \in 0..RestartQuota : n > generation'[v] => thread_phase'[<<v, n>>] = "unborn"
      BY DEF Incarnations
  <2>1. \A n \in 0..RestartQuota : <<v, n>> \in Kill!Threads
      BY DEF Kill!Threads
  <2>2. generation[v] \in 0..RestartQuota
      BY CurrentIsThread DEF KillInv
  <2>3. CASE v = u
    <3>1. generation'[v] = generation[u] + 1
        BY <1>6, <2>3
    <3>2. ASSUME NEW n \in 0..RestartQuota, n > generation[u] + 1 PROVE thread_phase'[<<u,
           n>>] = "unborn"
      <4>1. <<u, n>> # next /\ n > generation[u]
          BY <1>2, <3>2
      <4> QED BY <1>5, <2>1, <2>3, <4>1 DEF KillInv, Incarnations
    <3> QED BY <1>5, <2>3, <3>1, <3>2
  <2>4. CASE v # u
      BY <1>5, <1>6, <2>1, <2>2, <2>4 DEF KillInv, Incarnations
  <2> QED BY <2>3, <2>4
<1>10. KillsInCourse'
  <2>1. kill_pc' = kill_pc /\ spared' = spared
      BY <1>1
  <2>2. ASSUME NEW v \in Units, kill_pc[v] # "idle"
        PROVE  /\ v # u /\ ~kill_requested'[v] /\ <<v, generation[v]>> \in Kill!Threads
               /\ generation'[v] = generation[v] /\ <<v, generation[v]>> # next
    <3>1. v # u
        BY <1>1, <2>2
    <3> QED BY <1>6, <2>2, <3>1, CurrentIsThread DEF KillInv, KillsInCourse
  <2>3. ASSUME NEW v \in Units, kill_pc[v] # "idle", NEW t \in spared[v]
        PROVE  /\ thread_phase'[t] # "unborn"
               /\ (thread_phase'[t] \in {"running", "leaving"} => ident'[t] # ident'[<<v, generation'[v]>>])
    <3>1. t \in Kill!Threads /\ t # next
        BY <1>4, <2>3 DEF KillInv, Kill!TypeOK, KillsInCourse
    <3>2. /\ thread_phase[t] # "unborn"
          /\ (thread_phase[t] \in {"running", "leaving"} => ident[t] # ident[<<v, generation[v]>>])
        BY <2>3 DEF KillInv, KillsInCourse, Kill!IsAlive
    <3> HIDE DEF next
    <3> QED BY <1>5, <2>2, <2>3, <3>1, <3>2
  <2> QED BY <2>1, <2>2, <2>3 DEF KillsInCourse, Kill!IsAlive
<1>11. HitsAreRequested'
  <2> SUFFICES ASSUME NEW v \in Units, NEW n \in 0..RestartQuota, NEW t \in Kill!Threads,
                      <<<<v, n>>, t>> \in hits
               PROVE  n <= generation'[v] /\ (n = generation'[v] => kill_requested'[v])
      BY <1>1 DEF HitsAreRequested
  <2>1. n <= generation[v] /\ (n = generation[v] => kill_requested[v])
      BY DEF KillInv, HitsAreRequested
  <2> QED BY <1>2, <1>6, <2>1
<1>12. Kill!KillsOnce'
    BY <1>1 DEF KillInv, Kill!KillsOnce
<1>13. Kill!StrangersAreSpared'
    BY <1>1, <1>6 DEF KillInv, Kill!StrangersAreSpared, Kill!Current
<1> QED BY <1>7, <1>8, <1>9, <1>10, <1>11, <1>12, <1>13 DEF KillInv

LEMMA NextKillInv == KillInv /\ [Kill!Next]_threads => KillInv'
<1> SUFFICES ASSUME KillInv, [Kill!Next]_threads PROVE KillInv'
    OBVIOUS
<1>1. CASE UNCHANGED threads
    BY <1>1 DEF threads, KillInv, Kill!TypeOK, IdentsDiffer, Incarnations, KillsInCourse,
                Kill!IsAlive, HitsAreRequested, Kill!KillsOnce, Kill!StrangersAreSpared, Kill!Current
<1>2. ASSUME NEW t \in Kill!Threads, Kill!ThreadStep(t) PROVE KillInv'
    BY <1>2, ThreadStepKillInv
<1>3. ASSUME NEW u \in Units, Kill!BeginKill(u) \/ Kill!KillStep(u) \/ Kill!Restart(u)
      PROVE  KillInv'
    BY <1>3, BeginKillInv, LookKillInv, InjectKillInv, RestartKillInv DEF Kill!KillStep
<1> QED BY <1>1, <1>2, <1>3 DEF Kill!Next

-----------------------------------------------------------------------------
(* The three together: a step of one leaves the others alone. *)

IInv == LoopInv /\ QueueInv /\ KillInv

THEOREM IInvHolds == RuntimeSpec => []IInv
<1>1. RuntimeInit => IInv
    BY InitLoopInv, InitQueueInv, InitKillInv DEF RuntimeInit, IInv
<1>2. IInv /\ [RuntimeNext]_all => IInv'
  <2> SUFFICES ASSUME IInv, [RuntimeNext]_all PROVE IInv'
      OBVIOUS
  <2>1. /\ [Next]_vars
        /\ [Queue!Next]_callbacks
        /\ [Kill!Next]_threads
      BY DEF RuntimeNext, InLoop, InCallbacks, InThreads, all
  <2> QED BY <2>1, NextLoopInv, NextQueueInv, NextKillInv DEF IInv
<1> QED BY <1>1, <1>2, PTL DEF RuntimeSpec, RuntimeSafety

-----------------------------------------------------------------------------
(* What follows. *)

\* Whenever an actor, a hook or before_exit runs, ctx.history is the path that was
\* announced to the supervisor, or the end of it that fits in the ring buffer, whatever
\* the machine, the hooks and the buffer's size (core.py:42-65, worker.py:301-305).
THEOREM HistoriesAreThePath == RuntimeSpec => []HistoryIsThePath
BY IInvHolds, LoopConsequences, PTL DEF IInv

\* A transition is announced as ended only after every hook of its edge, in order and in
\* the state being left (worker.py:295-304).
THEOREM EndsAreEarned == RuntimeSpec => []EndIsEarned
BY IInvHolds, LoopConsequences, PTL DEF IInv

\* before_exit is called once at most and told the truth, and is left out only for a
\* worker interrupted outside of the try (worker.py:268-313).
THEOREM ExitsAreTrue == RuntimeSpec => []ExitIsTrue
BY IInvHolds, LoopConsequences, PTL DEF IInv

\* The backlog keeps its bound, and drops the oldest first (utils.py:73-85).
THEOREM BacklogIsBounded == RuntimeSpec => []Queue!BacklogIsLatest
BY IInvHolds, PTL DEF IInv, QueueInv

\* No failure of a callback that was not dropped is lost or logged twice
\* (utils.py:58-71, 87-91).
THEOREM FailuresArePlaced == RuntimeSpec => []FailuresAreKept
BY IInvHolds, QueueConsequences, PTL DEF IInv

\* The log never speaks of a dropped callback, nor of one that did not fail.
THEOREM LogsAreTrue == RuntimeSpec => []Queue!LogIsTrue
BY IInvHolds, QueueConsequences, PTL DEF IInv

\* run() returns with every callback ended and every failure logged, but for those that
\* were dropped (supervisor.py:426-427).
THEOREM ReturnsAreClean == RuntimeSpec => []ReturnIsClean
BY IInvHolds, QueueConsequences, PTL DEF IInv

\* A kill hits no thread that ran beside its target when it began, for any number of
\* supervisors killing and restarting at once (execution.py:89-100, utils.py:114-120).
THEOREM KillsSpareStrangers == RuntimeSpec => []StrangersAreSpared
BY IInvHolds, PTL DEF IInv, KillInv, StrangersAreSpared

\* An incarnation is hit, or hits another in its stead, at most once
\* (supervisor.py:102-104).
THEOREM KillsAreSingle == RuntimeSpec => []Kill!KillsOnce
BY IInvHolds, PTL DEF IInv, KillInv
=============================================================================
