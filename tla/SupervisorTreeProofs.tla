------------------------ MODULE SupervisorTreeProofs ------------------------
(***************************************************************************)
(* Trees of supervisors, of any finite shape and with any quotas: each     *)
(* level keeps its contract whatever the levels above and below do, and -  *)
(* where no process runs below a process - whoever is left behind has been *)
(* told to die, and two incarnations of one worker never both mean to go   *)
(* on.                                                                     *)
(*                                                                         *)
(* The invariant (Family) is about one supervisor, one of its workers and  *)
(* one generation at a time: generations to come have not begun, those     *)
(* past are over, a request to kill has reached the executor, and below a  *)
(* supervisor that is not alive whatever runs has been killed. An action   *)
(* touches one supervisor's units and their executors, or its own state,   *)
(* so that the families of all the others are kept by one lemma            *)
(* (OthersKeepTheirKin), and so are their contracts (LevelAbove).          *)
(***************************************************************************)
EXTENDS SupervisorTree, NaturalsInduction, WellFoundedInduction, TLAPS

-----------------------------------------------------------------------------
(* Paths. *)

Child(sup, w, g) == Append(sup, <<w, g>>)

GenerationsOf(w) == 0..QuotaOf(w)

LEMMA GenerationFacts ==
  ASSUME NEW w
  PROVE  /\ QuotaOf(w) \in Nat /\ GenerationsOf(w) \subseteq Generations
         /\ GenerationsOf(w) = {g \in Generations : g <= QuotaOf(w)}
         /\ 0 \in GenerationsOf(w)
  BY QuotaAssumption DEF QuotaOf, GenerationsOf, Generations

\* An instance is a sequence of names and generations.
LEMMA InstanceFacts ==
  ASSUME NEW path \in Instances
  PROVE  /\ path \in Seq(Names \X Generations)
         /\ Len(path) \in Nat /\ Len(path) <= MaxDepth
         /\ path \in SupervisorInstances => Len(path) < MaxDepth
<1>1. PICK n \in 0..MaxDepth : path \in [1..n -> Names \X Generations]
  BY DEF Instances
<1>2. path \in Seq(Names \X Generations) /\ Len(path) = n
  BY <1>1, TreeAssumption
<1> QED
  BY <1>2, TreeAssumption, DepthAssumption

\* What makes a sequence an instance.
LEMMA InstanceMeaning ==
  ASSUME NEW path \in Seq(Names \X Generations), Len(path) <= MaxDepth
  PROVE  path \in Instances <=>
            \A i \in 1..Len(path) :
                /\ NameOf(SubSeq(path, 1, i - 1)) \in Supervisors
                /\ path[i][1] \in Tree[NameOf(SubSeq(path, 1, i - 1))]
                /\ path[i][2] <= QuotaOf(path[i][1])
<1>1. Len(path) \in 0..MaxDepth /\ path \in [1..Len(path) -> Names \X Generations]
  BY TreeAssumption
<1> QED
  BY <1>1 DEF Instances

LEMMA TopIsInstance == <<>> \in SupervisorInstances
<1>1. <<>> \in Seq(Names \X Generations) /\ Len(<<>>) = 0
  OBVIOUS
<1>2. Len(<<>>) <= MaxDepth /\ 1..Len(<<>>) = {}
  BY <1>1, TreeAssumption
<1>3. <<>> \in Instances
  BY <1>1, <1>2, InstanceMeaning
<1> QED
  BY <1>3, TreeAssumption DEF SupervisorInstances, NameOf

\* The prefixes of a path and of one that goes on from it.
LEMMA PrefixOfAppend ==
  ASSUME NEW S, NEW s \in Seq(S), NEW e \in S
  PROVE  /\ Append(s, e) \in Seq(S) /\ Len(Append(s, e)) = Len(s) + 1
         /\ Append(s, e)[Len(s) + 1] = e
         /\ \A i \in 1..Len(s) : Append(s, e)[i] = s[i]
         /\ \A i \in 0..Len(s) : SubSeq(Append(s, e), 1, i) = SubSeq(s, 1, i)
         /\ SubSeq(Append(s, e), 1, Len(s)) = s
<1>1. /\ Append(s, e) \in Seq(S) /\ Len(Append(s, e)) = Len(s) + 1
      /\ Append(s, e)[Len(s) + 1] = e
      /\ \A i \in 1..Len(s) : Append(s, e)[i] = s[i]
  OBVIOUS
<1>2. ASSUME NEW i \in 0..Len(s)
      PROVE  SubSeq(Append(s, e), 1, i) = SubSeq(s, 1, i)
  BY <1>1
<1>3. SubSeq(s, 1, Len(s)) = s
  OBVIOUS
<1> QED
  BY <1>1, <1>2, <1>3

LEMMA PrefixOfPrefix ==
  ASSUME NEW S, NEW s \in Seq(S), NEW k \in 0..Len(s)
  PROVE  /\ SubSeq(s, 1, k) \in Seq(S) /\ Len(SubSeq(s, 1, k)) = k
         /\ \A j \in 1..k : SubSeq(s, 1, k)[j] = s[j]
         /\ \A i \in 0..k : SubSeq(SubSeq(s, 1, k), 1, i) = SubSeq(s, 1, i)
<1> DEFINE r == SubSeq(s, 1, k)
<1>1. r \in Seq(S) /\ Len(r) = k /\ \A j \in 1..k : r[j] = s[j]
  OBVIOUS
<1>2. ASSUME NEW i \in 0..k
      PROVE  SubSeq(r, 1, i) = SubSeq(s, 1, i)
  <2> HIDE DEF r
  <2>1. /\ SubSeq(r, 1, i) \in Seq(S) /\ Len(SubSeq(r, 1, i)) = i
        /\ \A j \in 1..i : SubSeq(r, 1, i)[j] = s[j]
    BY <1>1
  <2>2. /\ SubSeq(s, 1, i) \in Seq(S) /\ Len(SubSeq(s, 1, i)) = i
        /\ \A j \in 1..i : SubSeq(s, 1, i)[j] = s[j]
    OBVIOUS
  <2> QED
    BY <2>1, <2>2
<1> QED
  BY <1>1, <1>2

\* Two children are one only if they agree in everything.
LEMMA ChildIsOne ==
  ASSUME NEW S, NEW s \in Seq(S), NEW t \in Seq(S), NEW v, NEW w, NEW g, NEW h,
         Append(s, <<v, g>>) = Append(t, <<w, h>>)
  PROVE  s = t /\ v = w /\ g = h
<1> DEFINE p == Append(s, <<v, g>>)
           q == Append(t, <<w, h>>)
           R == S \cup {<<v, g>>, <<w, h>>}
<1>0. s \in Seq(R) /\ t \in Seq(R) /\ <<v, g>> \in R /\ <<w, h>> \in R
  OBVIOUS
<1> HIDE DEF R
<1>1. /\ Len(p) = Len(s) + 1 /\ p[Len(s) + 1] = <<v, g>>
      /\ \A i \in 1..Len(s) : p[i] = s[i]
  BY <1>0
<1>2. /\ Len(q) = Len(t) + 1 /\ q[Len(t) + 1] = <<w, h>>
      /\ \A i \in 1..Len(t) : q[i] = t[i]
  BY <1>0
<1>. p = q
  OBVIOUS
<1> HIDE DEF p, q
<1>3. Len(s) = Len(t)
  BY <1>1, <1>2
<1>4. <<v, g>> = <<w, h>>
  BY <1>1, <1>2, <1>3
<1>5. s = t
  BY <1>1, <1>2, <1>3
<1> QED
  BY <1>4, <1>5

\* The children of a supervisor are instances, and it is none of them.
LEMMA ChildFacts ==
  ASSUME NEW sup \in SupervisorInstances, NEW w \in WorkersOf(sup), NEW g \in GenerationsOf(w)
  PROVE  /\ Child(sup, w, g) \in Instances
         /\ Child(sup, w, g) # sup /\ Child(sup, w, g) # <<>>
         /\ NameOf(Child(sup, w, g)) = w
         /\ Parent(Child(sup, w, g)) = sup
         /\ \A t \in SupervisorInstances : \A v : \A h :
                Child(sup, w, g) = Child(t, v, h) => sup = t /\ w = v /\ g = h
<1>1. /\ sup \in Seq(Names \X Generations) /\ Len(sup) \in Nat /\ Len(sup) + 1 <= MaxDepth
      /\ NameOf(sup) \in Supervisors
  BY InstanceFacts, TreeAssumption DEF SupervisorInstances
<1>2. w \in Names
  BY <1>1 DEF WorkersOf, Names
<1>3. <<w, g>> \in Names \X Generations /\ g <= QuotaOf(w)
  BY <1>2, GenerationFacts
<1> DEFINE child == Append(sup, <<w, g>>)
<1>4. /\ child \in Seq(Names \X Generations) /\ Len(child) = Len(sup) + 1
      /\ child[Len(sup) + 1] = <<w, g>>
      /\ \A i \in 1..Len(sup) : child[i] = sup[i]
      /\ \A i \in 0..Len(sup) : SubSeq(child, 1, i) = SubSeq(sup, 1, i)
      /\ SubSeq(child, 1, Len(sup)) = sup
  BY <1>1, <1>3, PrefixOfAppend
<1> HIDE DEF child
<1>5. child \in Instances
  <2>1. ASSUME NEW i \in 1..Len(child)
        PROVE  /\ NameOf(SubSeq(child, 1, i - 1)) \in Supervisors
               /\ child[i][1] \in Tree[NameOf(SubSeq(child, 1, i - 1))]
               /\ child[i][2] <= QuotaOf(child[i][1])
    <3>1. CASE i \in 1..Len(sup)
      <4>1. i - 1 \in 0..Len(sup) /\ child[i] = sup[i]
            /\ SubSeq(child, 1, i - 1) = SubSeq(sup, 1, i - 1)
        BY <1>1, <1>4, <3>1
      <4>2. sup \in Instances /\ Len(sup) <= MaxDepth
        BY <1>1, InstanceFacts DEF SupervisorInstances
      <4> QED
        BY <1>1, <3>1, <4>1, <4>2, InstanceMeaning
    <3>2. CASE i = Len(sup) + 1
      <4>1. SubSeq(child, 1, i - 1) = sup /\ child[i][1] = w /\ child[i][2] = g
        BY <1>1, <1>4, <3>2
      <4> QED
        BY <1>1, <1>3, <4>1 DEF WorkersOf
    <3> QED
      BY <1>1, <1>4, <3>1, <3>2
  <2> QED
    BY <1>1, <1>4, <2>1, InstanceMeaning
<1>6. child # sup /\ child # <<>>
  BY <1>1, <1>4
<1>7. NameOf(child) = w
  BY <1>1, <1>4, <1>6 DEF NameOf
<1>8. Parent(child) = sup
  BY <1>1, <1>4 DEF Parent
<1>9. ASSUME NEW t \in SupervisorInstances, NEW v, NEW h, child = Child(t, v, h)
      PROVE  sup = t /\ w = v /\ g = h
  <2>1. t \in Seq(Names \X Generations)
    BY InstanceFacts DEF SupervisorInstances
  <2> QED
    BY <1>1, <1>9, <2>1, ChildIsOne DEF child, Child
<1>10. child = Child(sup, w, g)
  BY DEF child, Child
<1> QED
  BY <1>5, <1>6, <1>7, <1>8, <1>9, <1>10

\* A path that is not the root's is a child of its parent.
LEMMA ParentFacts ==
  ASSUME NEW path \in Instances, path # <<>>
  PROVE  \E sup \in SupervisorInstances : \E w \in WorkersOf(sup) : \E g \in GenerationsOf(w) :
            path = Child(sup, w, g) /\ sup = Parent(path)
<1>1. path \in Seq(Names \X Generations) /\ Len(path) \in Nat /\ Len(path) <= MaxDepth
  BY InstanceFacts
<1> DEFINE n == Len(path)
           sup == SubSeq(path, 1, n - 1)
<1>2. n > 0
  BY <1>1
<1>3. /\ sup \in Seq(Names \X Generations) /\ Len(sup) = n - 1
      /\ \A i \in 1..(n - 1) : sup[i] = path[i]
      /\ \A i \in 0..(n - 1) : SubSeq(sup, 1, i) = SubSeq(path, 1, i)
  <2>1. /\ sup \in Seq(Names \X Generations) /\ Len(sup) = n - 1
        /\ \A i \in 1..(n - 1) : sup[i] = path[i]
    <3>1. n - 1 \in Nat /\ n - 1 <= Len(path) /\ \A i \in 1..(n - 1) : i \in 1..Len(path)
      BY <1>1, <1>2
    <3> HIDE DEF n
    <3> QED
      BY <1>1, <3>1
  <2>2. \A i \in 0..(n - 1) : SubSeq(sup, 1, i) = SubSeq(path, 1, i)
    BY <1>1, <1>2, PrefixOfPrefix
  <2> QED
    BY <2>1, <2>2
<1>4. \A i \in 1..n :
          /\ NameOf(SubSeq(path, 1, i - 1)) \in Supervisors
          /\ path[i][1] \in Tree[NameOf(SubSeq(path, 1, i - 1))]
          /\ path[i][2] <= QuotaOf(path[i][1])
  BY <1>1, InstanceMeaning
<1>5. path[n] \in Names \X Generations
  BY <1>1, <1>2
<1> DEFINE w == path[n][1]
           g == path[n][2]
<1>6. path[n] = <<w, g>>
  BY <1>5
<1>7. path = Append(sup, <<w, g>>)
  BY <1>1, <1>2, <1>3, <1>6
<1>8. NameOf(sup) \in Supervisors /\ w \in WorkersOf(sup) /\ g \in GenerationsOf(w)
  <2>1. /\ NameOf(sup) \in Supervisors /\ w \in Tree[NameOf(sup)] /\ g <= QuotaOf(w)
    BY <1>1, <1>2, <1>4
  <2>2. g \in Generations
    BY <1>5
  <2> QED
    BY <2>1, <2>2, GenerationFacts DEF WorkersOf
<1>9. sup \in Instances
  <2> HIDE DEF sup
  <2>1. ASSUME NEW i \in 1..Len(sup)
        PROVE  /\ NameOf(SubSeq(sup, 1, i - 1)) \in Supervisors
               /\ sup[i][1] \in Tree[NameOf(SubSeq(sup, 1, i - 1))]
               /\ sup[i][2] <= QuotaOf(sup[i][1])
    <3>1. i \in 1..n /\ i - 1 \in 0..(n - 1) /\ sup[i] = path[i]
      BY <1>1, <1>2, <1>3
    <3>2. SubSeq(sup, 1, i - 1) = SubSeq(path, 1, i - 1)
      BY <1>3, <3>1
    <3> QED
      BY <1>4, <3>1, <3>2
  <2>2. Len(sup) <= MaxDepth
    BY <1>1, <1>2, <1>3, TreeAssumption
  <2> QED
    BY <1>3, <2>1, <2>2, InstanceMeaning
<1> QED
  BY <1>7, <1>8, <1>9 DEF Child, Parent, SupervisorInstances

-----------------------------------------------------------------------------
(***************************************************************************)
(* The inductive invariant: what a supervisor of the tree, in whatever     *)
(* state, has in each place of its family.                                 *)
(***************************************************************************)
States == {"none", "starting", "running", "terminating", "reaping", "exiting",
           "stopped", "unheard", "crashed", "dead"}

Life == [state : States, term : BOOLEAN, killed : BOOLEAN]

UnitType == [restart_count : Nat, kill_requested : BOOLEAN]

TypeOK ==
    /\ executor_type \in ExecutorTypes
    /\ exec \in [Instances -> Life]
    /\ DOMAIN units = SupervisorInstances
    /\ \A t \in SupervisorInstances :
        /\ units[t] \in [WorkersOf(t) -> UnitType]
        /\ \A w \in WorkersOf(t) : units[t][w].restart_count \in GenerationsOf(w)

\* Generations to come have not run, those that were replaced have ended.
FutureIsIdle(t, w, g) ==
    g > units[t][w].restart_count => exec[Child(t, w, g)] = Idle

PastIsOver(t, w, g) ==
    g < units[t][w].restart_count => ~IsAlive(Child(t, w, g))

\* A supervisor that has not booted has never had a unit run.
UnbootedIsFresh(t, w, g) ==
    exec[t].state \in {"none", "starting"} =>
        units[t][w] = NewUnit /\ exec[Child(t, w, g)] = Idle

\* A kill that was requested has reached the unit's executor.
RequestLands(t, w, g) ==
    g = units[t][w].restart_count /\ units[t][w].kill_requested /\ IsAlive(Child(t, w, g))
        => exec[Child(t, w, g)].killed

\* A process that is killed takes no process with it, so what runs below one must not
\* have processes of its own: below a "process" level there are only "thread" levels.
NoProcessBelowProcess ==
    \A type \in ExecutorTypes : \A path \in Instances : \A m, n \in 0..Len(path) :
        m < n /\ SubSeq(path, 1, n) \in SupervisorInstances
            /\ type[NameOf(SubSeq(path, 1, m))] = "process"
        => type[NameOf(SubSeq(path, 1, n))] = "thread"

\* A supervisor that is gone, or only joins what is left of it, has killed its units.
OrphanIsKilled(t, w, g) ==
    NoProcessBelowProcess /\ (~IsAlive(t) \/ exec[t].state = "exiting")
            /\ IsAlive(Child(t, w, g))
        => exec[Child(t, w, g)].killed

Kin(t, w, g) ==
    /\ FutureIsIdle(t, w, g) /\ PastIsOver(t, w, g) /\ UnbootedIsFresh(t, w, g)
    /\ RequestLands(t, w, g) /\ OrphanIsKilled(t, w, g)

Family(t) == \A w \in WorkersOf(t) : \A g \in GenerationsOf(w) : Kin(t, w, g)

IInv == TypeOK /\ \A t \in SupervisorInstances : Family(t)

-----------------------------------------------------------------------------
(* What one supervisor does leaves the other families as they should be. *)

LEMMA CurrentIsChild ==
  ASSUME NEW t, NEW w
  PROVE  /\ Current(t, w) = Child(t, w, units[t][w].restart_count)
         /\ Current(t, w)' = Child(t, w, units'[t][w].restart_count)
  BY DEF Current, Child

\* A step of one supervisor, or of a leaf: it is alive, what is known of it by its parent
\* is not forgotten, and of the others only its children change - and they only start.
ActsAt(actor) ==
    /\ IsAlive(actor) /\ (IsAlive(actor)' => exec'[actor].killed = exec[actor].killed)
    /\ \A t \in SupervisorInstances \ {actor} : units'[t] = units[t]
    /\ \A p \in Instances \ {actor} :
        exec'[p] # exec[p] =>
            /\ p # <<>> /\ Parent(p) = actor
            /\ p \in SupervisorInstances =>
                exec'[p].state = exec[p].state
                    \/ (exec[p].state = "none" /\ exec'[p].state = "starting")

LEMMA OthersKeepTheirKin ==
  ASSUME IInv, NEW actor \in Instances, ActsAt(actor),
         NEW t \in SupervisorInstances \ {actor}
  PROVE  Family(t)'
<1> SUFFICES ASSUME NEW w \in WorkersOf(t), NEW g \in GenerationsOf(w)
             PROVE  Kin(t, w, g)'
  BY DEF Family
<1> DEFINE c == Child(t, w, g)
<1>1. c \in Instances /\ c # <<>> /\ Parent(c) = t /\ c # t
  BY ChildFacts
<1>2. Kin(t, w, g) /\ units'[t] = units[t]
  BY DEF IInv, Family, ActsAt
<1>3. t \in Instances
  BY DEF SupervisorInstances
<1>4. exec'[t].state = exec[t].state
        \/ (exec[t].state = "none" /\ exec'[t].state = "starting")
  <2>1. CASE exec'[t] = exec[t]
    BY <2>1
  <2>2. CASE exec'[t] # exec[t]
    BY <1>3, <2>2 DEF ActsAt
  <2> QED
    BY <2>1, <2>2
<1>5. c # actor => exec'[c] = exec[c]
  BY <1>1 DEF ActsAt
<1> HIDE DEF c
<1>6. c = actor => IsAlive(c) /\ (IsAlive(c)' => exec'[c].killed = exec[c].killed)
  BY DEF ActsAt
<1>7. c = Child(t, w, g)
  BY DEF c
<1> USE <1>2, <1>4, <1>5, <1>6, <1>7
<1>8. FutureIsIdle(t, w, g)'
  BY DEF Kin, FutureIsIdle, IsAlive, Idle
<1>9. PastIsOver(t, w, g)'
  BY DEF Kin, PastIsOver, IsAlive
<1>10. UnbootedIsFresh(t, w, g)'
  BY DEF Kin, UnbootedIsFresh, IsAlive, Idle
<1>11. RequestLands(t, w, g)'
  BY DEF Kin, RequestLands, IsAlive
<1>12. OrphanIsKilled(t, w, g)'
  BY DEF Kin, OrphanIsKilled, IsAlive
<1> QED
  BY <1>8, <1>9, <1>10, <1>11, <1>12 DEF Kin

LEMMA ActorKeepsTheInvariant ==
  ASSUME IInv, NEW actor \in Instances, ActsAt(actor), TypeOK',
         actor \in SupervisorInstances => Family(actor)'
  PROVE  IInv'
<1>1. ASSUME NEW t \in SupervisorInstances
      PROVE  Family(t)'
  BY OthersKeepTheirKin
<1> QED
  BY <1>1 DEF IInv

\* What the types say of one unit, and of one instance.
LEMMA UnitFacts ==
  ASSUME TypeOK, NEW sup \in SupervisorInstances
  PROVE  /\ sup \in Instances /\ exec[sup] \in Life
         /\ \A w \in WorkersOf(sup) :
                /\ units[sup][w] \in UnitType
                /\ units[sup][w].restart_count \in GenerationsOf(w)
                /\ Current(sup, w) \in Instances /\ exec[Current(sup, w)] \in Life
                /\ Current(sup, w) # sup /\ Current(sup, w) # <<>>
                /\ Parent(Current(sup, w)) = sup
                /\ \A g \in GenerationsOf(w) :
                    Child(sup, w, g) \in Instances /\ exec[Child(sup, w, g)] \in Life
<1>1. sup \in Instances
  BY DEF SupervisorInstances
<1>2. ASSUME NEW w \in WorkersOf(sup)
      PROVE  units[sup][w] \in UnitType /\ units[sup][w].restart_count \in GenerationsOf(w)
  BY DEF TypeOK
<1> QED
  BY <1>1, <1>2, ChildFacts, CurrentIsChild DEF TypeOK

\* kill() of some units: nothing but the kill flags changes, those of the victims are set.
LEMMA KillingFacts ==
  ASSUME TypeOK, NEW sup \in SupervisorInstances, NEW V \in SUBSET WorkersOf(sup)
  PROVE  /\ UnitsKilled(sup, V) \in [WorkersOf(sup) -> UnitType]
         /\ \A w \in WorkersOf(sup) :
              /\ UnitsKilled(sup, V)[w].restart_count = units[sup][w].restart_count
              /\ UnitsKilled(sup, V)[w].kill_requested =>
                    units[sup][w].kill_requested \/ w \in V
         /\ Killed(sup, V) \in [Instances -> Life]
         /\ \A p \in Instances :
              /\ Killed(sup, V)[p].state = exec[p].state
              /\ Killed(sup, V)[p].term = exec[p].term
              /\ exec[p].killed => Killed(sup, V)[p].killed
              /\ Killed(sup, V)[p].killed => exec[p].killed \/ IsKilledBy(p, sup, V)
              /\ ~IsKilledBy(p, sup, V) => Killed(sup, V)[p] = exec[p]
         /\ \A w \in V : ~units[sup][w].kill_requested => Killed(sup, V)[Current(sup, w)].killed
<1>1. ASSUME NEW w \in WorkersOf(sup)
      PROVE  /\ UnitsKilled(sup, V)[w] \in UnitType
             /\ UnitsKilled(sup, V)[w].restart_count = units[sup][w].restart_count
             /\ UnitsKilled(sup, V)[w].kill_requested =>
                    units[sup][w].kill_requested \/ w \in V
  <2>1. units[sup][w] \in UnitType
    BY UnitFacts
  <2>2. UnitsKilled(sup, V)[w] = [units[sup][w] EXCEPT !.kill_requested = @ \/ w \in V]
    BY DEF UnitsKilled
  <2> QED
    BY <2>1, <2>2 DEF UnitType
<1>2. UnitsKilled(sup, V) \in [WorkersOf(sup) -> UnitType]
  BY <1>1 DEF UnitsKilled
<1>3. ASSUME NEW p \in Instances
      PROVE  /\ Killed(sup, V)[p] \in Life
             /\ Killed(sup, V)[p].state = exec[p].state
             /\ Killed(sup, V)[p].term = exec[p].term
             /\ exec[p].killed => Killed(sup, V)[p].killed
             /\ IsKilledBy(p, sup, V) => Killed(sup, V)[p].killed
             /\ Killed(sup, V)[p].killed => exec[p].killed \/ IsKilledBy(p, sup, V)
             /\ ~IsKilledBy(p, sup, V) => Killed(sup, V)[p] = exec[p]
  <2>1. exec[p] \in Life
    BY DEF TypeOK
  <2>2. Killed(sup, V)[p] = [exec[p] EXCEPT !.killed = @ \/ IsKilledBy(p, sup, V)]
    BY DEF Killed
  <2>3. CASE IsKilledBy(p, sup, V)
    <3>1. Killed(sup, V)[p] = [exec[p] EXCEPT !.killed = TRUE]
      BY <2>1, <2>2, <2>3
    <3> QED
      BY <2>1, <2>3, <3>1 DEF Life
  <2>4. CASE ~IsKilledBy(p, sup, V)
    <3>1. Killed(sup, V)[p] = [exec[p] EXCEPT !.killed = exec[p].killed]
      BY <2>1, <2>2, <2>4 DEF Life
    <3>2. Killed(sup, V)[p] = exec[p]
      BY <2>1, <3>1 DEF Life
    <3> QED
      BY <2>1, <2>4, <3>2 DEF Life
  <2> QED
    BY <2>3, <2>4
<1>4. Killed(sup, V) \in [Instances -> Life]
  BY <1>3 DEF Killed
<1>5. ASSUME NEW w \in V, ~units[sup][w].kill_requested
      PROVE  Killed(sup, V)[Current(sup, w)].killed
  <2>1. Current(sup, w) \in Instances
    BY UnitFacts
  <2>2. IsKilledBy(Current(sup, w), sup, V)
    BY <1>5 DEF IsKilledBy
  <2> QED
    BY <1>3, <2>1, <2>2
<1> QED
  BY <1>1, <1>2, <1>3, <1>4, <1>5

\* Who is killed is a child, and of the generation that runs.
LEMMA VictimFacts ==
  ASSUME TypeOK, NEW sup \in SupervisorInstances, NEW V \in SUBSET WorkersOf(sup),
         NEW p \in Instances, IsKilledBy(p, sup, V)
  PROVE  p # sup /\ p # <<>> /\ Parent(p) = sup
  BY UnitFacts DEF IsKilledBy

-----------------------------------------------------------------------------
(* The steps that change only who takes them. *)

AliveStates == {"starting", "running", "terminating", "reaping", "exiting"}

LEMMA OwnStep ==
  ASSUME IInv, NEW actor \in Instances, IsAlive(actor), NEW life \in Life,
         exec' = [exec EXCEPT ![actor] = life], units' = units,
         executor_type' = executor_type,
         life.state \in AliveStates => life.killed = exec[actor].killed,
         life.state # "none",
         life.state = "starting" => exec[actor].state = "starting",
         actor \in SupervisorInstances
            => \/ life.state \in AliveStates \ {"exiting"}
               \/ life.state = exec[actor].state
               \/ AlivesOf(actor) = {}
  PROVE  IInv' /\ ActsAt(actor)
<1> USE DEF AliveStates
<1>1. exec' \in [Instances -> Life] /\ exec'[actor] = life
      /\ \A p \in Instances \ {actor} : exec'[p] = exec[p]
  BY DEF IInv, TypeOK
<1>2. TypeOK'
  BY <1>1 DEF IInv, TypeOK
<1>3. ActsAt(actor)
  BY <1>1 DEF ActsAt, IsAlive
<1>4. ASSUME actor \in SupervisorInstances
      PROVE  Family(actor)'
  <2> SUFFICES ASSUME NEW w \in WorkersOf(actor), NEW g \in GenerationsOf(w)
               PROVE  Kin(actor, w, g)'
    BY DEF Family
  <2> DEFINE c == Child(actor, w, g)
  <2>1. c \in Instances /\ c # actor
    BY <1>4, ChildFacts
  <2>2. exec'[c] = exec[c] /\ c = Child(actor, w, g)
    BY <1>1, <2>1
  <2> HIDE DEF c
  <2>3. Kin(actor, w, g)
    BY <1>4 DEF IInv, Family
  <2>4. FutureIsIdle(actor, w, g)' /\ PastIsOver(actor, w, g)' /\ RequestLands(actor, w, g)'
    BY <2>2, <2>3 DEF Kin, FutureIsIdle, PastIsOver, RequestLands, IsAlive, Idle
  <2>5. UnbootedIsFresh(actor, w, g)'
    BY <1>1, <2>2, <2>3 DEF Kin, UnbootedIsFresh, Idle, NewUnit
  <2>6. OrphanIsKilled(actor, w, g)'
    <3>1. CASE life.state \in AliveStates \ {"exiting"}
      BY <1>1, <3>1 DEF OrphanIsKilled, IsAlive
    <3>2. CASE AlivesOf(actor) = {}
      <4>1. Child(actor, w, units[actor][w].restart_count) = Current(actor, w)
            /\ ~IsAlive(Current(actor, w))
        BY <3>2, CurrentIsChild DEF AlivesOf
      <4>2. ~IsAlive(Child(actor, w, g))
        <5>1. units[actor][w].restart_count \in Nat /\ g \in Nat
          BY <1>4, UnitFacts, GenerationFacts DEF IInv, GenerationsOf
        <5>2. CASE g = units[actor][w].restart_count
          BY <4>1, <5>2
        <5>3. CASE g < units[actor][w].restart_count
          BY <2>3, <5>3 DEF Kin, PastIsOver
        <5>4. CASE g > units[actor][w].restart_count
          BY <2>3, <5>4 DEF Kin, FutureIsIdle, IsAlive, Idle
        <5> QED
          BY <5>1, <5>2, <5>3, <5>4
      <4> QED
        BY <2>2, <4>2 DEF OrphanIsKilled, IsAlive
    <3>3. CASE life.state = exec[actor].state
      BY <1>1, <2>2, <2>3, <3>3 DEF Kin, OrphanIsKilled, IsAlive
    <3> QED
      BY <1>4, <3>1, <3>2, <3>3
  <2> QED
    BY <2>4, <2>5, <2>6 DEF Kin
<1> QED
  BY <1>2, <1>3, <1>4, ActorKeepsTheInvariant

LEMMA StopRequestedStep ==
  ASSUME IInv, NEW sup \in SupervisorInstances, StopRequested(sup)
  PROVE  IInv' /\ ActsAt(sup)
<1> DEFINE life == [exec[sup] EXCEPT !.state = "terminating"]
<1>1. exec[sup] \in Life /\ sup \in Instances
  BY UnitFacts DEF IInv
<1>2. life \in Life /\ life.state = "terminating" /\ life.killed = exec[sup].killed
  BY <1>1 DEF Life, States
<1>3. exec' = [exec EXCEPT ![sup] = life] /\ units' = units /\ executor_type' = executor_type
      /\ IsAlive(sup)
  BY DEF StopRequested, IsAlive
<1> HIDE DEF life
<1> QED
  BY <1>1, <1>2, <1>3, OwnStep DEF AliveStates

LEMMA CompleteStep ==
  ASSUME IInv, NEW sup \in SupervisorInstances, Complete(sup)
  PROVE  IInv' /\ ActsAt(sup)
<1> DEFINE life == [exec[sup] EXCEPT !.state = "terminating"]
<1>1. exec[sup] \in Life /\ sup \in Instances
  BY UnitFacts DEF IInv
<1>2. life \in Life /\ life.state = "terminating" /\ life.killed = exec[sup].killed
  BY <1>1 DEF Life, States
<1>3. exec' = [exec EXCEPT ![sup] = life] /\ units' = units /\ executor_type' = executor_type
      /\ IsAlive(sup)
  BY DEF Complete, IsAlive
<1> HIDE DEF life
<1> QED
  BY <1>1, <1>2, <1>3, OwnStep DEF AliveStates

LEMMA GiveUpStep ==
  ASSUME IInv, NEW sup \in SupervisorInstances, GiveUp(sup)
  PROVE  IInv' /\ ActsAt(sup)
<1> DEFINE life == [exec[sup] EXCEPT !.state = "reaping"]
<1>1. exec[sup] \in Life /\ sup \in Instances
  BY UnitFacts DEF IInv
<1>2. life \in Life /\ life.state = "reaping" /\ life.killed = exec[sup].killed
  BY <1>1 DEF Life, States
<1>3. exec' = [exec EXCEPT ![sup] = life] /\ units' = units /\ executor_type' = executor_type
      /\ IsAlive(sup)
  BY DEF GiveUp, IsAlive
<1> HIDE DEF life
<1> QED
  BY <1>1, <1>2, <1>3, OwnStep DEF AliveStates

\* An instance that has ended is neither alive nor to be started again.
LEMMA EndedFacts ==
  ASSUME NEW how \in {"stopped", "unheard", "crashed", "dead"}
  PROVE  /\ Ended(how) \in Life /\ Ended(how).state = how
         /\ Ended(how).state \notin AliveStates /\ Ended(how).state # "none"
  BY DEF Ended, Idle, Life, States, AliveStates

LEMMA ShutdownCompleteStep ==
  ASSUME IInv, NEW sup \in SupervisorInstances, ShutdownComplete(sup)
  PROVE  IInv' /\ ActsAt(sup)
<1>1. exec[sup] \in Life /\ sup \in Instances
  BY UnitFacts DEF IInv
<1>2. PICK how \in {"stopped", "unheard", "crashed"} : exec' = [exec EXCEPT ![sup] = Ended(how)]
  BY DEF ShutdownComplete
<1>3. units' = units /\ executor_type' = executor_type /\ IsAlive(sup) /\ AlivesOf(sup) = {}
  BY DEF ShutdownComplete, IsAlive
<1>4. Ended(how) \in Life /\ Ended(how).state \notin AliveStates /\ Ended(how).state # "none"
  BY EndedFacts
<1> QED
  BY <1>1, <1>2, <1>3, <1>4, OwnStep DEF AliveStates

LEMMA ExitStep ==
  ASSUME IInv, NEW sup \in SupervisorInstances, Exit(sup)
  PROVE  IInv' /\ ActsAt(sup)
<1>1. exec[sup] \in Life /\ sup \in Instances
  BY UnitFacts DEF IInv
<1>2. units' = units /\ executor_type' = executor_type /\ IsAlive(sup) /\ AlivesOf(sup) = {}
      /\ exec' = [exec EXCEPT ![sup] = Ended("dead")]
  BY DEF Exit, IsAlive
<1>3. Ended("dead") \in Life /\ Ended("dead").state \notin AliveStates /\ Ended("dead").state # "none"
  BY EndedFacts
<1> QED
  BY <1>1, <1>2, <1>3, OwnStep DEF AliveStates

LEMMA LeafStep ==
  ASSUME IInv, NEW leaf \in Leaves, LeafEnds(leaf) \/ LeafDies(leaf)
  PROVE  IInv' /\ ActsAt(leaf)
<1>1. leaf \in Instances /\ leaf \notin SupervisorInstances
  BY DEF Leaves
<1>2. PICK how \in {"stopped", "dead"} : exec' = [exec EXCEPT ![leaf] = Ended(how)]
  BY DEF LeafEnds, LeafDies
<1>3. units' = units /\ executor_type' = executor_type /\ IsAlive(leaf)
  BY DEF LeafEnds, LeafDies, IsAlive
<1>4. Ended(how) \in Life /\ Ended(how).state \notin AliveStates /\ Ended(how).state # "none"
  BY EndedFacts
<1> QED
  BY <1>1, <1>2, <1>3, <1>4, OwnStep DEF AliveStates

LEMMA ExitSignalStep ==
  ASSUME IInv, ExitSignal
  PROVE  IInv' /\ ActsAt(<<>>)
<1> DEFINE life == [exec[<<>>] EXCEPT !.term = TRUE]
<1>1. exec[<<>>] \in Life /\ <<>> \in Instances /\ <<>> \in SupervisorInstances
  BY UnitFacts, TopIsInstance DEF IInv
<1>2. life \in Life /\ life.state = exec[<<>>].state /\ life.killed = exec[<<>>].killed
  BY <1>1 DEF Life, States
<1>3. exec' = [exec EXCEPT ![<<>>] = life] /\ units' = units /\ executor_type' = executor_type
      /\ IsAlive(<<>>)
  BY DEF ExitSignal
<1> HIDE DEF life
<1> QED
  BY <1>1, <1>2, <1>3, OwnStep DEF AliveStates, IsAlive

-----------------------------------------------------------------------------
(* The steps of a supervisor that reach its units. *)

\* The child that runs is the one of the unit's generation.
LEMMA CurrentMeaning ==
  ASSUME TypeOK, NEW sup \in SupervisorInstances, NEW w \in WorkersOf(sup),
         NEW g \in GenerationsOf(w), NEW v \in WorkersOf(sup)
  PROVE  Child(sup, w, g) = Current(sup, v) <=> v = w /\ g = units[sup][w].restart_count
BY UnitFacts, ChildFacts, CurrentIsChild

LEMMA VictimMeaning ==
  ASSUME TypeOK, NEW sup \in SupervisorInstances, NEW V \in SUBSET WorkersOf(sup),
         NEW w \in WorkersOf(sup), NEW g \in GenerationsOf(w)
  PROVE  IsKilledBy(Child(sup, w, g), sup, V) <=>
            w \in V /\ g = units[sup][w].restart_count /\ ~units[sup][w].kill_requested
BY CurrentMeaning DEF IsKilledBy

LEMMA BootStep ==
  ASSUME IInv, NEW sup \in SupervisorInstances, Boot(sup)
  PROVE  IInv' /\ ActsAt(sup)
<1>1. TypeOK /\ sup \in Instances /\ exec[sup] \in Life /\ exec[sup].state = "starting"
      /\ units' = units /\ executor_type' = executor_type
  BY UnitFacts DEF IInv, Boot
<1> DEFINE IsBooted(p) == \E w \in WorkersOf(sup) : p = Current(sup, w)
<1>2. ASSUME NEW p \in Instances
      PROVE  /\ p = sup => exec'[p] = [exec[p] EXCEPT !.state = "running"]
             /\ p # sup /\ IsBooted(p) => exec'[p] = Started(p)
             /\ p # sup /\ ~IsBooted(p) => exec'[p] = exec[p]
  BY DEF Boot
<1>3. ASSUME NEW p \in Instances, IsBooted(p)
      PROVE  p # sup /\ p # <<>> /\ Parent(p) = sup /\ exec[p] = Idle
  <2>1. PICK w \in WorkersOf(sup) : p = Current(sup, w)
    BY <1>3
  <2>2. p # sup /\ p # <<>> /\ Parent(p) = sup
    BY <1>1, <2>1, UnitFacts
  <2>3. units[sup][w].restart_count \in GenerationsOf(w)
        /\ p = Child(sup, w, units[sup][w].restart_count)
    BY <1>1, <2>1, UnitFacts, CurrentIsChild
  <2>4. Kin(sup, w, units[sup][w].restart_count)
    BY <2>3 DEF IInv, Family
  <2> QED
    BY <1>1, <2>2, <2>3, <2>4 DEF Kin, UnbootedIsFresh
<1>4. ASSUME NEW p \in Instances
      PROVE  exec'[p] \in Life
  <2>1. exec[p] \in Life /\ Started(p) \in Life
    BY <1>1 DEF TypeOK, Started, Idle, Life, States
  <2> QED
    BY <1>2, <1>3, <2>1 DEF Life, States
<1>5. TypeOK'
  <2>1. exec' \in [Instances -> Life]
    BY <1>4 DEF Boot
  <2> QED
    BY <1>1, <2>1 DEF TypeOK
<1>6. exec'[sup].state = "running" /\ exec'[sup].killed = exec[sup].killed
  BY <1>1, <1>2 DEF Life, States
<1>7. ActsAt(sup)
  <2>1. ASSUME NEW p \in Instances \ {sup}, exec'[p] # exec[p]
        PROVE  /\ p # <<>> /\ Parent(p) = sup
               /\ p \in SupervisorInstances =>
                    exec[p].state = "none" /\ exec'[p].state = "starting"
    <3>1. IsBooted(p)
      BY <1>2, <2>1
    <3>2. exec'[p] = Started(p) /\ exec[p] = Idle
      BY <1>2, <1>3, <3>1
    <3> QED
      BY <1>3, <3>1, <3>2 DEF Started, Idle
  <2> QED
    BY <1>1, <1>6, <2>1 DEF ActsAt, IsAlive
<1>8. Family(sup)'
  <2> SUFFICES ASSUME NEW w \in WorkersOf(sup), NEW g \in GenerationsOf(w)
               PROVE  Kin(sup, w, g)'
    BY DEF Family
  <2> DEFINE c == Child(sup, w, g)
  <2>1. c \in Instances /\ c # sup
    BY ChildFacts
  <2>2. Kin(sup, w, g) /\ units[sup][w] = NewUnit /\ exec[c] = Idle
    BY <1>1 DEF IInv, Family, Kin, UnbootedIsFresh
  <2>3. IsBooted(c) <=> g = 0
    BY <1>1, <2>2, CurrentMeaning DEF NewUnit
  <2>4. (g = 0 => exec'[c] = Started(c)) /\ (g # 0 => exec'[c] = Idle)
    BY <1>2, <2>1, <2>2, <2>3
  <2>5. c = Child(sup, w, g) /\ g \in Nat
    BY GenerationFacts DEF GenerationsOf
  <2> HIDE DEF c
  <2> QED
    BY <1>1, <1>6, <2>2, <2>4, <2>5
       DEF Kin, FutureIsIdle, PastIsOver, UnbootedIsFresh, RequestLands, OrphanIsKilled,
           NewUnit, IsAlive
<1> QED
  BY <1>1, <1>5, <1>7, <1>8, ActorKeepsTheInvariant

LEMMA BootFailsStep ==
  ASSUME IInv, NEW sup \in SupervisorInstances, BootFails(sup)
  PROVE  IInv' /\ ActsAt(sup)
<1>1. TypeOK /\ sup \in Instances /\ exec[sup] \in Life /\ exec[sup].state = "starting"
      /\ executor_type' = executor_type
  BY UnitFacts DEF IInv, BootFails
<1>2. PICK V \in SUBSET WorkersOf(sup) :
        /\ units' = [units EXCEPT ![sup] = UnitsKilled(sup, V)]
        /\ exec' = [path \in Instances |->
            IF path = sup
            THEN OnException(sup)
            ELSE IF \E w \in V : path = Current(sup, w)
            THEN [Started(path) EXCEPT !.killed = TRUE]
            ELSE exec[path]]
  BY DEF BootFails
<1> DEFINE IsBooted(p) == \E w \in V : p = Current(sup, w)
<1>3. ASSUME NEW p \in Instances
      PROVE  /\ p = sup => exec'[p] = OnException(sup)
             /\ p # sup /\ IsBooted(p) => exec'[p] = [Started(p) EXCEPT !.killed = TRUE]
             /\ p # sup /\ ~IsBooted(p) => exec'[p] = exec[p]
  BY <1>2
<1>4. ASSUME NEW p \in Instances, IsBooted(p)
      PROVE  p # sup /\ p # <<>> /\ Parent(p) = sup /\ exec[p] = Idle
  <2>1. PICK w \in WorkersOf(sup) : p = Current(sup, w)
    BY <1>4
  <2>2. p # sup /\ p # <<>> /\ Parent(p) = sup
    BY <1>1, <2>1, UnitFacts
  <2>3. units[sup][w].restart_count \in GenerationsOf(w)
        /\ p = Child(sup, w, units[sup][w].restart_count)
    BY <1>1, <2>1, UnitFacts, CurrentIsChild
  <2>4. Kin(sup, w, units[sup][w].restart_count)
    BY <2>3 DEF IInv, Family
  <2> QED
    BY <1>1, <2>2, <2>3, <2>4 DEF Kin, UnbootedIsFresh
<1>5. /\ OnException(sup) \in Life /\ OnException(sup).state \in {"exiting", "dead"}
      /\ OnException(sup).state = "exiting" => OnException(sup).killed = exec[sup].killed
  <2>1. Ended("dead") \in Life /\ Ended("dead").state = "dead"
    BY EndedFacts
  <2>2. DEFINE e == [exec[sup] EXCEPT !.state = "exiting"]
  <2>3. e \in Life /\ e.state = "exiting" /\ e.killed = exec[sup].killed
    BY <1>1 DEF Life, States
  <2> QED
    BY <2>1, <2>3 DEF OnException
<1>6. ASSUME NEW p \in Instances
      PROVE  exec'[p] \in Life
  <2>1. exec[p] \in Life /\ [Started(p) EXCEPT !.killed = TRUE] \in Life
    BY <1>1 DEF TypeOK, Started, Idle, Life, States
  <2> QED
    BY <1>3, <1>5, <2>1
<1>7. UnitsKilled(sup, V) \in [WorkersOf(sup) -> UnitType]
      /\ \A w \in WorkersOf(sup) :
            UnitsKilled(sup, V)[w].restart_count = units[sup][w].restart_count
  BY <1>1, KillingFacts
<1>8. units'[sup] = UnitsKilled(sup, V) /\ DOMAIN units' = SupervisorInstances
      /\ \A t \in SupervisorInstances \ {sup} : units'[t] = units[t]
  BY <1>1, <1>2 DEF TypeOK
<1>9. TypeOK'
  <2>1. exec' \in [Instances -> Life]
    BY <1>2, <1>6
  <2>2. ASSUME NEW t \in SupervisorInstances
        PROVE  /\ units'[t] \in [WorkersOf(t) -> UnitType]
               /\ \A w \in WorkersOf(t) : units'[t][w].restart_count \in GenerationsOf(w)
    BY <1>1, <1>7, <1>8 DEF TypeOK
  <2> QED
    BY <1>1, <1>8, <2>1, <2>2 DEF TypeOK
<1>10. ActsAt(sup)
  <2>1. ASSUME NEW p \in Instances \ {sup}, exec'[p] # exec[p]
        PROVE  /\ p # <<>> /\ Parent(p) = sup
               /\ p \in SupervisorInstances =>
                    exec[p].state = "none" /\ exec'[p].state = "starting"
    <3>1. IsBooted(p)
      BY <1>3, <2>1
    <3>2. exec'[p] = [Started(p) EXCEPT !.killed = TRUE] /\ exec[p] = Idle
      BY <1>3, <1>4, <3>1
    <3> QED
      BY <1>4, <3>1, <3>2 DEF Started, Idle
  <2>2. exec'[sup] = OnException(sup)
    BY <1>1, <1>3
  <2> QED
    BY <1>1, <1>5, <1>8, <2>1, <2>2 DEF ActsAt, IsAlive
<1>11. Family(sup)'
  <2> SUFFICES ASSUME NEW w \in WorkersOf(sup), NEW g \in GenerationsOf(w)
               PROVE  Kin(sup, w, g)'
    BY DEF Family
  <2> DEFINE c == Child(sup, w, g)
  <2>1. c \in Instances /\ c # sup
    BY ChildFacts
  <2>2. Kin(sup, w, g) /\ units[sup][w] = NewUnit /\ exec[c] = Idle
    BY <1>1 DEF IInv, Family, Kin, UnbootedIsFresh
  <2>3. IsBooted(c) <=> g = 0 /\ w \in V
    BY <1>1, <2>2, CurrentMeaning DEF NewUnit
  <2>4. (IsBooted(c) => g = 0 /\ exec'[c] = [Started(c) EXCEPT !.killed = TRUE])
        /\ (~IsBooted(c) => exec'[c] = Idle)
    BY <1>3, <2>1, <2>2, <2>3
  <2>5. IsBooted(c) => exec'[c].killed
    BY <2>4 DEF Started, Idle
  <2>6. c = Child(sup, w, g) /\ g \in Nat /\ units'[sup][w].restart_count = 0
    BY <1>7, <1>8, <2>2, GenerationFacts DEF GenerationsOf, NewUnit
  <2>7. exec'[sup].state \in {"exiting", "dead"}
    BY <1>1, <1>3, <1>5
  <2> HIDE DEF c, IsBooted
  <2>8. ~IsBooted(c) => ~IsAlive(c)'
    BY <2>4 DEF IsAlive, Idle
  <2> QED
    BY <2>4, <2>5, <2>6, <2>7, <2>8
       DEF Kin, FutureIsIdle, PastIsOver, UnbootedIsFresh, RequestLands, OrphanIsKilled
<1> QED
  BY <1>1, <1>9, <1>10, <1>11, ActorKeepsTheInvariant

\* Steps that kill some of the units that are alive, all of them if the supervisor goes.
KillsAt(sup, V) ==
    /\ IsAlive(sup) /\ V \subseteq AlivesOf(sup)
    /\ units' = [units EXCEPT ![sup] = UnitsKilled(sup, V)] /\ executor_type' = executor_type
    /\ exec' \in [Instances -> Life]
    /\ exec'[sup].state \notin {"none", "starting"}
    /\ exec'[sup].state \in AliveStates => exec'[sup].killed = exec[sup].killed
    /\ exec'[sup].state \notin AliveStates \ {"exiting"} => V = AlivesOf(sup)
    /\ \A p \in Instances \ {sup} :
            /\ exec'[p].state = exec[p].state
            /\ exec'[p].killed <=> exec[p].killed \/ IsKilledBy(p, sup, V)
            /\ exec'[p] # exec[p] =>
                \E w \in WorkersOf(sup) : p = Current(sup, w) /\ IsAlive(p)

LEMMA KillingStep ==
  ASSUME IInv, NEW sup \in SupervisorInstances, NEW V, KillsAt(sup, V)
  PROVE  IInv' /\ ActsAt(sup)
<1> USE DEF KillsAt
<1>1. TypeOK /\ sup \in Instances /\ exec[sup] \in Life /\ V \in SUBSET WorkersOf(sup)
  BY UnitFacts DEF IInv, AlivesOf
<1>2. /\ UnitsKilled(sup, V) \in [WorkersOf(sup) -> UnitType]
      /\ \A w \in WorkersOf(sup) :
            /\ UnitsKilled(sup, V)[w].restart_count = units[sup][w].restart_count
            /\ UnitsKilled(sup, V)[w].kill_requested =>
                    units[sup][w].kill_requested \/ w \in V
  BY <1>1, KillingFacts
<1>3. units'[sup] = UnitsKilled(sup, V) /\ DOMAIN units' = SupervisorInstances
      /\ \A t \in SupervisorInstances \ {sup} : units'[t] = units[t]
  BY <1>1 DEF TypeOK
<1>4. TypeOK'
  <2>1. ASSUME NEW t \in SupervisorInstances
        PROVE  /\ units'[t] \in [WorkersOf(t) -> UnitType]
               /\ \A w \in WorkersOf(t) : units'[t][w].restart_count \in GenerationsOf(w)
    BY <1>1, <1>2, <1>3 DEF TypeOK
  <2> QED
    BY <1>1, <1>3, <2>1 DEF TypeOK
<1>5. ActsAt(sup)
  <2>1. ASSUME NEW p \in Instances \ {sup}, exec'[p] # exec[p]
        PROVE  p # <<>> /\ Parent(p) = sup /\ exec'[p].state = exec[p].state
    BY <1>1, <2>1, UnitFacts
  <2> QED
    BY <1>1, <1>3, <2>1 DEF ActsAt, IsAlive, AliveStates
<1>6. Family(sup)'
  <2> SUFFICES ASSUME NEW w \in WorkersOf(sup), NEW g \in GenerationsOf(w)
               PROVE  Kin(sup, w, g)'
    BY DEF Family
  <2> DEFINE c == Child(sup, w, g)
             rc == units[sup][w].restart_count
  <2>1. c \in Instances /\ c # sup
    BY ChildFacts
  <2>2. Kin(sup, w, g) /\ units'[sup][w].restart_count = rc
        /\ (units'[sup][w].kill_requested => units[sup][w].kill_requested \/ w \in V)
    BY <1>2, <1>3 DEF IInv, Family
  <2>3. rc \in Nat /\ g \in Nat
    BY <1>1, UnitFacts, GenerationFacts DEF GenerationsOf
  <2>4. g # rc => exec'[c] = exec[c]
    <3>1. ASSUME exec'[c] # exec[c]
          PROVE  g = rc
      <4>1. PICK v \in WorkersOf(sup) : c = Current(sup, v)
        BY <2>1, <3>1
      <4> QED
        BY <1>1, <4>1, CurrentMeaning
    <3> QED
      BY <3>1
  <2>5. exec'[c].state = exec[c].state /\ (exec[c].killed => exec'[c].killed)
    BY <2>1
  <2>6. w \in V /\ g = rc /\ ~units[sup][w].kill_requested => exec'[c].killed
    BY <1>1, <2>1, VictimMeaning
  <2>7. w \notin AlivesOf(sup) /\ g = rc => ~IsAlive(c)
    BY CurrentIsChild DEF AlivesOf
  <2>8. c = Child(sup, w, g) /\ rc = units[sup][w].restart_count
    OBVIOUS
  <2> HIDE DEF c, rc
  <2>9. FutureIsIdle(sup, w, g)'
    BY <2>2, <2>3, <2>4, <2>8 DEF Kin, FutureIsIdle, Idle
  <2>10. PastIsOver(sup, w, g)'
    BY <2>2, <2>3, <2>5, <2>8 DEF Kin, PastIsOver, IsAlive
  <2>11. UnbootedIsFresh(sup, w, g)'
    BY DEF UnbootedIsFresh
  <2>12. RequestLands(sup, w, g)'
    BY <2>2, <2>5, <2>6, <2>8 DEF Kin, RequestLands, IsAlive
  <2>13. OrphanIsKilled(sup, w, g)'
    <3> SUFFICES ASSUME exec'[sup].state \notin AliveStates \ {"exiting"},
                        exec'[c].state \in AliveStates
                 PROVE  exec'[c].killed
      BY <2>8 DEF OrphanIsKilled, IsAlive, AliveStates
    <3>1. IsAlive(c)
      BY <2>5 DEF IsAlive, AliveStates
    <3>2. g = rc
      <4>1. g >= rc
        BY <2>2, <2>3, <2>8, <3>1 DEF Kin, PastIsOver
      <4>2. g <= rc
        BY <2>2, <2>3, <2>8, <3>1 DEF Kin, FutureIsIdle, IsAlive, Idle
      <4> QED
        BY <2>3, <4>1, <4>2
    <3>3. w \in V
      BY <2>7, <3>1, <3>2
    <3>4. CASE units[sup][w].kill_requested
      BY <2>2, <2>5, <2>8, <3>1, <3>2, <3>4 DEF Kin, RequestLands
    <3> QED
      BY <2>6, <3>2, <3>3, <3>4
  <2> QED
    BY <2>9, <2>10, <2>11, <2>12, <2>13 DEF Kin
<1> QED
  BY <1>1, <1>4, <1>5, <1>6, ActorKeepsTheInvariant

LEMMA KillLingeringKills ==
  ASSUME IInv, NEW sup \in SupervisorInstances, NEW w \in WorkersOf(sup), KillLingering(sup, w)
  PROVE  KillsAt(sup, {w})
<1> DEFINE V == {w}
<1>1. TypeOK /\ sup \in Instances /\ V \in SUBSET AlivesOf(sup) /\ V \in SUBSET WorkersOf(sup)
  BY UnitFacts DEF IInv, AlivesOf, KillLingering
<1>2. /\ units' = [units EXCEPT ![sup] = UnitsKilled(sup, V)] /\ exec' = Killed(sup, V)
      /\ executor_type' = executor_type /\ exec[sup].state = "running"
  BY DEF KillLingering, Kill
<1>7. V = {w}
  OBVIOUS
<1> HIDE DEF V
<1>3. /\ exec' \in [Instances -> Life]
      /\ \A p \in Instances :
              /\ exec'[p].state = exec[p].state
              /\ exec[p].killed => exec'[p].killed
              /\ ~IsKilledBy(p, sup, V) => exec'[p] = exec[p]
  BY <1>1, <1>2, KillingFacts
<1>4. ASSUME NEW p \in Instances, IsKilledBy(p, sup, V)
      PROVE  /\ exec'[p].killed
             /\ \E v \in WorkersOf(sup) : p = Current(sup, v) /\ IsAlive(p)
  <2>1. PICK v \in V : p = Current(sup, v) /\ ~units[sup][v].kill_requested
    BY <1>4 DEF IsKilledBy
  <2>2. exec'[p].killed
    BY <1>1, <1>2, <2>1, KillingFacts
  <2> QED
    BY <1>1, <2>1, <2>2 DEF AlivesOf
<1>5. \A p \in Instances \ {sup} :
            /\ exec'[p].state = exec[p].state
            /\ exec'[p].killed <=> exec[p].killed \/ IsKilledBy(p, sup, V)
            /\ exec'[p] # exec[p] =>
                \E v \in WorkersOf(sup) : p = Current(sup, v) /\ IsAlive(p)
  BY <1>3, <1>4
<1>6. IsAlive(sup) /\ exec'[sup].state = "running" /\ exec'[sup].killed = exec[sup].killed
  <2>1. ~IsKilledBy(sup, sup, V)
    BY <1>1, VictimFacts
  <2> QED
    BY <1>1, <1>2, <1>3, <2>1 DEF IsAlive
<1> QED
  BY <1>1, <1>2, <1>3, <1>5, <1>6, <1>7 DEF AliveStates, KillsAt

\* An exception ends a supervisor that has booted.
LEMMA AbortKills ==
  ASSUME IInv, NEW sup \in SupervisorInstances, IsAlive(sup), Abort(sup)
  PROVE  KillsAt(sup, AlivesOf(sup))
<1> DEFINE V == AlivesOf(sup)
<1>1. TypeOK /\ sup \in Instances /\ V \in SUBSET WorkersOf(sup) /\ exec[sup] \in Life
  BY UnitFacts DEF IInv, AlivesOf
<1>2. /\ units' = [units EXCEPT ![sup] = UnitsKilled(sup, V)]
      /\ exec' = [Killed(sup, V) EXCEPT ![sup] = OnException(sup)]
      /\ executor_type' = executor_type
  BY DEF Abort
<1>3. /\ OnException(sup) \in Life /\ OnException(sup).state \in {"exiting", "dead"}
      /\ OnException(sup).state = "exiting" => OnException(sup).killed = exec[sup].killed
  <2>1. Ended("dead") \in Life /\ Ended("dead").state = "dead"
    BY EndedFacts
  <2>2. DEFINE e == [exec[sup] EXCEPT !.state = "exiting"]
  <2>3. e \in Life /\ e.state = "exiting" /\ e.killed = exec[sup].killed
    BY <1>1 DEF Life, States
  <2> QED
    BY <2>1, <2>3 DEF OnException
<1>4. V = AlivesOf(sup)
  OBVIOUS
<1> HIDE DEF V
<1>5. /\ Killed(sup, V) \in [Instances -> Life]
      /\ \A p \in Instances :
              /\ Killed(sup, V)[p].state = exec[p].state
              /\ exec[p].killed => Killed(sup, V)[p].killed
              /\ ~IsKilledBy(p, sup, V) => Killed(sup, V)[p] = exec[p]
  BY <1>1, KillingFacts
<1>6. /\ exec' \in [Instances -> Life] /\ exec'[sup] = OnException(sup)
      /\ \A p \in Instances \ {sup} : exec'[p] = Killed(sup, V)[p]
  BY <1>1, <1>2, <1>3, <1>5
<1>7. ASSUME NEW p \in Instances, IsKilledBy(p, sup, V)
      PROVE  /\ Killed(sup, V)[p].killed
             /\ \E v \in WorkersOf(sup) : p = Current(sup, v) /\ IsAlive(p)
  <2>1. PICK v \in V : p = Current(sup, v) /\ ~units[sup][v].kill_requested
    BY <1>7 DEF IsKilledBy
  <2>2. Killed(sup, V)[p].killed
    BY <1>1, <2>1, KillingFacts
  <2> QED
    BY <1>1, <1>4, <2>1, <2>2 DEF AlivesOf
<1>8. \A p \in Instances \ {sup} :
            /\ exec'[p].state = exec[p].state
            /\ exec'[p].killed <=> exec[p].killed \/ IsKilledBy(p, sup, V)
            /\ exec'[p] # exec[p] =>
                \E v \in WorkersOf(sup) : p = Current(sup, v) /\ IsAlive(p)
  BY <1>5, <1>6, <1>7
<1>9. /\ exec'[sup].state \notin {"none", "starting"}
      /\ exec'[sup].state \in AliveStates => exec'[sup].killed = exec[sup].killed
      /\ V \in SUBSET AlivesOf(sup)
      /\ exec'[sup].state \notin AliveStates \ {"exiting"} => V = AlivesOf(sup)
  BY <1>3, <1>4, <1>6 DEF AliveStates
<1> QED
  BY <1>2, <1>4, <1>6, <1>8, <1>9 DEF KillsAt

LEMMA ShutdownPassKills ==
  ASSUME IInv, NEW sup \in SupervisorInstances, NEW V \in SUBSET AlivesOf(sup),
         ShutdownPass(sup, V)
  PROVE  KillsAt(sup, V)
<1>1. TypeOK /\ sup \in Instances /\ V \in SUBSET WorkersOf(sup) /\ exec[sup] \in Life
  BY UnitFacts DEF IInv, AlivesOf
<1> DEFINE IsTold(p) == p \in Stopped(sup) /\ IsAlive(p)
<1>2. /\ units' = [units EXCEPT ![sup] = UnitsKilled(sup, V)]
      /\ executor_type' = executor_type
      /\ exec[sup].state \in {"terminating", "reaping"}
      /\ exec' = [p \in Instances |-> [Killed(sup, V)[p] EXCEPT !.term = @ \/ IsTold(p)]]
  BY DEF ShutdownPass
<1>3. /\ Killed(sup, V) \in [Instances -> Life]
      /\ \A p \in Instances :
              /\ Killed(sup, V)[p].state = exec[p].state
              /\ exec[p].killed => Killed(sup, V)[p].killed
              /\ ~IsKilledBy(p, sup, V) => Killed(sup, V)[p] = exec[p]
  BY <1>1, KillingFacts
<1>4. ASSUME NEW p \in Instances
      PROVE  /\ exec'[p] \in Life
             /\ exec'[p].state = exec[p].state
             /\ exec'[p].killed = Killed(sup, V)[p].killed
             /\ ~IsTold(p) => exec'[p] = Killed(sup, V)[p]
  <2> DEFINE k == Killed(sup, V)[p]
  <2>1. k \in Life /\ exec'[p] = [k EXCEPT !.term = @ \/ IsTold(p)]
        /\ k.state = exec[p].state /\ k = Killed(sup, V)[p]
    BY <1>2, <1>3
  <2> HIDE DEF k
  <2>2. CASE IsTold(p)
    <3>1. exec'[p] = [k EXCEPT !.term = TRUE]
      BY <2>1, <2>2
    <3> QED
      BY <2>1, <2>2, <3>1 DEF Life
  <2>3. CASE ~IsTold(p)
    <3> HIDE DEF IsTold
    <3>1. exec'[p] = [k EXCEPT !.term = k.term]
      BY <2>1, <2>3 DEF Life
    <3>2. exec'[p] = k
      BY <2>1, <3>1 DEF Life
    <3> QED
      BY <2>1, <2>3, <3>2 DEF Life
  <2> QED
    BY <2>2, <2>3
<1>5. exec' \in [Instances -> Life]
  BY <1>2, <1>4
<1>6. ASSUME NEW p \in Instances, IsKilledBy(p, sup, V)
      PROVE  /\ exec'[p].killed
             /\ \E v \in WorkersOf(sup) : p = Current(sup, v) /\ IsAlive(p)
  <2>1. PICK v \in V : p = Current(sup, v) /\ ~units[sup][v].kill_requested
    BY <1>6 DEF IsKilledBy
  <2>2. Killed(sup, V)[p].killed
    BY <1>1, <2>1, KillingFacts
  <2> QED
    BY <1>1, <1>4, <2>1, <2>2 DEF AlivesOf
<1>7. ASSUME NEW p \in Instances, IsTold(p)
      PROVE  \E v \in WorkersOf(sup) : p = Current(sup, v) /\ IsAlive(p)
  BY <1>7 DEF Stopped
<1> HIDE DEF IsTold
<1>8. \A p \in Instances \ {sup} :
            /\ exec'[p].state = exec[p].state
            /\ exec'[p].killed <=> exec[p].killed \/ IsKilledBy(p, sup, V)
            /\ exec'[p] # exec[p] =>
                \E v \in WorkersOf(sup) : p = Current(sup, v) /\ IsAlive(p)
  BY <1>3, <1>4, <1>6, <1>7
<1>9. exec'[sup].state \in {"terminating", "reaping"} /\ exec'[sup].killed = exec[sup].killed
  <2>1. ~IsKilledBy(sup, sup, V)
    BY <1>1, VictimFacts
  <2> QED
    BY <1>1, <1>2, <1>3, <1>4, <2>1
<1>10. IsAlive(sup)
  BY <1>2 DEF IsAlive
<1> QED
  BY <1>1, <1>2, <1>5, <1>8, <1>9, <1>10 DEF AliveStates, KillsAt

LEMMA ReplaceStep ==
  ASSUME IInv, NEW sup \in SupervisorInstances, NEW w \in WorkersOf(sup), Replace(sup, w)
  PROVE  IInv' /\ ActsAt(sup)
<1> DEFINE rc == units[sup][w].restart_count
           next == Child(sup, w, rc + 1)
           unit == [restart_count |-> rc + 1, kill_requested |-> FALSE]
<1>1. TypeOK /\ sup \in Instances /\ exec[sup] \in Life /\ exec[sup].state = "running"
      /\ executor_type' = executor_type /\ ~IsAlive(Current(sup, w))
  BY UnitFacts DEF IInv, Replace
<1>2. rc \in Nat /\ rc + 1 \in GenerationsOf(w) /\ units[sup][w] \in UnitType
  <2>1. rc \in Nat /\ rc < QuotaOf(w) /\ QuotaOf(w) \in Nat
    BY <1>1, UnitFacts, GenerationFacts DEF Replace, Retryable, GenerationsOf
  <2> QED
    BY <1>1, <2>1, UnitFacts DEF GenerationsOf
<1>3. next \in Instances /\ next # sup /\ next # <<>> /\ Parent(next) = sup
  BY <1>2, ChildFacts
<1>4. Kin(sup, w, rc + 1) /\ Kin(sup, w, rc)
  BY <1>1, <1>2, UnitFacts DEF IInv, Family
<1>5. exec[next] = Idle
  BY <1>2, <1>4 DEF Kin, FutureIsIdle
<1>6. /\ exec' = [exec EXCEPT ![next] = Started(next)]
      /\ units' = [units EXCEPT ![sup] = [units[sup] EXCEPT ![w] = unit]]
  BY DEF Replace, Child
<1>7. unit \in UnitType
  BY <1>2 DEF UnitType
<1> HIDE DEF unit
<1>8. /\ exec'[next] = Started(next) /\ exec' \in [Instances -> Life]
      /\ \A p \in Instances \ {next} : exec'[p] = exec[p]
  <2>1. Started(next) \in Life
    BY DEF Started, Idle, Life, States
  <2> HIDE DEF next
  <2> QED
    BY <1>1, <1>3, <1>6, <2>1 DEF TypeOK
<1>9. /\ DOMAIN units' = SupervisorInstances
      /\ units'[sup] \in [WorkersOf(sup) -> UnitType]
      /\ units'[sup][w] = unit
      /\ \A v \in WorkersOf(sup) \ {w} : units'[sup][v] = units[sup][v]
      /\ \A t \in SupervisorInstances \ {sup} : units'[t] = units[t]
  BY <1>1, <1>6, <1>7 DEF TypeOK
<1>10. unit.restart_count = rc + 1 /\ ~unit.kill_requested
  BY DEF unit
<1>11. TypeOK'
  <2>1. ASSUME NEW t \in SupervisorInstances
        PROVE  /\ units'[t] \in [WorkersOf(t) -> UnitType]
               /\ \A v \in WorkersOf(t) : units'[t][v].restart_count \in GenerationsOf(v)
    BY <1>1, <1>2, <1>9, <1>10 DEF TypeOK
  <2> QED
    BY <1>1, <1>8, <1>9, <2>1 DEF TypeOK
<1>12. ActsAt(sup)
  <2>1. ASSUME NEW p \in Instances \ {sup}, exec'[p] # exec[p]
        PROVE  /\ p # <<>> /\ Parent(p) = sup
               /\ p \in SupervisorInstances =>
                    exec[p].state = "none" /\ exec'[p].state = "starting"
    <3>1. p = next
      BY <1>8, <2>1
    <3>2. p \in SupervisorInstances => exec'[p].state = "starting"
      BY <1>8, <3>1 DEF Started, Idle
    <3> QED
      BY <1>3, <1>5, <3>1, <3>2 DEF Idle
  <2>2. exec'[sup] = exec[sup]
    BY <1>1, <1>3, <1>8
  <2> QED
    BY <1>1, <1>9, <2>1, <2>2 DEF ActsAt, IsAlive
<1>13. Family(sup)'
  <2> SUFFICES ASSUME NEW v \in WorkersOf(sup), NEW g \in GenerationsOf(v)
               PROVE  Kin(sup, v, g)'
    BY DEF Family
  <2> DEFINE c == Child(sup, v, g)
  <2>1. c \in Instances /\ Kin(sup, v, g) /\ g \in Nat
    BY ChildFacts, GenerationFacts DEF IInv, Family, GenerationsOf
  <2>2. c = next <=> v = w /\ g = rc + 1
    BY <1>2, ChildFacts
  <2>3. c = Child(sup, v, g) /\ rc = units[sup][w].restart_count
    OBVIOUS
  <2>4. exec'[sup].state = "running"
    BY <1>1, <1>3, <1>8
  <2>5. v # w => units'[sup][v] = units[sup][v]
    BY <1>9
  <2>6. c # next => exec'[c] = exec[c]
    BY <1>8, <2>1
  <2>7. v = w /\ g = rc => ~IsAlive(c)
    BY <1>1, CurrentIsChild
  <2> HIDE DEF c, next, rc
  <2> USE <1>2, <1>9, <1>10, <2>1, <2>2, <2>3, <2>4, <2>5, <2>6, <2>7
  <2>8. CASE v # w
    BY <2>8 DEF Kin, FutureIsIdle, PastIsOver, UnbootedIsFresh, RequestLands, OrphanIsKilled,
                IsAlive, Idle
  <2>9. CASE v = w
    <3>1. FutureIsIdle(sup, v, g)'
      <4> SUFFICES ASSUME g > rc + 1
                   PROVE  exec'[c] = Idle
        BY <2>9 DEF FutureIsIdle, Idle
      <4>1. c # next /\ g > units[sup][v].restart_count
        BY <2>9
      <4>2. exec'[c] = exec[c]
        BY <4>1
      <4> QED
        BY <4>1, <4>2 DEF Kin, FutureIsIdle
    <3>2. PastIsOver(sup, v, g)'
      <4> SUFFICES ASSUME g <= rc
                   PROVE  ~IsAlive(c)'
        BY <2>9 DEF PastIsOver
      <4>1. exec'[c] = exec[c]
        OBVIOUS
      <4> QED
        BY <2>9, <4>1 DEF Kin, PastIsOver, IsAlive
    <3>3. UnbootedIsFresh(sup, v, g)'
      BY DEF UnbootedIsFresh
    <3>4. RequestLands(sup, v, g)'
      BY <2>9 DEF RequestLands
    <3>5. OrphanIsKilled(sup, v, g)'
      BY DEF OrphanIsKilled, IsAlive
    <3> QED
      BY <3>1, <3>2, <3>3, <3>4, <3>5 DEF Kin
  <2> QED
    BY <2>8, <2>9
<1> QED
  BY <1>1, <1>11, <1>12, <1>13, ActorKeepsTheInvariant

\* SIGKILL of a process, and its threads: what it had to pass on, if it has no processes
\* below, goes with it.
LEMMA VanishProcessStep ==
  ASSUME IInv, NEW top \in SupervisorInstances, VanishProcess(top)
  PROVE  IInv'
<1> DEFINE IsGone(p) == IsAlive(p) /\ (p = top \/ IsInProcessOf(p, top))
<1>1. TypeOK /\ top \in Instances /\ units' = units /\ executor_type' = executor_type
  BY UnitFacts DEF IInv, VanishProcess
<1>2. ASSUME NEW p \in Instances
      PROVE  /\ exec'[p] = IF IsGone(p) THEN Ended("dead") ELSE exec[p]
             /\ exec'[p] \in Life
  <2>1. exec'[p] = IF IsGone(p) THEN Ended("dead") ELSE exec[p]
    BY DEF VanishProcess
  <2> QED
    BY <1>1, <2>1, EndedFacts DEF TypeOK
<1>3. exec' \in [Instances -> Life]
  BY <1>2 DEF VanishProcess
<1>4. TypeOK'
  BY <1>1, <1>3 DEF TypeOK
<1>5. ASSUME NEW t \in SupervisorInstances, NEW c \in Instances, c # <<>>, Parent(c) = t,
             IsGone(t), IsAlive(c), NoProcessBelowProcess
      PROVE  IsGone(c)
  <2>1. top \in Seq(Names \X Generations) /\ c \in Seq(Names \X Generations)
        /\ Len(top) \in Nat /\ Len(c) \in Nat /\ t \in Instances
    BY <1>1, InstanceFacts DEF SupervisorInstances
  <2>2. Len(c) > 0 /\ t = SubSeq(c, 1, Len(c) - 1) /\ Len(t) = Len(c) - 1
        /\ \A i \in 0..Len(t) : SubSeq(t, 1, i) = SubSeq(c, 1, i)
    <3>1. Len(c) > 0 /\ t = SubSeq(c, 1, Len(c) - 1)
      BY <1>5, <2>1 DEF Parent
    <3>2. Len(c) - 1 \in 0..Len(c)
      BY <2>1, <3>1
    <3> QED
      BY <2>1, <3>1, <3>2, PrefixOfPrefix
  <2>3. Len(top) <= Len(t) /\ SubSeq(t, 1, Len(top)) = top
        /\ \A n \in Len(top)..(Len(t) - 1) :
                executor_type[NameOf(SubSeq(t, 1, n))] = "thread"
    <3>1. CASE t = top
      BY <2>1, <3>1
    <3>2. CASE IsInProcessOf(t, top)
      BY <2>1, <2>2, <3>2 DEF IsInProcessOf
    <3> QED
      BY <1>5, <3>1, <3>2
  <2>4. top # <<>> /\ Len(top) > 0 /\ executor_type[NameOf(SubSeq(top, 1, Len(top) - 1))] = "process"
    BY <2>1 DEF VanishProcess, RunsInProcess, Parent
  <2>5. SubSeq(c, 1, Len(top)) = top
    BY <2>1, <2>2, <2>3
  <2>6. SubSeq(top, 1, Len(top) - 1) = SubSeq(c, 1, Len(top) - 1)
    BY <2>1, <2>2, <2>3, <2>4, <2>5, PrefixOfPrefix
  <2>7. executor_type[NameOf(t)] = "thread"
    <3> DEFINE m == Len(top) - 1
               n == Len(c) - 1
    <3>1. m \in 0..Len(c) /\ n \in 0..Len(c) /\ m < n
      BY <2>1, <2>2, <2>3, <2>4
    <3>2. SubSeq(c, 1, n) \in SupervisorInstances /\ SubSeq(c, 1, n) = t
          /\ executor_type[NameOf(SubSeq(c, 1, m))] = "process"
      BY <2>2, <2>4, <2>6
    <3>3. executor_type \in ExecutorTypes
      BY <1>1 DEF TypeOK
    <3> HIDE DEF m, n
    <3> QED
      BY <1>5, <3>1, <3>2, <3>3 DEF NoProcessBelowProcess
  <2>8. ASSUME NEW n \in Len(top)..(Len(c) - 1)
        PROVE  executor_type[NameOf(SubSeq(c, 1, n))] = "thread"
    <3>1. CASE n = Len(c) - 1
      BY <2>2, <2>7, <3>1
    <3>2. CASE n < Len(c) - 1
      <4>1. n \in Len(top)..(Len(t) - 1) /\ n \in 0..Len(t)
        BY <2>1, <2>2, <3>2
      <4> QED
        BY <2>2, <2>3, <4>1
    <3> QED
      BY <2>1, <3>1, <3>2
  <2>9. Len(c) > Len(top)
    BY <2>1, <2>2, <2>3
  <2> QED
    BY <1>5, <2>5, <2>8, <2>9 DEF IsInProcessOf
<1>6. ASSUME NEW t \in SupervisorInstances, NEW w \in WorkersOf(t), NEW g \in GenerationsOf(w)
      PROVE  Kin(t, w, g)'
  <2> DEFINE c == Child(t, w, g)
  <2>1. c \in Instances /\ c # <<>> /\ Parent(c) = t /\ t \in Instances
    BY ChildFacts DEF SupervisorInstances
  <2>2. Kin(t, w, g) /\ c = Child(t, w, g)
    BY DEF IInv, Family
  <2>3. /\ IsGone(c) => IsAlive(c) /\ ~IsAlive(c)'
        /\ ~IsGone(c) => exec'[c] = exec[c]
    BY <1>2, <2>1, EndedFacts DEF IsAlive, AliveStates
  <2>4. /\ IsGone(t) => IsAlive(t) /\ exec'[t].state = "dead"
        /\ ~IsGone(t) => exec'[t] = exec[t]
    BY <1>2, <2>1, EndedFacts
  <2>5. NoProcessBelowProcess /\ IsGone(t) /\ IsAlive(c) => IsGone(c)
    BY <1>5, <2>1
  <2> HIDE DEF c, IsGone
  <2> USE <1>1, <2>2, <2>3, <2>4, <2>5
  <2>6. FutureIsIdle(t, w, g)' /\ PastIsOver(t, w, g)'
    BY DEF Kin, FutureIsIdle, PastIsOver, IsAlive, Idle
  <2>7. UnbootedIsFresh(t, w, g)'
    BY DEF Kin, UnbootedIsFresh, IsAlive, Idle
  <2>8. RequestLands(t, w, g)' /\ OrphanIsKilled(t, w, g)'
    BY DEF Kin, RequestLands, OrphanIsKilled, IsAlive
  <2> QED
    BY <2>6, <2>7, <2>8 DEF Kin
<1> QED
  BY <1>4, <1>6 DEF IInv, Family

-----------------------------------------------------------------------------
LEMMA InitIsInductive == Init => IInv
<1> SUFFICES ASSUME Init
             PROVE  IInv
  OBVIOUS
<1>1. ASSUME NEW p \in Instances
      PROVE  /\ p = <<>> => exec[p] = Started(p)
             /\ p # <<>> => exec[p] = Idle
             /\ exec[p] \in Life
  BY DEF Init, Started, Idle, Life, States
<1>2. ASSUME NEW t \in SupervisorInstances
      PROVE  /\ units[t] \in [WorkersOf(t) -> UnitType]
             /\ \A w \in WorkersOf(t) : units[t][w] = NewUnit
  BY DEF Init, NewUnit, UnitType
<1>3. TypeOK
  <2>1. exec \in [Instances -> Life]
    BY <1>1 DEF Init
  <2> QED
    BY <1>2, <2>1, GenerationFacts DEF Init, TypeOK, NewUnit
<1>4. ASSUME NEW t \in SupervisorInstances, NEW w \in WorkersOf(t), NEW g \in GenerationsOf(w)
      PROVE  Kin(t, w, g)
  <2>1. exec[Child(t, w, g)] = Idle
    BY <1>1, ChildFacts
  <2>2. g \in Nat /\ units[t][w] = NewUnit
    BY <1>2, GenerationFacts DEF GenerationsOf
  <2> QED
    BY <2>1, <2>2
       DEF Kin, FutureIsIdle, PastIsOver, UnbootedIsFresh, RequestLands, OrphanIsKilled,
           IsAlive, Idle, NewUnit
<1> QED
  BY <1>3, <1>4 DEF IInv, Family

LEMMA NextIsInductive ==
  ASSUME IInv, [Next]_vars
  PROVE  IInv'
<1>1. CASE UNCHANGED vars
  BY <1>1 DEF vars, IInv, TypeOK, Family, Kin, FutureIsIdle, PastIsOver, UnbootedIsFresh,
              RequestLands, OrphanIsKilled, IsAlive
<1>2. ASSUME NEW sup \in SupervisorInstances, Supervise(sup)
      PROVE  IInv'
  <2>1. CASE Boot(sup)
    BY <2>1, BootStep
  <2>2. CASE StopRequested(sup)
    BY <2>2, StopRequestedStep
  <2>3. CASE GiveUp(sup)
    BY <2>3, GiveUpStep
  <2>4. CASE Complete(sup)
    BY <2>4, CompleteStep
  <2>5. CASE ShutdownComplete(sup)
    BY <2>5, ShutdownCompleteStep
  <2>6. CASE Exit(sup)
    BY <2>6, ExitStep
  <2>7. CASE \E w \in WorkersOf(sup) : KillLingering(sup, w) \/ Replace(sup, w)
    BY <2>7, KillLingeringKills, KillingStep, ReplaceStep
  <2>8. CASE \E late \in SUBSET AlivesOf(sup) : ShutdownPass(sup, late)
    BY <2>8, ShutdownPassKills, KillingStep
  <2> QED
    BY <1>2, <2>1, <2>2, <2>3, <2>4, <2>5, <2>6, <2>7, <2>8 DEF Supervise
<1>3. ASSUME NEW sup \in SupervisorInstances, Fail(sup) \/ DieInLoop(sup)
      PROVE  IInv'
  BY <1>3, AbortKills, KillingStep DEF Fail, DieInLoop, IsAlive
<1> QED
  BY <1>1, <1>2, <1>3, BootFailsStep, VanishProcessStep, LeafStep, ExitSignalStep
     DEF Next, Terminated

LEMMA InvariantHolds == Spec => []IInv
<1>1. IInv /\ [Next]_vars => IInv'
  BY NextIsInductive
<1> QED
  BY <1>1, InitIsInductive, PTL DEF Spec

\* Whatever ended a supervisor of the tree, at any level and in any of its incarnations,
\* its units are gone or have been told to die.
THEOREM OrphansAreToldToDie ==
  ASSUME NoProcessBelowProcess
  PROVE  Spec => []OrphansAreDoomed
<1>1. IInv => OrphansAreDoomed
  <2> SUFFICES ASSUME IInv, NEW sup \in SupervisorInstances, ~IsAlive(sup),
                      NEW w \in AlivesOf(sup)
               PROVE  exec[Current(sup, w)].killed
    BY DEF OrphansAreDoomed
  <2>1. w \in WorkersOf(sup) /\ IsAlive(Current(sup, w))
    BY DEF AlivesOf
  <2>2. Kin(sup, w, units[sup][w].restart_count)
    BY <2>1, UnitFacts DEF IInv, Family
  <2> QED
    BY <2>1, <2>2, CurrentIsChild DEF Kin, OrphanIsKilled
<1> QED
  BY <1>1, InvariantHolds, PTL

-----------------------------------------------------------------------------
(* Of two incarnations of a worker, at most one means to go on. *)

LEMMA LeastElement ==
  ASSUME NEW S \in SUBSET Nat, S # {}
  PROVE  \E d \in S : \A u \in S : d <= u
<1> DEFINE R == OpToRel(<, Nat)
<1>1. \E d \in S : \A u \in S : ~(<<u, d>> \in R)
  <2> HIDE DEF R
  <2>1. IsWellFoundedOn(R, Nat)
    BY NatLessThanWellFounded DEF R
  <2> QED
    BY <2>1, WFMin
<1>2. \A u, d \in S : ~(<<u, d>> \in R) => d <= u
  BY DEF OpToRel
<1> QED
  BY <1>1, <1>2

\* The prefixes of an instance are the supervisors above it.
LEMMA AncestorFacts ==
  ASSUME NEW path \in Instances, NEW n \in 0..Len(path)
  PROVE  /\ SubSeq(path, 1, n) \in Instances
         /\ n < Len(path) => SubSeq(path, 1, n) \in SupervisorInstances
         /\ n < Len(path) => path[n + 1][1] \in WorkersOf(SubSeq(path, 1, n))
         /\ n < Len(path) => path[n + 1][2] \in GenerationsOf(path[n + 1][1])
         /\ n < Len(path) =>
                SubSeq(path, 1, n + 1) = Child(SubSeq(path, 1, n), path[n + 1][1], path[n + 1][2])
<1>1. path \in Seq(Names \X Generations) /\ Len(path) \in Nat /\ Len(path) <= MaxDepth
      /\ n \in Nat
  BY InstanceFacts
<1>2. \A i \in 1..Len(path) :
          /\ NameOf(SubSeq(path, 1, i - 1)) \in Supervisors
          /\ path[i][1] \in Tree[NameOf(SubSeq(path, 1, i - 1))]
          /\ path[i][2] <= QuotaOf(path[i][1])
  BY <1>1, InstanceMeaning
<1> DEFINE s == SubSeq(path, 1, n)
<1>3. /\ s \in Seq(Names \X Generations) /\ Len(s) = n
      /\ \A j \in 1..n : s[j] = path[j]
      /\ \A i \in 0..n : SubSeq(s, 1, i) = SubSeq(path, 1, i)
  BY <1>1, PrefixOfPrefix
<1> HIDE DEF s
<1>4. s \in Instances
  <2>1. ASSUME NEW i \in 1..Len(s)
        PROVE  /\ NameOf(SubSeq(s, 1, i - 1)) \in Supervisors
               /\ s[i][1] \in Tree[NameOf(SubSeq(s, 1, i - 1))]
               /\ s[i][2] <= QuotaOf(s[i][1])
    <3>1. i \in 1..Len(path) /\ i - 1 \in 0..n /\ i \in 1..n
      BY <1>1, <1>3
    <3>2. SubSeq(s, 1, i - 1) = SubSeq(path, 1, i - 1) /\ s[i] = path[i]
      BY <1>3, <3>1
    <3> QED
      BY <1>2, <3>1, <3>2
  <2>2. Len(s) <= MaxDepth
    BY <1>1, <1>3, TreeAssumption
  <2> QED
    BY <1>3, <2>1, <2>2, InstanceMeaning
<1>5. ASSUME n < Len(path)
      PROVE  /\ s \in SupervisorInstances
             /\ path[n + 1][1] \in WorkersOf(s)
             /\ path[n + 1][2] \in GenerationsOf(path[n + 1][1])
             /\ SubSeq(path, 1, n + 1) = Child(s, path[n + 1][1], path[n + 1][2])
  <2>1. n + 1 \in 1..Len(path) /\ (n + 1) - 1 = n
    BY <1>1, <1>5
  <2>2. path[n + 1] \in Names \X Generations
    BY <1>1, <2>1
  <2>3. /\ NameOf(s) \in Supervisors /\ path[n + 1][1] \in Tree[NameOf(s)]
        /\ path[n + 1][2] <= QuotaOf(path[n + 1][1])
    BY <1>2, <2>1 DEF s
  <2>4. path[n + 1][2] \in GenerationsOf(path[n + 1][1])
    BY <2>2, <2>3, GenerationFacts
  <2>5. path[n + 1] = <<path[n + 1][1], path[n + 1][2]>>
    BY <2>2
  <2>6. SubSeq(path, 1, n + 1) = Append(s, path[n + 1])
    <3> DEFINE l == SubSeq(path, 1, n + 1)
               r == Append(s, path[n + 1])
    <3>1. l \in Seq(Names \X Generations) /\ Len(l) = n + 1
          /\ \A j \in 1..(n + 1) : l[j] = path[j]
      <4>1. n + 1 \in 0..Len(path)
        BY <2>1
      <4> QED
        BY <1>1, <4>1, PrefixOfPrefix
    <3>2. r \in Seq(Names \X Generations) /\ Len(r) = n + 1
          /\ r[n + 1] = path[n + 1] /\ \A j \in 1..n : r[j] = s[j]
      BY <1>3, <2>2, PrefixOfAppend
    <3> HIDE DEF l, r
    <3>3. ASSUME NEW j \in 1..(n + 1)
          PROVE  l[j] = r[j]
      <4>1. CASE j = n + 1
        BY <3>1, <3>2, <4>1
      <4>2. CASE j # n + 1
        <5>1. j \in 1..n
          BY <1>1, <4>2
        <5> QED
          BY <1>3, <3>1, <3>2, <5>1
      <4> QED
        BY <4>1, <4>2
    <3>4. l = r
      BY <1>1, <3>1, <3>2, <3>3
    <3> QED
      BY <3>4 DEF l, r
  <2> QED
    BY <1>4, <2>3, <2>4, <2>5, <2>6 DEF SupervisorInstances, WorkersOf, Child
<1> QED
  BY <1>4, <1>5 DEF s

\* What lives below a supervisor that is gone is doomed: the last of those that are gone
\* has killed the one below it.
LEMMA DeadAboveDooms ==
  ASSUME NoProcessBelowProcess, IInv, NEW p \in Instances, IsAlive(p),
         NEW n \in 0..Len(p), ~IsAlive(SubSeq(p, 1, n))
  PROVE  IsDoomed(p)
<1> DEFINE gone == {k \in 0..Len(p) : ~IsAlive(SubSeq(p, 1, k))}
           back == {k \in Nat : k <= Len(p) /\ Len(p) - k \in gone}
<1>1. p \in Seq(Names \X Generations) /\ Len(p) \in Nat /\ n \in Nat /\ n <= Len(p)
  BY InstanceFacts
<1>2. Len(p) - n \in back
  BY <1>1
<1>3. PICK d \in back : \A u \in back : d <= u
  <2>1. back \in SUBSET Nat /\ back # {}
    BY <1>2
  <2> HIDE DEF back
  <2> QED
    BY <2>1, LeastElement
<1> DEFINE k == Len(p) - d
<1>4. d \in Nat /\ k \in 0..Len(p) /\ k \in gone
  BY <1>1, <1>3
<1>5. SubSeq(p, 1, Len(p)) = p
  BY <1>1
<1>6. k < Len(p)
  <2>1. k # Len(p)
    BY <1>4, <1>5
  <2> QED
    BY <1>1, <1>4, <2>1
<1>7. IsAlive(SubSeq(p, 1, k + 1))
  <2> SUFFICES ASSUME ~IsAlive(SubSeq(p, 1, k + 1))
               PROVE  FALSE
    OBVIOUS
  <2>1. k + 1 \in gone
    BY <1>1, <1>4, <1>6
  <2>2. d - 1 \in back
    BY <1>1, <1>4, <1>6, <2>1
  <2>3. d <= d - 1
    <3> HIDE DEF back
    <3> QED
      BY ONLY <1>3, <2>2
  <2>4. d \in Nat
    BY <1>4
  <2> QED
    BY ONLY <2>3, <2>4
<1> DEFINE t == SubSeq(p, 1, k)
           w == p[k + 1][1]
           g == p[k + 1][2]
<1>8. /\ t \in SupervisorInstances /\ w \in WorkersOf(t) /\ g \in GenerationsOf(w)
      /\ SubSeq(p, 1, k + 1) = Child(t, w, g)
  BY <1>4, <1>6, AncestorFacts
<1>9. ~IsAlive(t)
  BY <1>4
<1>10. k + 1 \in 0..Len(p)
  BY <1>1, <1>4, <1>6
<1> HIDE DEF t, w, g, k
<1>11. exec[SubSeq(p, 1, k + 1)].killed
  <2>1. Kin(t, w, g)
    BY <1>8 DEF IInv, Family
  <2> QED
    BY <1>7, <1>8, <1>9, <2>1 DEF Kin, OrphanIsKilled
<1> QED
  BY <1>10, <1>11 DEF IsDoomed

\* Only one of the generations of a unit is alive, or will ever be again.
LEMMA OneGenerationLives ==
  ASSUME IInv, NEW t \in SupervisorInstances, NEW w \in WorkersOf(t),
         NEW g \in GenerationsOf(w), NEW h \in GenerationsOf(w),
         IsAlive(Child(t, w, g)), IsAlive(Child(t, w, h))
  PROVE  g = h
<1>1. Kin(t, w, g) /\ Kin(t, w, h)
  BY DEF IInv, Family
<1>2. units[t][w].restart_count \in Nat /\ g \in Nat /\ h \in Nat
  BY UnitFacts, GenerationFacts DEF IInv, GenerationsOf
<1>3. g = units[t][w].restart_count
  BY <1>1, <1>2 DEF Kin, FutureIsIdle, PastIsOver, IsAlive, Idle
<1>4. h = units[t][w].restart_count
  BY <1>1, <1>2 DEF Kin, FutureIsIdle, PastIsOver, IsAlive, Idle
<1> QED
  BY <1>3, <1>4

\* Restarting a subtree never leaves two incarnations of one worker that both mean to
\* go on: where their paths part, one of the two supervisors is gone, and what is left
\* below it has been told to die or will be.
THEOREM SurvivorsAreUnique ==
  ASSUME NoProcessBelowProcess
  PROVE  Spec => []SurvivorIsUnique
<1>1. IInv => SurvivorIsUnique
  <2> SUFFICES ASSUME IInv, NEW p \in Instances, NEW q \in Instances, Overlap(p, q)
               PROVE  IsDoomed(p) \/ IsDoomed(q)
    BY DEF SurvivorIsUnique
  <2>1. /\ p \in Seq(Names \X Generations) /\ q \in Seq(Names \X Generations)
        /\ Len(p) \in Nat /\ Len(q) \in Nat /\ IsAlive(p) /\ IsAlive(q) /\ p # q
    BY InstanceFacts DEF Overlap
  <2>2. DOMAIN p = 1..Len(p) /\ DOMAIN q = 1..Len(q)
    BY <2>1
  <2>3. Len(p) = Len(q) /\ \A i \in 1..Len(p) : p[i][1] = q[i][1]
    <3>1. DOMAIN NamesOf(p) = DOMAIN NamesOf(q)
      BY DEF Overlap
    <3>2. DOMAIN p = DOMAIN q
      BY <3>1 DEF NamesOf
    <3>3. Len(p) = Len(q)
      <4>1. \A i : i \in 1..Len(p) <=> i \in 1..Len(q)
        BY <2>2, <3>2
      <4>2. Len(p) <= Len(q)
        BY <2>1, <4>1
      <4>3. Len(q) <= Len(p)
        BY <2>1, <4>1
      <4> QED
        BY <2>1, <4>2, <4>3
    <3>4. ASSUME NEW i \in 1..Len(p)
          PROVE  p[i][1] = q[i][1]
      <4>1. NamesOf(p)[i] = NamesOf(q)[i]
        BY DEF Overlap
      <4> QED
        BY <2>2, <3>2, <4>1 DEF NamesOf
    <3> QED
      BY <3>3, <3>4
  <2> DEFINE parting == {i \in 1..Len(p) : p[i] # q[i]}
  <2>4. parting # {}
    BY <2>1, <2>3
  <2>5. PICK i \in parting : \A u \in parting : i <= u
    <3>1. parting \in SUBSET Nat
      OBVIOUS
    <3> HIDE DEF parting
    <3> QED
      BY <2>4, <3>1, LeastElement
  <2> DEFINE n == i - 1
             t == SubSeq(p, 1, n)
  <2>6. n \in 0..Len(p) /\ n < Len(p) /\ n \in 0..Len(q) /\ n < Len(q) /\ n + 1 = i
        /\ i \in 0..Len(p) /\ i \in 0..Len(q) /\ p[i] # q[i] /\ i \in 1..Len(p)
    BY <2>1, <2>3, <2>5
  <2>7. SubSeq(q, 1, n) = t
    <3>1. ASSUME NEW j \in 1..n
          PROVE  p[j] = q[j]
      BY <2>1, <2>5, <2>6
    <3>2. /\ t \in Seq(Names \X Generations) /\ Len(t) = n
          /\ \A j \in 1..n : t[j] = p[j]
      BY <2>1, <2>6, PrefixOfPrefix
    <3> DEFINE r == SubSeq(q, 1, n)
    <3>3. /\ r \in Seq(Names \X Generations) /\ Len(r) = n
          /\ \A j \in 1..n : r[j] = q[j]
      BY <2>1, <2>6, PrefixOfPrefix
    <3> HIDE DEF r, t, n
    <3>4. r = t
      BY <3>1, <3>2, <3>3, SMTT(30)
    <3> QED
      BY <3>4 DEF r
  <2> DEFINE w == p[i][1]
             g == p[i][2]
             h == q[i][2]
  <2>8. /\ t \in SupervisorInstances /\ w \in WorkersOf(t)
        /\ g \in GenerationsOf(w) /\ h \in GenerationsOf(w)
        /\ SubSeq(p, 1, i) = Child(t, w, g) /\ SubSeq(q, 1, i) = Child(t, w, h)
    <3>1. p[n + 1][1] = q[n + 1][1]
      BY <2>3, <2>6
    <3> HIDE DEF n
    <3>2. /\ t \in SupervisorInstances /\ p[n + 1][1] \in WorkersOf(t)
          /\ p[n + 1][2] \in GenerationsOf(p[n + 1][1])
          /\ SubSeq(p, 1, n + 1) = Child(t, p[n + 1][1], p[n + 1][2])
      BY <2>6, AncestorFacts
    <3>3. /\ q[n + 1][2] \in GenerationsOf(q[n + 1][1])
          /\ SubSeq(q, 1, n + 1) = Child(t, q[n + 1][1], q[n + 1][2])
      BY <2>6, <2>7, AncestorFacts
    <3> QED
      BY <2>6, <3>1, <3>2, <3>3
  <2>9. g # h
    <3>1. p[i] \in Names \X Generations /\ q[i] \in Names \X Generations
      BY <2>1, <2>3, <2>6
    <3>2. p[i][1] = q[i][1]
      BY <2>3, <2>6
    <3> QED
      BY <2>6, <3>1, <3>2
  <2> HIDE DEF t, w, g, h
  <2>10. ~IsAlive(SubSeq(p, 1, i)) \/ ~IsAlive(SubSeq(q, 1, i))
    BY <2>8, <2>9, OneGenerationLives
  <2> QED
    BY <2>1, <2>6, <2>10, DeadAboveDooms
<1> QED
  BY <1>1, InvariantHolds, PTL
-----------------------------------------------------------------------------
(***************************************************************************)
(* Levels. What a supervisor's contract sees is its own phase and its      *)
(* units' executors, so that a step of an instance is a step, or none, of  *)
(* two levels: its own, and the one it is a unit of (LevelAbove).          *)
(***************************************************************************)
DoomedOf(t) == {w \in AlivesOf(t) : exec[Current(t, w)].killed}

IncarnationsOf(t) == [w \in WorkersOf(t) |-> units[t][w].restart_count]

LevelView(t) == <<Phase(t), AlivesOf(t), DoomedOf(t), IncarnationsOf(t)>>

LevelStep(t) == Level(t)!Next \/ UNCHANGED LevelView(t)

LEMMA PhaseFacts ==
  ASSUME NEW t
  PROVE  /\ exec[t].state \in {"none", "starting"} => Phase(t) = "booting"
         /\ exec[t].state = "running" => Phase(t) = "supervising"
         /\ exec[t].state \in {"terminating", "reaping"} => Phase(t) = "draining"
         /\ exec[t].state \in {"stopped", "unheard", "crashed"} => Phase(t) = "ended"
         /\ exec[t].state \in {"exiting", "dead"} => Phase(t) = "aborted"
BY DEF Phase

LEMMA PhaseAfter ==
  ASSUME NEW t
  PROVE  /\ exec'[t].state \in {"none", "starting"} => Phase(t)' = "booting"
         /\ exec'[t].state = "running" => Phase(t)' = "supervising"
         /\ exec'[t].state \in {"terminating", "reaping"} => Phase(t)' = "draining"
         /\ exec'[t].state \in {"stopped", "unheard", "crashed"} => Phase(t)' = "ended"
         /\ exec'[t].state \in {"exiting", "dead"} => Phase(t)' = "aborted"
BY DEF Phase

LEMMA PhaseStays ==
  ASSUME NEW t, exec'[t].state = exec[t].state
  PROVE  Phase(t)' = Phase(t)
BY DEF Phase

\* A unit of which the contract sees nothing new.
SameAt(t, w) ==
    /\ units'[t][w].restart_count = units[t][w].restart_count
    /\ exec'[Current(t, w)].state \in AliveStates <=> exec[Current(t, w)].state \in AliveStates
    /\ exec[Current(t, w)].state \in AliveStates =>
            exec'[Current(t, w)].killed = exec[Current(t, w)].killed

LEMMA SameAtFacts ==
  ASSUME NEW t, NEW w \in WorkersOf(t), SameAt(t, w)
  PROVE  /\ w \in AlivesOf(t)' <=> w \in AlivesOf(t)
         /\ w \in DoomedOf(t)' <=> w \in DoomedOf(t)
         /\ IncarnationsOf(t)'[w] = IncarnationsOf(t)[w]
<1>1. Current(t, w)' = Current(t, w)
  BY CurrentIsChild DEF SameAt
<1>2. w \in AlivesOf(t)' <=> w \in AlivesOf(t)
  BY <1>1 DEF SameAt, AlivesOf, IsAlive, AliveStates
<1>3. w \in DoomedOf(t)' <=> w \in DoomedOf(t)
  BY <1>1, <1>2 DEF SameAt, DoomedOf, AlivesOf, IsAlive, AliveStates
<1> QED
  BY <1>2, <1>3 DEF SameAt, IncarnationsOf

LEMMA SameUnits ==
  ASSUME NEW t, \A w \in WorkersOf(t) : SameAt(t, w)
  PROVE  UNCHANGED <<AlivesOf(t), DoomedOf(t), IncarnationsOf(t)>>
<1>1. AlivesOf(t)' = AlivesOf(t) /\ DoomedOf(t)' = DoomedOf(t)
  BY SameAtFacts DEF AlivesOf, DoomedOf
<1>2. IncarnationsOf(t)' = IncarnationsOf(t)
  BY DEF SameAt, IncarnationsOf
<1> QED
  BY <1>1, <1>2

\* One unit is gone, the others are as they were.
LEMMA UnitLeaves ==
  ASSUME NEW t, NEW v \in WorkersOf(t), Phase(t)' = Phase(t),
         \A w \in WorkersOf(t) \ {v} : SameAt(t, w),
         units'[t][v].restart_count = units[t][v].restart_count,
         exec[Current(t, v)].state \in AliveStates,
         exec'[Current(t, v)].state \notin AliveStates
  PROVE  LevelStep(t)
<1>1. Current(t, v)' = Current(t, v)
  BY CurrentIsChild
<1>2. v \in AlivesOf(t) /\ v \notin AlivesOf(t)' /\ v \notin DoomedOf(t)'
  BY <1>1 DEF AlivesOf, DoomedOf, IsAlive, AliveStates
<1>3. AlivesOf(t)' = AlivesOf(t) \ {v} /\ DoomedOf(t)' = DoomedOf(t) \ {v}
  BY <1>2, SameAtFacts DEF AlivesOf, DoomedOf
<1>4. IncarnationsOf(t)' = IncarnationsOf(t)
  BY DEF SameAt, IncarnationsOf
<1>5. Level(t)!Leave(v)
  BY <1>2, <1>3, <1>4 DEF Level!Leave, DoomedOf, IncarnationsOf
<1> QED
  BY <1>5 DEF LevelStep, Level!Next

\* Whoever acts, the level it is a unit of loses it or sees nothing, and no other level
\* but its own sees anything.
LEMMA LevelAbove ==
  ASSUME IInv, NEW actor \in Instances, ActsAt(actor),
         NEW t \in SupervisorInstances \ {actor}
  PROVE  LevelStep(t)
<1>1. TypeOK /\ t \in Instances /\ units'[t] = units[t]
  BY UnitFacts DEF IInv, ActsAt
<1>2. Phase(t)' = Phase(t)
  <2>1. CASE exec'[t].state = exec[t].state
    BY <2>1, PhaseStays
  <2>2. CASE exec'[t].state # exec[t].state
    <3>1. exec[t].state = "none" /\ exec'[t].state = "starting"
      BY <1>1, <2>2 DEF ActsAt
    <3> QED
      BY <3>1, PhaseFacts, PhaseAfter
  <2> QED
    BY <2>1, <2>2
<1>3. ASSUME NEW w \in WorkersOf(t), Current(t, w) # actor
      PROVE  SameAt(t, w)
  <2>1. Current(t, w) \in Instances \ {actor} /\ Parent(Current(t, w)) # actor
    BY <1>1, <1>3, UnitFacts
  <2>2. exec'[Current(t, w)] = exec[Current(t, w)]
    BY <2>1 DEF ActsAt
  <2> QED
    BY <1>1, <2>2 DEF SameAt
<1>4. CASE \A w \in WorkersOf(t) : SameAt(t, w)
  BY <1>2, <1>4, SameUnits DEF LevelStep, LevelView
<1>5. ASSUME NEW v \in WorkersOf(t), ~SameAt(t, v)
      PROVE  LevelStep(t)
  <2>1. Current(t, v) = actor
    BY <1>3, <1>5
  <2>2. exec[actor].state \in AliveStates
        /\ (exec'[actor].state \in AliveStates => exec'[actor].killed = exec[actor].killed)
    BY DEF ActsAt, IsAlive, AliveStates
  <2>3. exec'[actor].state \notin AliveStates
    BY <1>1, <1>5, <2>1, <2>2 DEF SameAt
  <2>4. ASSUME NEW w \in WorkersOf(t) \ {v}
        PROVE  SameAt(t, w)
    <3>1. Current(t, w) # actor
      <4>1. units[t][w].restart_count \in GenerationsOf(w)
            /\ Current(t, w) = Child(t, w, units[t][w].restart_count)
        BY <1>1, UnitFacts, CurrentIsChild
      <4> QED
        BY <1>1, <2>1, <4>1, CurrentMeaning
    <3> QED
      BY <1>3, <3>1
  <2> QED
    BY <1>1, <1>2, <2>1, <2>2, <2>3, <2>4, UnitLeaves
<1> QED
  BY <1>4, <1>5

-----------------------------------------------------------------------------
(* What each step of a supervisor is to its own level. *)

\* A step that touches none of its units.
LEMMA OwnUnitsStay ==
  ASSUME IInv, NEW sup \in SupervisorInstances, units' = units,
         \A p \in Instances \ {sup} :
            exec'[p].state = exec[p].state /\ exec'[p].killed = exec[p].killed
  PROVE  UNCHANGED <<AlivesOf(sup), DoomedOf(sup), IncarnationsOf(sup)>>
<1>1. ASSUME NEW w \in WorkersOf(sup)
      PROVE  SameAt(sup, w)
  <2>1. Current(sup, w) \in Instances \ {sup}
    BY UnitFacts DEF IInv
  <2> QED
    BY <2>1 DEF SameAt
<1> QED
  BY <1>1, SameUnits

LEMMA LevelDrains ==
  ASSUME IInv, NEW sup \in SupervisorInstances,
         StopRequested(sup) \/ GiveUp(sup) \/ Complete(sup)
  PROVE  LevelStep(sup)
<1>1. PICK s \in {"terminating", "reaping"} : exec' = [exec EXCEPT ![sup].state = s]
  BY DEF StopRequested, GiveUp, Complete
<1>2. exec[sup] \in Life /\ sup \in Instances /\ exec[sup].state = "running" /\ units' = units
  BY UnitFacts DEF IInv, StopRequested, GiveUp, Complete
<1>3. exec'[sup].state = s /\ \A p \in Instances \ {sup} : exec'[p] = exec[p]
  BY <1>1, <1>2 DEF IInv, TypeOK, Life
<1>4. UNCHANGED <<AlivesOf(sup), DoomedOf(sup), IncarnationsOf(sup)>>
  BY <1>2, <1>3, OwnUnitsStay
<1>5. Phase(sup) = "supervising" /\ Phase(sup)' = "draining"
  BY <1>2, <1>3, PhaseFacts, PhaseAfter
<1>6. Level(sup)!Drain
  BY <1>4, <1>5 DEF Level!Drain, DoomedOf, IncarnationsOf
<1> QED
  BY <1>6 DEF LevelStep, Level!Next

LEMMA LevelEnds ==
  ASSUME IInv, NEW sup \in SupervisorInstances, ShutdownComplete(sup)
  PROVE  LevelStep(sup)
<1>1. PICK how \in {"stopped", "unheard", "crashed"} : exec' = [exec EXCEPT ![sup] = Ended(how)]
  BY DEF ShutdownComplete
<1>2. exec[sup].state \in {"terminating", "reaping"} /\ units' = units /\ AlivesOf(sup) = {}
      /\ sup \in Instances
  BY UnitFacts DEF IInv, ShutdownComplete
<1>3. exec'[sup].state = how /\ \A p \in Instances \ {sup} : exec'[p] = exec[p]
  BY <1>1, <1>2, EndedFacts DEF IInv, TypeOK
<1>4. UNCHANGED <<AlivesOf(sup), DoomedOf(sup), IncarnationsOf(sup)>>
  BY <1>2, <1>3, OwnUnitsStay
<1>5. Phase(sup) = "draining" /\ Phase(sup)' = "ended"
  BY <1>2, <1>3, PhaseFacts, PhaseAfter
<1>6. Level(sup)!End
  BY <1>2, <1>4, <1>5 DEF Level!End, DoomedOf, IncarnationsOf
<1> QED
  BY <1>6 DEF LevelStep, Level!Next

LEMMA LevelExits ==
  ASSUME IInv, NEW sup \in SupervisorInstances, Exit(sup)
  PROVE  LevelStep(sup)
<1>1. exec[sup].state = "exiting" /\ units' = units /\ exec' = [exec EXCEPT ![sup] = Ended("dead")]
      /\ sup \in Instances
  BY UnitFacts DEF IInv, Exit
<1>2. exec'[sup].state = "dead" /\ \A p \in Instances \ {sup} : exec'[p] = exec[p]
  BY <1>1, EndedFacts DEF IInv, TypeOK
<1>3. UNCHANGED <<AlivesOf(sup), DoomedOf(sup), IncarnationsOf(sup)>>
  BY <1>1, <1>2, OwnUnitsStay
<1>4. Phase(sup)' = Phase(sup)
  BY <1>1, <1>2, PhaseFacts, PhaseAfter
<1> QED
  BY <1>3, <1>4 DEF LevelStep, LevelView

LEMMA LevelHearsNoSignal ==
  ASSUME IInv, ExitSignal
  PROVE  LevelStep(<<>>)
<1>1. <<>> \in SupervisorInstances /\ <<>> \in Instances /\ exec[<<>>] \in Life /\ units' = units
      /\ exec' = [exec EXCEPT ![<<>>].term = TRUE]
  BY TopIsInstance, UnitFacts DEF IInv, ExitSignal
<1>2. exec'[<<>>].state = exec[<<>>].state
      /\ \A p \in Instances \ {<<>>} : exec'[p] = exec[p]
  BY <1>1 DEF IInv, TypeOK, Life
<1>3. UNCHANGED <<AlivesOf(<<>>), DoomedOf(<<>>), IncarnationsOf(<<>>)>>
  BY <1>1, <1>2, OwnUnitsStay
<1>4. Phase(<<>>)' = Phase(<<>>)
  BY <1>2, PhaseStays
<1> QED
  BY <1>3, <1>4 DEF LevelStep, LevelView

\* Before it boots no unit of a supervisor runs, or ever has.
LEMMA NothingRunsBeforeBoot ==
  ASSUME IInv, NEW sup \in SupervisorInstances, exec[sup].state \in {"none", "starting"}
  PROVE  /\ AlivesOf(sup) = {} /\ DoomedOf(sup) = {}
         /\ \A w \in WorkersOf(sup) : exec[Current(sup, w)] = Idle /\ units[sup][w] = NewUnit
<1>1. ASSUME NEW w \in WorkersOf(sup)
      PROVE  exec[Current(sup, w)] = Idle /\ units[sup][w] = NewUnit
  <2>1. units[sup][w].restart_count \in GenerationsOf(w)
        /\ Current(sup, w) = Child(sup, w, units[sup][w].restart_count)
    BY UnitFacts, CurrentIsChild DEF IInv
  <2>2. Kin(sup, w, units[sup][w].restart_count)
    BY <2>1 DEF IInv, Family
  <2> QED
    BY <2>1, <2>2 DEF Kin, UnbootedIsFresh
<1> QED
  BY <1>1 DEF AlivesOf, DoomedOf, IsAlive, Idle

LEMMA LevelLaunches ==
  ASSUME IInv, NEW sup \in SupervisorInstances, Boot(sup)
  PROVE  LevelStep(sup)
<1>1. exec[sup].state = "starting" /\ units' = units /\ sup \in Instances /\ exec[sup] \in Life
  BY UnitFacts DEF IInv, Boot
<1>2. exec'[sup].state = "running"
  BY <1>1 DEF Boot, Life
<1>3. ASSUME NEW w \in WorkersOf(sup)
      PROVE  /\ Current(sup, w)' = Current(sup, w)
             /\ w \in AlivesOf(sup)' /\ w \notin DoomedOf(sup)'
             /\ IncarnationsOf(sup)'[w] = IncarnationsOf(sup)[w]
  <2>1. Current(sup, w) \in Instances /\ Current(sup, w) # sup
    BY UnitFacts DEF IInv
  <2>2. exec'[Current(sup, w)] = Started(Current(sup, w))
    BY <2>1 DEF Boot
  <2>3. Current(sup, w)' = Current(sup, w)
    BY <1>1, CurrentIsChild
  <2>4. /\ exec'[Current(sup, w)].state \in {"starting", "running"}
        /\ ~exec'[Current(sup, w)].killed
    BY <2>2 DEF Started, Idle
  <2> QED
    BY <1>1, <2>3, <2>4 DEF AlivesOf, DoomedOf, IncarnationsOf, IsAlive
<1>4. AlivesOf(sup)' = WorkersOf(sup)
  BY <1>3 DEF AlivesOf
<1>5. DoomedOf(sup)' = {}
  BY <1>3, <1>4 DEF DoomedOf, AlivesOf
<1>6. IncarnationsOf(sup)' = IncarnationsOf(sup)
  BY <1>1 DEF IncarnationsOf
<1>7. Phase(sup) = "booting" /\ Phase(sup)' = "supervising"
  BY <1>1, <1>2, PhaseFacts, PhaseAfter
<1>8. Level(sup)!Launch
  BY <1>1, <1>4, <1>5, <1>6, <1>7, NothingRunsBeforeBoot
     DEF Level!Launch, DoomedOf, IncarnationsOf
<1> QED
  BY <1>8 DEF LevelStep, Level!Next

LEMMA LevelFailsToBoot ==
  ASSUME IInv, NEW sup \in SupervisorInstances, BootFails(sup)
  PROVE  LevelStep(sup)
<1>1. TypeOK /\ sup \in Instances /\ exec[sup] \in Life /\ exec[sup].state = "starting"
  BY UnitFacts DEF IInv, BootFails
<1>2. PICK V \in SUBSET WorkersOf(sup) :
        /\ units' = [units EXCEPT ![sup] = UnitsKilled(sup, V)]
        /\ exec' = [path \in Instances |->
            IF path = sup
            THEN OnException(sup)
            ELSE IF \E w \in V : path = Current(sup, w)
            THEN [Started(path) EXCEPT !.killed = TRUE]
            ELSE exec[path]]
  BY DEF BootFails
<1>3. exec'[sup].state \in {"exiting", "dead"}
  BY <1>1, <1>2 DEF OnException, Life, Ended, Idle
<1>4. ASSUME NEW w \in WorkersOf(sup)
      PROVE  /\ w \in AlivesOf(sup)' <=> w \in V
             /\ w \in V => w \in DoomedOf(sup)'
             /\ IncarnationsOf(sup)'[w] = IncarnationsOf(sup)[w]
  <2>1. Current(sup, w) \in Instances /\ Current(sup, w) # sup /\ exec[Current(sup, w)] = Idle
    BY <1>1, UnitFacts, NothingRunsBeforeBoot
  <2>2. \A v \in V : Current(sup, w) = Current(sup, v) <=> v = w
    <3>1. units[sup][w].restart_count \in GenerationsOf(w)
          /\ Current(sup, w) = Child(sup, w, units[sup][w].restart_count)
      BY <1>1, UnitFacts, CurrentIsChild
    <3> QED
      BY <1>1, <3>1, CurrentMeaning
  <2>3. /\ w \in V => exec'[Current(sup, w)] = [Started(Current(sup, w)) EXCEPT !.killed = TRUE]
        /\ w \notin V => exec'[Current(sup, w)] = Idle
    BY <1>2, <2>1, <2>2
  <2>4. units'[sup][w].restart_count = units[sup][w].restart_count
    BY <1>1, <1>2, KillingFacts DEF TypeOK
  <2>5. Current(sup, w)' = Current(sup, w)
    BY <2>4, CurrentIsChild
  <2>6. /\ w \in V => /\ exec'[Current(sup, w)].state \in {"starting", "running"}
                      /\ exec'[Current(sup, w)].killed
        /\ w \notin V => exec'[Current(sup, w)].state = "none"
    <3>1. /\ Started(Current(sup, w)) \in Life
          /\ Started(Current(sup, w)).state \in {"starting", "running"}
      BY DEF Started, Idle, Life, States
    <3> QED
      BY <2>3, <3>1 DEF Idle, Life
  <2> QED
    BY <2>4, <2>5, <2>6 DEF AlivesOf, DoomedOf, IncarnationsOf, IsAlive
<1>5. AlivesOf(sup)' = V /\ DoomedOf(sup)' = V
  BY <1>4 DEF AlivesOf, DoomedOf
<1>6. IncarnationsOf(sup)' = IncarnationsOf(sup)
  BY <1>4 DEF IncarnationsOf
<1>7. Phase(sup) = "booting" /\ Phase(sup)' = "aborted"
  BY <1>1, <1>3, PhaseFacts, PhaseAfter
<1>8. Level(sup)!AbortBoot
  BY <1>5, <1>6, <1>7 DEF Level!AbortBoot, DoomedOf, IncarnationsOf
<1> QED
  BY <1>8 DEF LevelStep, Level!Next

\* A kill dooms units that are alive, and changes nothing else the contract sees.
LEMMA KillsDoom ==
  ASSUME IInv, NEW sup \in SupervisorInstances, NEW V, KillsAt(sup, V)
  PROVE  /\ UNCHANGED <<AlivesOf(sup), IncarnationsOf(sup)>>
         /\ DoomedOf(sup)' = DoomedOf(sup) \cup V
<1>1. TypeOK /\ sup \in Instances /\ V \in SUBSET WorkersOf(sup) /\ V \subseteq AlivesOf(sup)
  BY UnitFacts DEF IInv, AlivesOf, KillsAt
<1>2. ASSUME NEW w \in WorkersOf(sup)
      PROVE  /\ w \in AlivesOf(sup)' <=> w \in AlivesOf(sup)
             /\ w \in DoomedOf(sup)' <=> w \in DoomedOf(sup) \/ w \in V
             /\ IncarnationsOf(sup)'[w] = IncarnationsOf(sup)[w]
  <2> DEFINE c == Current(sup, w)
             g == units[sup][w].restart_count
  <2>1. c \in Instances /\ c # sup /\ g \in GenerationsOf(w) /\ c = Child(sup, w, g)
    BY <1>1, UnitFacts, CurrentIsChild
  <2>2. units'[sup][w].restart_count = g
    BY <1>1, KillingFacts DEF KillsAt, TypeOK
  <2>3. c' = c
    BY <2>2, CurrentIsChild
  <2>4. IsKilledBy(c, sup, V) <=> w \in V /\ ~units[sup][w].kill_requested
    BY <1>1, <2>1, VictimMeaning
  <2>5. exec'[c].state = exec[c].state
        /\ (exec'[c].killed <=> exec[c].killed \/ IsKilledBy(c, sup, V))
    BY <2>1 DEF KillsAt
  <2>6. units[sup][w].kill_requested /\ IsAlive(c) => exec[c].killed
    <3>1. Kin(sup, w, g)
      BY <2>1 DEF IInv, Family
    <3> QED
      BY <2>1, <3>1 DEF Kin, RequestLands
  <2>7. w \in AlivesOf(sup)' <=> w \in AlivesOf(sup)
    BY <2>3, <2>5 DEF AlivesOf, IsAlive
  <2>8. w \in DoomedOf(sup)' <=> w \in AlivesOf(sup) /\ exec'[c].killed
    BY <2>3, <2>7 DEF DoomedOf
  <2>9. w \in AlivesOf(sup) <=> IsAlive(c)
    BY DEF AlivesOf
  <2>10. w \in DoomedOf(sup) <=> w \in AlivesOf(sup) /\ exec[c].killed
    BY DEF DoomedOf
  <2> HIDE DEF c, g
  <2>11. w \in DoomedOf(sup)' <=> w \in DoomedOf(sup) \/ w \in V
    BY <1>1, <2>4, <2>5, <2>6, <2>8, <2>9, <2>10
  <2> QED
    BY <2>2, <2>7, <2>11 DEF IncarnationsOf, g
<1>3. AlivesOf(sup)' = AlivesOf(sup)
  BY <1>2 DEF AlivesOf
<1>4. DoomedOf(sup)' = DoomedOf(sup) \cup V
  BY <1>1, <1>2 DEF DoomedOf, AlivesOf
<1>5. IncarnationsOf(sup)' = IncarnationsOf(sup)
  BY <1>2 DEF IncarnationsOf
<1> QED
  BY <1>3, <1>4, <1>5

LEMMA LevelDooms ==
  ASSUME IInv, NEW sup \in SupervisorInstances, NEW V, KillsAt(sup, V),
         exec[sup].state \in {"running", "terminating", "reaping"},
         exec'[sup].state = exec[sup].state
  PROVE  LevelStep(sup)
<1>1. V \in SUBSET AlivesOf(sup)
  BY DEF KillsAt
<1>2. Phase(sup) \in {"supervising", "draining"} /\ Phase(sup)' = Phase(sup)
  BY PhaseFacts, PhaseStays
<1>3. Level(sup)!Doom(V)
  BY <1>1, <1>2, KillsDoom DEF Level!Doom, DoomedOf, IncarnationsOf
<1> QED
  BY <1>1, <1>3 DEF LevelStep, Level!Next

LEMMA LevelKillsLingering ==
  ASSUME IInv, NEW sup \in SupervisorInstances, NEW w \in WorkersOf(sup), KillLingering(sup, w)
  PROVE  LevelStep(sup)
<1>1. KillsAt(sup, {w})
  BY KillLingeringKills
<1>2. exec[sup].state = "running" /\ sup \in Instances /\ exec[sup] \in Life
  BY UnitFacts DEF IInv, KillLingering
<1>3. exec'[sup].state = exec[sup].state
  BY <1>2 DEF KillLingering, Kill, Killed, Life
<1> QED
  BY <1>1, <1>2, <1>3, LevelDooms

LEMMA LevelShutsDown ==
  ASSUME IInv, NEW sup \in SupervisorInstances, NEW V \in SUBSET AlivesOf(sup),
         ShutdownPass(sup, V)
  PROVE  LevelStep(sup)
<1>1. KillsAt(sup, V)
  BY ShutdownPassKills
<1>2. exec[sup].state \in {"terminating", "reaping"} /\ sup \in Instances /\ exec[sup] \in Life
  BY UnitFacts DEF IInv, ShutdownPass
<1>3. exec'[sup].state = exec[sup].state
  BY <1>2 DEF ShutdownPass, Killed, Life
<1> QED
  BY <1>1, <1>2, <1>3, LevelDooms

LEMMA LevelReplaces ==
  ASSUME IInv, NEW sup \in SupervisorInstances, NEW w \in WorkersOf(sup), Replace(sup, w)
  PROVE  LevelStep(sup)
<1> DEFINE rc == units[sup][w].restart_count
           next == Child(sup, w, rc + 1)
<1>1. TypeOK /\ sup \in Instances /\ exec[sup].state = "running" /\ ~IsAlive(Current(sup, w))
      /\ exec[sup] \in Life /\ units[sup] \in [WorkersOf(sup) -> UnitType]
  BY UnitFacts DEF IInv, Replace, TypeOK
<1>2. rc \in Nat /\ rc < QuotaOf(w) /\ rc + 1 \in GenerationsOf(w)
  <2>1. rc \in Nat /\ rc < QuotaOf(w) /\ QuotaOf(w) \in Nat
    BY <1>1, UnitFacts, GenerationFacts DEF Replace, Retryable, GenerationsOf
  <2> QED
    BY <2>1 DEF GenerationsOf
<1>3. next \in Instances /\ next # sup
  BY <1>2, ChildFacts
<1>4. exec' = [exec EXCEPT ![next] = Started(next)]
      /\ units' = [units EXCEPT ![sup] =
            [units[sup] EXCEPT ![w] = [restart_count |-> rc + 1, kill_requested |-> FALSE]]]
  BY DEF Replace, Child
<1>5. /\ exec'[next] = Started(next) /\ \A p \in Instances \ {next} : exec'[p] = exec[p]
  BY <1>1, <1>3, <1>4 DEF TypeOK
<1>6. /\ units'[sup][w].restart_count = rc + 1
      /\ \A v \in WorkersOf(sup) \ {w} : units'[sup][v] = units[sup][v]
  BY <1>1, <1>4 DEF TypeOK
<1>7. Current(sup, w)' = next
  BY <1>6, CurrentIsChild
<1>8. exec'[next].state \in {"starting", "running"} /\ ~exec'[next].killed
  BY <1>5 DEF Started, Idle
<1>9. ASSUME NEW v \in WorkersOf(sup) \ {w}
      PROVE  SameAt(sup, v)
  <2>1. /\ units[sup][v].restart_count \in GenerationsOf(v) /\ Current(sup, v) \in Instances
        /\ Current(sup, v) = Child(sup, v, units[sup][v].restart_count)
    BY <1>1, UnitFacts, CurrentIsChild
  <2>2. Current(sup, v) # next
    BY <1>2, <2>1, ChildFacts
  <2> QED
    BY <1>5, <1>6, <2>1, <2>2 DEF SameAt
<1>10. w \notin AlivesOf(sup) /\ w \notin DoomedOf(sup) /\ w \in AlivesOf(sup)'
       /\ w \notin DoomedOf(sup)'
  BY <1>1, <1>7, <1>8 DEF AlivesOf, DoomedOf, IsAlive
<1>11. AlivesOf(sup)' = AlivesOf(sup) \cup {w} /\ DoomedOf(sup)' = DoomedOf(sup)
  BY <1>9, <1>10, SameAtFacts DEF AlivesOf, DoomedOf
<1> HIDE DEF next
<1>12. IncarnationsOf(sup)' = [IncarnationsOf(sup) EXCEPT ![w] = @ + 1]
  <2>1. IncarnationsOf(sup)' = [v \in WorkersOf(sup) |-> units'[sup][v].restart_count]
    BY DEF IncarnationsOf
  <2>2. IncarnationsOf(sup) = [v \in WorkersOf(sup) |-> units[sup][v].restart_count]
    BY DEF IncarnationsOf
  <2>3. \A v \in WorkersOf(sup) :
            units'[sup][v].restart_count = IF v = w THEN rc + 1 ELSE units[sup][v].restart_count
    BY <1>6
  <2> QED
    BY <2>1, <2>2, <2>3
<1>13. Phase(sup) = "supervising" /\ Phase(sup)' = Phase(sup)
  <2>1. exec'[sup] = exec[sup]
    BY <1>1, <1>3, <1>5
  <2> QED
    BY <1>1, <2>1, PhaseFacts, PhaseStays
<1>14. Level(sup)!Replace(w)
  BY <1>2, <1>10, <1>11, <1>12, <1>13 DEF Level!Replace, DoomedOf, IncarnationsOf
<1> QED
  BY <1>14 DEF LevelStep, Level!Next

\* A supervisor that only joins what runs below it is a process: nobody else does that.
JoinsInProcess ==
    \A t \in SupervisorInstances : exec[t].state = "exiting" => RunsInProcess(t)

\* An exception ends a supervisor, and its contract, in any phase.
LEMMA LevelAborts ==
  ASSUME IInv, NEW sup \in SupervisorInstances, IsAlive(sup), exec[sup].state # "exiting",
         Abort(sup)
  PROVE  LevelStep(sup)
<1>1. KillsAt(sup, AlivesOf(sup))
  BY AbortKills
<1>2. UNCHANGED <<AlivesOf(sup), IncarnationsOf(sup)>> /\ DoomedOf(sup)' = AlivesOf(sup)
  BY <1>1, KillsDoom DEF DoomedOf
<1>3. sup \in Instances /\ exec[sup] \in Life
  BY UnitFacts DEF IInv
<1>4. OnException(sup).state \in {"exiting", "dead"}
  BY <1>3 DEF OnException, Life, Ended, Idle
<1>5. exec'[sup] = OnException(sup)
  BY <1>3 DEF Abort, Killed
<1>6. Phase(sup)' = "aborted"
  BY <1>4, <1>5, PhaseAfter
<1>7. CASE exec[sup].state = "starting"
  <2>1. AlivesOf(sup) = {} /\ Phase(sup) = "booting"
    BY <1>7, NothingRunsBeforeBoot, PhaseFacts
  <2>2. Level(sup)!AbortBoot
    BY <1>2, <1>6, <2>1 DEF Level!AbortBoot, DoomedOf, IncarnationsOf
  <2> QED
    BY <2>2 DEF LevelStep, Level!Next
<1>8. CASE exec[sup].state \in {"running", "terminating", "reaping"}
  <2>1. Phase(sup) \in {"supervising", "draining"}
    BY <1>8, PhaseFacts
  <2>2. Level(sup)!Abort
    BY <1>2, <1>6, <2>1 DEF Level!Abort, DoomedOf, IncarnationsOf
  <2> QED
    BY <2>2 DEF LevelStep, Level!Next
<1> QED
  BY <1>7, <1>8 DEF IsAlive

\* SIGKILL of a process is an end like any other to the level above, and to those beside.
LEMMA LevelsBesideAProcess ==
  ASSUME IInv, NEW top \in SupervisorInstances, VanishProcess(top),
         NEW t \in SupervisorInstances, t # top, ~IsInProcessOf(t, top)
  PROVE  LevelStep(t)
<1>1. TypeOK /\ top \in Instances /\ t \in Instances /\ units' = units
  BY UnitFacts DEF IInv, VanishProcess
<1>2. \A p \in Instances :
        exec'[p] = IF IsAlive(p) /\ (p = top \/ IsInProcessOf(p, top))
                   THEN Ended("dead") ELSE exec[p]
  BY DEF VanishProcess
<1>3. Phase(t)' = Phase(t)
  <2>1. exec'[t] = exec[t]
    BY <1>1, <1>2
  <2> QED
    BY <2>1, PhaseStays
<1>4. ASSUME NEW w \in WorkersOf(t), Current(t, w) # top
      PROVE  SameAt(t, w)
  <2> DEFINE c == Current(t, w)
  <2>1. c \in Instances /\ c # <<>> /\ Parent(c) = t
    BY <1>1, UnitFacts
  <2> HIDE DEF c
  <2>2. /\ c \in Seq(Names \X Generations) /\ Len(c) \in Nat /\ Len(c) > 0
        /\ t \in Seq(Names \X Generations) /\ Len(t) \in Nat
        /\ top \in Seq(Names \X Generations) /\ Len(top) \in Nat
    BY <1>1, <2>1, InstanceFacts
  <2>3. t = SubSeq(c, 1, Len(c) - 1) /\ Len(c) - 1 \in 0..Len(c)
    BY <2>1, <2>2 DEF Parent
  <2>4. Len(t) = Len(c) - 1 /\ \A i \in 0..Len(t) : SubSeq(t, 1, i) = SubSeq(c, 1, i)
    BY <2>2, <2>3, PrefixOfPrefix
  <2>5. ~IsInProcessOf(c, top)
    <3> SUFFICES ASSUME IsInProcessOf(c, top)
                 PROVE  FALSE
      OBVIOUS
    <3>1. Len(c) > Len(top) /\ SubSeq(c, 1, Len(top)) = top
      BY DEF IsInProcessOf
    <3>2. Len(top) \in 0..Len(t) /\ SubSeq(t, 1, Len(top)) = top
      <4>1. Len(top) \in 0..Len(t)
        BY <2>2, <2>4, <3>1
      <4>2. SubSeq(t, 1, Len(top)) = SubSeq(c, 1, Len(top))
        BY <2>4, <4>1, SMTT(30)
      <4> QED
        BY <3>1, <4>1, <4>2
    <3>3. Len(t) # Len(top)
      <4>1. SubSeq(t, 1, Len(t)) = t
        BY <2>2
      <4> QED
        BY <3>2, <4>1
    <3>4. Len(t) > Len(top)
      BY <2>2, <3>2, <3>3
    <3>5. ASSUME NEW n \in Len(top)..(Len(t) - 1)
          PROVE  executor_type[NameOf(SubSeq(t, 1, n))] = "thread"
      <4>1. n \in Len(top)..(Len(c) - 1) /\ n \in 0..Len(t)
        BY <2>2, <2>4
      <4> QED
        BY <2>4, <4>1 DEF IsInProcessOf
    <3> QED
      BY <3>2, <3>4, <3>5 DEF IsInProcessOf
  <2>6. exec'[c] = exec[c]
    BY <1>2, <1>4, <2>1, <2>5 DEF c
  <2> QED
    BY <1>1, <2>6 DEF SameAt, c
<1>5. CASE \A w \in WorkersOf(t) : SameAt(t, w)
  BY <1>3, <1>5, SameUnits DEF LevelStep, LevelView
<1>6. ASSUME NEW v \in WorkersOf(t), ~SameAt(t, v)
      PROVE  LevelStep(t)
  <2>1. Current(t, v) = top
    BY <1>4, <1>6
  <2>2. exec[top].state \in AliveStates /\ exec'[top].state \notin AliveStates
    BY <1>1, <1>2, EndedFacts DEF VanishProcess, IsAlive, AliveStates
  <2>3. ASSUME NEW w \in WorkersOf(t) \ {v}
        PROVE  SameAt(t, w)
    <3>1. units[t][w].restart_count \in GenerationsOf(w)
          /\ Current(t, w) = Child(t, w, units[t][w].restart_count)
      BY <1>1, UnitFacts, CurrentIsChild
    <3>2. Current(t, w) # top
      BY <1>1, <2>1, <3>1, CurrentMeaning
    <3> QED
      BY <1>4, <3>2
  <2> QED
    BY <1>1, <1>3, <2>1, <2>2, <2>3, UnitLeaves
<1> QED
  BY <1>5, <1>6

-----------------------------------------------------------------------------
(* Every step, at every level. *)

ExceptionOf(actor) ==
    exec'[actor].state = "exiting" => exec[actor].state = "exiting" \/ RunsInProcess(actor)

LEMMA JoinsAfter ==
  ASSUME JoinsInProcess, NEW actor \in Instances, ActsAt(actor), ExceptionOf(actor),
         executor_type' = executor_type
  PROVE  JoinsInProcess'
<1> SUFFICES ASSUME NEW t \in SupervisorInstances, exec'[t].state = "exiting"
             PROVE  RunsInProcess(t)
  BY DEF JoinsInProcess, RunsInProcess
<1>1. exec[t].state = "exiting" \/ RunsInProcess(t)
  <2>1. CASE t = actor
    BY <2>1 DEF ExceptionOf
  <2>2. CASE t # actor
    BY <2>2 DEF ActsAt, SupervisorInstances
  <2> QED
    BY <2>1, <2>2
<1> QED
  BY <1>1 DEF JoinsInProcess

\* What a step of one instance is: the invariant goes on, and each level takes a step of
\* its contract or none.
Fits(actor) ==
    /\ IInv' /\ JoinsInProcess'
    /\ \A t \in SupervisorInstances : LevelStep(t)

LEMMA StepFits ==
  ASSUME IInv, JoinsInProcess, NEW actor \in Instances, ActsAt(actor), IInv',
         ExceptionOf(actor), executor_type' = executor_type,
         actor \in SupervisorInstances => LevelStep(actor)
  PROVE  Fits(actor)
BY LevelAbove, JoinsAfter DEF Fits

LEMMA SuperviseFits ==
  ASSUME IInv, JoinsInProcess, NEW sup \in SupervisorInstances, Supervise(sup)
  PROVE  Fits(sup)
<1>1. sup \in Instances /\ exec[sup] \in Life /\ TypeOK
  BY UnitFacts DEF IInv
<1>2. CASE Boot(sup)
  <2>1. ExceptionOf(sup) /\ executor_type' = executor_type
    BY <1>1, <1>2 DEF ExceptionOf, Boot, Life
  <2> QED
    BY <1>1, <1>2, <2>1, BootStep, LevelLaunches, StepFits
<1>3. CASE StopRequested(sup) \/ GiveUp(sup) \/ Complete(sup)
  <2>1. IInv' /\ ActsAt(sup)
    BY <1>3, StopRequestedStep, GiveUpStep, CompleteStep
  <2>2. PICK s \in {"terminating", "reaping"} : exec' = [exec EXCEPT ![sup].state = s]
    BY <1>3 DEF StopRequested, GiveUp, Complete
  <2>3. executor_type' = executor_type
    BY <1>3 DEF StopRequested, GiveUp, Complete
  <2>4. ExceptionOf(sup)
    BY <1>1, <2>2 DEF ExceptionOf, TypeOK, Life
  <2> QED
    BY <1>1, <1>3, <2>1, <2>3, <2>4, LevelDrains, StepFits
<1>4. CASE ShutdownComplete(sup)
  <2>1. PICK how \in {"stopped", "unheard", "crashed"} : exec' = [exec EXCEPT ![sup] = Ended(how)]
    BY <1>4 DEF ShutdownComplete
  <2>2. ExceptionOf(sup)
    BY <1>1, <2>1, EndedFacts DEF ExceptionOf, TypeOK
  <2>3. executor_type' = executor_type
    BY <1>4 DEF ShutdownComplete
  <2> QED
    BY <1>1, <1>4, <2>2, <2>3, ShutdownCompleteStep, LevelEnds, StepFits
<1>5. CASE Exit(sup)
  <2>1. exec[sup].state = "exiting" /\ executor_type' = executor_type
    BY <1>5 DEF Exit
  <2>2. ExceptionOf(sup)
    BY <2>1 DEF ExceptionOf
  <2> QED
    BY <1>1, <1>5, <2>1, <2>2, ExitStep, LevelExits, StepFits
<1>6. ASSUME NEW w \in WorkersOf(sup), KillLingering(sup, w)
      PROVE  Fits(sup)
  <2>1. KillsAt(sup, {w})
    BY <1>6, KillLingeringKills
  <2>2. ExceptionOf(sup)
    BY <1>1, <1>6 DEF KillLingering, Kill, Killed, Life, ExceptionOf
  <2>3. executor_type' = executor_type
    BY <1>6 DEF KillLingering, Kill
  <2>4. IInv' /\ ActsAt(sup) /\ LevelStep(sup)
    BY <1>6, <2>1, KillingStep, LevelKillsLingering
  <2> QED
    BY <1>1, <2>2, <2>3, <2>4, StepFits
<1>7. ASSUME NEW w \in WorkersOf(sup), Replace(sup, w)
      PROVE  Fits(sup)
  <2>1. IInv' /\ ActsAt(sup) /\ LevelStep(sup)
    BY <1>7, ReplaceStep, LevelReplaces
  <2>2. exec'[sup] = exec[sup]
    <3>1. units[sup][w].restart_count + 1 \in GenerationsOf(w)
      <4>1. units[sup][w].restart_count \in Nat /\ QuotaOf(w) \in Nat
            /\ units[sup][w].restart_count < QuotaOf(w)
        BY <1>1, <1>7, UnitFacts, GenerationFacts DEF Replace, Retryable, GenerationsOf
      <4> QED
        BY <4>1 DEF GenerationsOf
    <3>2. Child(sup, w, units[sup][w].restart_count + 1) # sup
      BY <3>1, ChildFacts
    <3> QED
      BY <1>1, <1>7, <3>2 DEF Replace, Child, TypeOK
  <2>3. ExceptionOf(sup) /\ executor_type' = executor_type
    BY <1>7, <2>2 DEF ExceptionOf, Replace
  <2> QED
    BY <1>1, <2>1, <2>3, StepFits
<1>8. ASSUME NEW V \in SUBSET AlivesOf(sup), ShutdownPass(sup, V)
      PROVE  Fits(sup)
  <2>1. KillsAt(sup, V)
    BY <1>8, ShutdownPassKills
  <2>2. exec'[sup].state = exec[sup].state
    BY <1>1, <1>8 DEF ShutdownPass, Killed, Life
  <2>3. ExceptionOf(sup) /\ executor_type' = executor_type
    BY <1>8, <2>2 DEF ExceptionOf, ShutdownPass
  <2>4. IInv' /\ ActsAt(sup) /\ LevelStep(sup)
    BY <1>8, <2>1, KillingStep, LevelShutsDown
  <2> QED
    BY <1>1, <2>3, <2>4, StepFits
<1> QED
  BY <1>2, <1>3, <1>4, <1>5, <1>6, <1>7, <1>8 DEF Supervise

LEMMA ExceptionFits ==
  ASSUME IInv, JoinsInProcess, NEW sup \in SupervisorInstances,
         BootFails(sup) \/ Fail(sup) \/ DieInLoop(sup)
  PROVE  Fits(sup)
<1>1. sup \in Instances /\ exec[sup] \in Life /\ TypeOK
  BY UnitFacts DEF IInv
<1>2. exec'[sup] = OnException(sup) => ExceptionOf(sup)
  BY DEF ExceptionOf, OnException, Ended, Idle
<1>3. CASE BootFails(sup)
  <2>1. exec'[sup] = OnException(sup) /\ executor_type' = executor_type
    BY <1>1, <1>3 DEF BootFails
  <2> QED
    BY <1>1, <1>2, <1>3, <2>1, BootFailsStep, LevelFailsToBoot, StepFits
<1>4. CASE Fail(sup) \/ DieInLoop(sup)
  <2>1. IsAlive(sup) /\ exec[sup].state # "exiting" /\ Abort(sup)
    BY <1>4 DEF Fail, DieInLoop, IsAlive, JoinsInProcess
  <2>2. KillsAt(sup, AlivesOf(sup)) /\ LevelStep(sup)
    BY <2>1, AbortKills, LevelAborts
  <2>3. exec'[sup] = OnException(sup) /\ executor_type' = executor_type
    BY <1>1, <2>1 DEF Abort, Killed
  <2>4. IInv' /\ ActsAt(sup)
    BY <2>2, KillingStep
  <2> QED
    BY <1>1, <1>2, <2>2, <2>3, <2>4, StepFits
<1> QED
  BY <1>3, <1>4

LEMMA LeafFits ==
  ASSUME IInv, JoinsInProcess, NEW leaf \in Leaves, LeafEnds(leaf) \/ LeafDies(leaf)
  PROVE  Fits(leaf)
<1>1. leaf \in Instances /\ leaf \notin SupervisorInstances
  BY DEF Leaves
<1>2. PICK how \in {"stopped", "dead"} : exec' = [exec EXCEPT ![leaf] = Ended(how)]
  BY DEF LeafEnds, LeafDies
<1>3. ExceptionOf(leaf)
  BY <1>1, <1>2, EndedFacts DEF ExceptionOf, IInv, TypeOK
<1>4. executor_type' = executor_type
  BY DEF LeafEnds, LeafDies
<1> QED
  BY <1>1, <1>3, <1>4, LeafStep, StepFits

LEMMA SignalFits ==
  ASSUME IInv, JoinsInProcess, ExitSignal
  PROVE  Fits(<<>>)
<1>1. <<>> \in Instances /\ exec[<<>>] \in Life
  BY TopIsInstance, UnitFacts DEF IInv
<1>2. exec'[<<>>].state = exec[<<>>].state /\ executor_type' = executor_type
  BY <1>1 DEF ExitSignal, IInv, TypeOK, Life
<1>3. ExceptionOf(<<>>)
  BY <1>2 DEF ExceptionOf
<1> QED
  BY <1>1, <1>2, <1>3, ExitSignalStep, LevelHearsNoSignal, StepFits

LEMMA VanishFits ==
  ASSUME IInv, JoinsInProcess, NEW top \in SupervisorInstances, VanishProcess(top)
  PROVE  /\ JoinsInProcess'
         /\ \A t \in SupervisorInstances : LevelStep(t) \/ Vanishes(t)
<1>1. ASSUME NEW t \in SupervisorInstances
      PROVE  exec'[t].state = "exiting" => exec[t].state = "exiting"
  <2>1. t \in Instances
    BY DEF SupervisorInstances
  <2>2. exec'[t] = Ended("dead") \/ exec'[t] = exec[t]
    BY <2>1 DEF VanishProcess
  <2> QED
    BY <2>2 DEF Ended, Idle
<1>2. executor_type' = executor_type
  BY DEF VanishProcess
<1>3. JoinsInProcess'
  BY <1>1, <1>2 DEF JoinsInProcess, RunsInProcess
<1>4. ASSUME NEW t \in SupervisorInstances
      PROVE  LevelStep(t) \/ Vanishes(t)
  BY LevelsBesideAProcess DEF Vanishes
<1> QED
  BY <1>3, <1>4

LEMMA EveryStepFits ==
  ASSUME IInv, JoinsInProcess, [Next]_vars
  PROVE  /\ IInv' /\ JoinsInProcess'
         /\ \A t \in SupervisorInstances : LevelStep(t) \/ Vanishes(t)
<1>1. CASE UNCHANGED vars
  <2>1. IInv'
    BY <1>1, NextIsInductive
  <2>2. JoinsInProcess'
    BY <1>1 DEF vars, JoinsInProcess, RunsInProcess
  <2>3. ASSUME NEW t \in SupervisorInstances
        PROVE  LevelStep(t)
    <3>1. \A w \in WorkersOf(t) : SameAt(t, w)
      BY <1>1 DEF vars, SameAt
    <3>2. Phase(t)' = Phase(t)
      BY <1>1, PhaseStays DEF vars
    <3> QED
      BY <3>1, <3>2, SameUnits DEF LevelStep, LevelView
  <2> QED
    BY <2>1, <2>2, <2>3
<1>2. CASE \E actor \in Instances : Fits(actor)
  BY <1>2 DEF Fits
<1>3. ASSUME NEW top \in SupervisorInstances, VanishProcess(top)
      PROVE  /\ IInv' /\ JoinsInProcess'
             /\ \A t \in SupervisorInstances : LevelStep(t) \/ Vanishes(t)
  BY <1>3, VanishFits, VanishProcessStep
<1>4. \A p \in SupervisorInstances \cup Leaves \cup {<<>>} : p \in Instances
  BY TopIsInstance DEF SupervisorInstances, Leaves
<1>5. ASSUME NEW sup \in SupervisorInstances,
             Supervise(sup) \/ BootFails(sup) \/ Fail(sup) \/ DieInLoop(sup)
      PROVE  \E actor \in Instances : Fits(actor)
  BY <1>4, <1>5, SuperviseFits, ExceptionFits
<1>6. ASSUME NEW leaf \in Leaves, LeafEnds(leaf) \/ LeafDies(leaf)
      PROVE  \E actor \in Instances : Fits(actor)
  BY <1>4, <1>6, LeafFits
<1>7. CASE ExitSignal
  BY <1>2, <1>4, <1>7, SignalFits
<1> QED
  BY <1>1, <1>2, <1>3, <1>5, <1>6, <1>7 DEF Next, Terminated

LEMMA InitFits ==
  Init => /\ JoinsInProcess
          /\ \A sup \in SupervisorInstances : Level(sup)!Init
<1> SUFFICES ASSUME Init
             PROVE  /\ JoinsInProcess
                    /\ \A sup \in SupervisorInstances : Level(sup)!Init
  OBVIOUS
<1>1. IInv
  BY InitIsInductive
<1>2. ASSUME NEW t \in SupervisorInstances
      PROVE  exec[t].state \in {"none", "starting"}
  BY <1>2 DEF Init, Started, Idle, SupervisorInstances
<1>3. ASSUME NEW t \in SupervisorInstances
      PROVE  Level(t)!Init
  <2>1. AlivesOf(t) = {} /\ DoomedOf(t) = {} /\ Phase(t) = "booting"
    BY <1>1, <1>2, NothingRunsBeforeBoot, PhaseFacts
  <2>2. IncarnationsOf(t) = [w \in WorkersOf(t) |-> 0]
    BY DEF Init, IncarnationsOf, NewUnit
  <2> QED
    BY <2>1, <2>2 DEF Level!Init, DoomedOf, IncarnationsOf
<1> QED
  BY <1>2, <1>3 DEF JoinsInProcess

\* Supervisors compose: every supervisor of every tree, in each of its incarnations, keeps
\* SupervisionContract with its own units while it is stopped, killed and replaced
\* itself, up to its end or that of the process it runs in.
THEOREM LevelsKeepTheirContracts == Spec => LevelContracts
<1>1. ASSUME NEW t \in SupervisorInstances, LevelStep(t) \/ Vanishes(t)
      PROVE  [Level(t)!Next]_(Level(t)!vars) \/ Vanishes(t)
  BY <1>1 DEF LevelStep, LevelView, Level!vars, DoomedOf, IncarnationsOf
<1>2. IInv /\ JoinsInProcess /\ [Next]_vars =>
        /\ JoinsInProcess'
        /\ \A sup \in SupervisorInstances : [Level(sup)!Next]_(Level(sup)!vars) \/ Vanishes(sup)
  BY <1>1, EveryStepFits
<1>3. Spec => \A sup \in SupervisorInstances : Level(sup)!Init
  BY InitFits DEF Spec
<1>4. Spec => [][\A sup \in SupervisorInstances :
                    [Level(sup)!Next]_(Level(sup)!vars) \/ Vanishes(sup)]_vars
  BY <1>2, InvariantHolds, InitFits, PTL DEF Spec
<1> QED
  BY <1>3, <1>4 DEF LevelContracts

-----------------------------------------------------------------------------
(* What the contract promises holds of each level by itself.               *)

LEMMA LevelQuota ==
  ASSUME NEW sup \in SupervisorInstances, NEW w \in WorkersOf(sup)
  PROVE  QuotaOf(w) \in Nat
BY QuotaAssumption DEF QuotaOf

LEMMA LevelPromisesBegin ==
  ASSUME NEW sup \in SupervisorInstances, Level(sup)!Init
  PROVE  Level(sup)!Promises
BY LevelQuota DEF Level!Init, Level!Promises

\* The quota covers one more replacement of a worker that has not used it up.
LEMMA OneMoreReplacement ==
  ASSUME NEW sup \in SupervisorInstances,
         NEW before \in [WorkersOf(sup) -> Nat], NEW after, NEW w \in WorkersOf(sup),
         after = [before EXCEPT ![w] = @ + 1], before[w] < QuotaOf(w),
         \A v \in WorkersOf(sup) : before[v] <= QuotaOf(v)
  PROVE  /\ after \in [WorkersOf(sup) -> Nat]
         /\ \A v \in WorkersOf(sup) : after[v] <= QuotaOf(v)
<1>1. DOMAIN after = WorkersOf(sup)
  OBVIOUS
<1>2. ASSUME NEW v \in WorkersOf(sup)
      PROVE  after[v] \in Nat /\ after[v] <= QuotaOf(v)
  <2>1. before[v] \in Nat /\ QuotaOf(v) \in Nat
    BY LevelQuota
  <2>2. after[v] = IF v = w THEN before[v] + 1 ELSE before[v]
    OBVIOUS
  <2> QED
    BY <2>1, <2>2
<1> QED
  BY <1>1, <1>2

LEMMA LevelPromisesStay ==
  ASSUME NEW sup \in SupervisorInstances, Level(sup)!Promises,
         [Level(sup)!Next]_(Level(sup)!vars)
  PROVE  Level(sup)!Promises'
<1>0. /\ DoomedOf(sup) \subseteq AlivesOf(sup) /\ AlivesOf(sup) \subseteq WorkersOf(sup)
      /\ IncarnationsOf(sup) \in [WorkersOf(sup) -> Nat]
      /\ \A w \in WorkersOf(sup) : IncarnationsOf(sup)[w] <= QuotaOf(w)
  BY DEF Level!Promises, DoomedOf, IncarnationsOf
<1>1. CASE Level(sup)!Launch
  BY <1>1 DEF Level!Launch, Level!Promises
<1>2. CASE Level(sup)!Drain
  BY <1>2 DEF Level!Drain, Level!Promises
<1>3. CASE Level(sup)!End
  BY <1>3 DEF Level!End, Level!Promises
<1>4. CASE Level(sup)!AbortBoot
  BY <1>4 DEF Level!AbortBoot, Level!Promises
<1>5. CASE Level(sup)!Abort
  <2>1. /\ Phase(sup)' = "aborted" /\ AlivesOf(sup)' = AlivesOf(sup)
        /\ DoomedOf(sup)' = AlivesOf(sup)
        /\ \/ IncarnationsOf(sup)' = IncarnationsOf(sup)
           \/ \E w \in WorkersOf(sup) :
                /\ IncarnationsOf(sup)[w] < QuotaOf(w)
                /\ IncarnationsOf(sup)' = [IncarnationsOf(sup) EXCEPT ![w] = @ + 1]
    BY <1>5 DEF Level!Abort, DoomedOf, IncarnationsOf
  <2>2. /\ IncarnationsOf(sup)' \in [WorkersOf(sup) -> Nat]
        /\ \A v \in WorkersOf(sup) : IncarnationsOf(sup)'[v] <= QuotaOf(v)
    BY <1>0, <2>1, OneMoreReplacement
  <2> QED
    BY <1>0, <2>1, <2>2 DEF Level!Promises, DoomedOf, IncarnationsOf
<1>6. ASSUME NEW w \in WorkersOf(sup), Level(sup)!Leave(w)
      PROVE  Level(sup)!Promises'
  BY <1>6 DEF Level!Leave, Level!Promises
<1>7. ASSUME NEW w \in WorkersOf(sup), Level(sup)!Replace(w)
      PROVE  Level(sup)!Promises'
  <2>1. /\ Phase(sup)' = Phase(sup) /\ Phase(sup) = "supervising"
        /\ AlivesOf(sup)' = AlivesOf(sup) \cup {w} /\ DoomedOf(sup)' = DoomedOf(sup)
        /\ IncarnationsOf(sup)[w] < QuotaOf(w)
        /\ IncarnationsOf(sup)' = [IncarnationsOf(sup) EXCEPT ![w] = @ + 1]
    BY <1>7 DEF Level!Replace, DoomedOf, IncarnationsOf
  <2>2. /\ IncarnationsOf(sup)' \in [WorkersOf(sup) -> Nat]
        /\ \A v \in WorkersOf(sup) : IncarnationsOf(sup)'[v] <= QuotaOf(v)
    BY <1>0, <2>1, OneMoreReplacement
  <2> QED
    BY <1>0, <2>1, <2>2 DEF Level!Promises, DoomedOf, IncarnationsOf
<1>8. ASSUME NEW victims \in SUBSET AlivesOf(sup), Level(sup)!Doom(victims)
      PROVE  Level(sup)!Promises'
  BY <1>8 DEF Level!Doom, Level!Promises
<1>9. CASE UNCHANGED Level(sup)!vars
  BY <1>9 DEF Level!vars, Level!Promises
<1> QED
  BY <1>1, <1>2, <1>3, <1>4, <1>5, <1>6, <1>7, <1>8, <1>9 DEF Level!Next

LEMMA LevelStepsArePromised ==
  ASSUME NEW sup \in SupervisorInstances, Level(sup)!Promises,
         [Level(sup)!Next]_(Level(sup)!vars)
  PROVE  [Level(sup)!LetsDie]_(Level(sup)!vars)
<1> SUFFICES \/ UNCHANGED Level(sup)!vars
             \/ /\ \A w \in DoomedOf(sup) : w \in AlivesOf(sup)' => w \in DoomedOf(sup)'
                /\ Phase(sup) \notin {"booting", "supervising"} =>
                       AlivesOf(sup)' \subseteq AlivesOf(sup)
  BY DEF Level!LetsDie, DoomedOf
<1>0. /\ DoomedOf(sup) \subseteq AlivesOf(sup)
      /\ Phase(sup) = "booting" => AlivesOf(sup) = {}
  BY DEF Level!Promises, DoomedOf
<1>1. CASE Level(sup)!Launch \/ Level(sup)!AbortBoot
  BY <1>0, <1>1 DEF Level!Launch, Level!AbortBoot, DoomedOf
<1>2. CASE Level(sup)!Drain \/ Level(sup)!End
  BY <1>2 DEF Level!Drain, Level!End, DoomedOf
<1>3. CASE Level(sup)!Abort
  BY <1>0, <1>3 DEF Level!Abort, DoomedOf
<1>4. ASSUME NEW w \in WorkersOf(sup), Level(sup)!Leave(w)
      PROVE  AlivesOf(sup)' = AlivesOf(sup) \ {w} /\ DoomedOf(sup)' = DoomedOf(sup) \ {w}
  BY <1>4 DEF Level!Leave, DoomedOf
<1>5. ASSUME NEW w \in WorkersOf(sup), Level(sup)!Replace(w)
      PROVE  Phase(sup) = "supervising" /\ DoomedOf(sup)' = DoomedOf(sup)
  BY <1>5 DEF Level!Replace, DoomedOf
<1>6. ASSUME NEW victims \in SUBSET AlivesOf(sup), Level(sup)!Doom(victims)
      PROVE  AlivesOf(sup)' = AlivesOf(sup) /\ DoomedOf(sup)' = DoomedOf(sup) \cup victims
  BY <1>6 DEF Level!Doom, DoomedOf
<1> QED
  BY <1>1, <1>2, <1>3, <1>4, <1>5, <1>6 DEF Level!Next

\* A supervisor at any depth of any tree, as long as the process it runs in is not
\* killed, replaces none of its workers beyond the quota, leaves none running when it
\* ends and after an abort only some that were told to die, takes no kill back and
\* starts nothing once it drains.
THEOREM LevelsKeepTheirPromises ==
  ASSUME NEW t \in SupervisorInstances
  PROVE  Spec /\ [][~Vanishes(t)]_vars => []Level(t)!Promises /\ Level(t)!DoomIsFinal
<1>1. (\A sup \in SupervisorInstances : Level(sup)!Init) => Level(t)!Promises
  BY LevelPromisesBegin
<1>2. UNCHANGED vars => UNCHANGED Level(t)!vars
  <2> SUFFICES ASSUME UNCHANGED vars PROVE UNCHANGED Level(t)!vars
    OBVIOUS
  <2>1. exec' = exec /\ units' = units
    BY DEF vars
  <2>2. \A w \in WorkersOf(t) : SameAt(t, w)
    BY <2>1 DEF SameAt
  <2>3. Phase(t)' = Phase(t)
    BY <2>1 DEF Phase
  <2> QED
    BY <2>2, <2>3, SameUnits DEF Level!vars, DoomedOf, IncarnationsOf
<1>3. /\ [\A sup \in SupervisorInstances :
             [Level(sup)!Next]_(Level(sup)!vars) \/ Vanishes(sup)]_vars
      /\ [~Vanishes(t)]_vars
      => [Level(t)!Next]_(Level(t)!vars)
  BY <1>2
<1>4. /\ Level(t)!Promises /\ [Level(t)!Next]_(Level(t)!vars)
      => Level(t)!Promises' /\ [Level(t)!LetsDie]_(Level(t)!vars)
  BY LevelPromisesStay, LevelStepsArePromised
<1> QED
  BY <1>1, <1>3, <1>4, LevelsKeepTheirContracts, PTL DEF LevelContracts, Level!DoomIsFinal
=============================================================================
