--------------------------- MODULE HookCollection ---------------------------
(***************************************************************************)
(* How a worker class gets its hooks: the decorators note them on the      *)
(* functions of a class body (decorators.py), and __init_subclass__        *)
(* (worker.py:145-173) turns the notes into cls._hooks, on top of a deep   *)
(* copy of the map it finds by attribute lookup, which is that of the      *)
(* first class in its method resolution order to have one.                 *)
(*                                                                         *)
(* A hook is <<"pre", state, event>>, <<"post", state, event>> or          *)
(* <<"actor", state>>; a map gives for each the names of the methods to    *)
(* call, at most one for an actor. A class body is the sequence of its     *)
(* entries [method, hooks, is_coro] in source order, a method at most once *)
(* (of two the namespace keeps the last).                                  *)
(***************************************************************************)
EXTENDS Sequences, Naturals, FiniteSets, SequencesExt

CONSTANTS
    Classes,         \* the classes a program may define under the root
    Plain,           \* those that are mixins and no workers
    Hooks,
    Methods,
    Bodies,          \* the class bodies somebody may write
    IsAsync          \* execution_mode of the root: SyncWorker or AsyncWorker

VARIABLES
    mro,             \* class |-> the method resolution order of the defined classes
    body,            \* class |-> its body
    hooks,           \* worker class |-> its _hooks
    rejected         \* whether a class statement has raised

vars == <<mro, body, hooks, rejected>>

Root == "Worker"
Workers == {Root} \cup (Classes \ Plain)
NoHooks == [h \in Hooks |-> <<>>]

Init ==
    /\ mro = [c \in {Root} |-> <<Root>>] /\ body = [c \in {Root} |-> <<>>]
    /\ hooks = [c \in {Root} |-> NoHooks]
    /\ rejected = FALSE

Defined == DOMAIN mro

Extend(f, c, value) == [d \in DOMAIN f \cup {c} |-> IF d = c THEN value ELSE f[d]]

Without(line, other) ==
    LET kept[i \in 0..Len(line)] ==
            IF i = 0 THEN <<>>
            ELSE IF line[i] \in ToSet(other) THEN kept[i-1] ELSE Append(kept[i-1], line[i])
    IN  kept[Len(line)]

\* The bases of a class statement: one, or two of which neither is the other's
\* ancestor. Of two, what the first has to itself comes first.
Lines(bases) ==
    CASE Len(bases) = 0 -> <<>>
      [] Len(bases) = 1 -> mro[bases[1]]
      [] OTHER -> Without(mro[bases[1]], mro[bases[2]]) \o mro[bases[2]]

\* Bound: what comes behind a class that both bases have does so in both of them. (Then
\* this order is Python's. Otherwise Python weaves the two, or raises a TypeError.)
AgreeOnTheRest(line, other) ==
    \A i, j \in DOMAIN line : i < j /\ line[i] \in ToSet(other) =>
        \E p, q \in DOMAIN other : p < q /\ other[p] = line[i] /\ other[q] = line[j]

IsBases(c, bases) ==
    /\ ToSet(bases) \subseteq Defined /\ IsInjective(bases)
    /\ \A i, j \in DOMAIN bases : i # j => bases[i] \notin ToSet(mro[bases[j]])
    /\ Len(bases) = 2 => AgreeOnTheRest(mro[bases[1]], mro[bases[2]])
    /\ IF c \in Plain THEN bases = <<>>
       ELSE \E d \in ToSet(bases) : d \in Workers

\* copy.deepcopy(getattr(cls, "_hooks", _HooksMap())).
Inherited(line) ==
    hooks[line[CHOOSE i \in DOMAIN line :
                   line[i] \in Workers /\ \A j \in 1..i-1 : line[j] \notin Workers]]

\* One turn of the inner loop: an actor is replaced, other hooks add up.
Registered(map, hook, method) ==
    [map EXCEPT ![hook] = IF hook[1] = "actor" THEN <<method>> ELSE Append(@, method)]

MutNoted(entry) == SelectSeq(entry.hooks, LAMBDA h : h = entry.hooks[1])

\* The notes of stacked decorators, innermost first.
Noted(entry) == Reverse(entry.hooks)

CollectedEntry(map, entry) ==
    LET after[i \in 0..Len(Noted(entry))] ==
            IF i = 0 THEN map ELSE Registered(after[i-1], Noted(entry)[i], entry.method)
    IN  after[Len(Noted(entry))]

Collected(map, entries) ==
    LET after[i \in 0..Len(entries)] ==
            IF i = 0 THEN map ELSE CollectedEntry(after[i-1], entries[i])
    IN  after[Len(entries)]

IsCompatible(entry) == entry.hooks # <<>> => (entry.is_coro <=> IsAsync)

\* A class statement. A mixin is just a class, its notes stay where they are.
Define(c, bases, entries) ==
    /\ c \notin Defined /\ IsBases(c, bases) /\ ~rejected
    /\ IF c \notin Plain /\ \E i \in DOMAIN entries : ~IsCompatible(entries[i])
       THEN rejected' = TRUE /\ UNCHANGED <<mro, body, hooks>>
       ELSE /\ mro' = Extend(mro, c, <<c>> \o Lines(bases))
            /\ body' = Extend(body, c, entries)
            /\ hooks' = IF c \in Plain THEN hooks
                        ELSE Extend(hooks, c, Collected(Inherited(Lines(bases)), entries))
            /\ UNCHANGED rejected

BaseLists == {<<>>} \cup {<<b>> : b \in Defined} \cup (Defined \X Defined)

Next ==
    \/ \E c \in Classes, entries \in Bodies : \E bases \in BaseLists : Define(c, bases, entries)
    \/ UNCHANGED vars

Spec == Init /\ [][Next]_vars

-----------------------------------------------------------------------------
(* Properties. *)

\* In a line of single inheritance, what runs on a transition is what the bodies of the
\* line decorate for it, the ancestors' first, each body in source order, and a
\* method as often as it is decorated: redefining and decorating it again adds a
\* call. A state's actor is the last method to claim it (worker.py:149-173).
IsLine(c) == \A i, j \in DOMAIN mro[c] : i < j => mro[c][j] \in ToSet(mro[mro[c][i]])

Times(h, entry) == Cardinality({k \in DOMAIN entry.hooks : entry.hooks[k] = h})

Claims(h, entries) ==
    FlattenSeq([i \in DOMAIN entries |-> [j \in 1..Times(h, entries[i]) |-> entries[i].method]])

AllClaims(c, h) ==
    FlattenSeq([i \in DOMAIN mro[c] |-> Claims(h, body[Reverse(mro[c])[i]])])

LastClaim(claims) == IF claims = <<>> THEN <<>> ELSE <<Last(claims)>>

HooksAddUpAlongALine ==
    \A c \in DOMAIN hooks : IsLine(c) =>
        \A h \in Hooks :
            hooks[c][h] = IF h[1] = "actor" THEN LastClaim(AllClaims(c, h)) ELSE AllClaims(c, h)

=============================================================================
