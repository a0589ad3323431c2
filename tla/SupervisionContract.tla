------------------------- MODULE SupervisionContract ------------------------
(***************************************************************************)
(* What a supervisor promises the program that runs it, without queue,     *)
(* evaluator or tick: it launches every worker once, replaces only workers *)
(* that are gone and only while it supervises, each at most as often as    *)
(* its quota allows, and it ends only when nothing it launched is left     *)
(* running. The one way out of that promise is to abort, on an error       *)
(* outside its own control, and then every worker still there has been     *)
(* told to die.                                                            *)
(***************************************************************************)
EXTENDS Naturals

CONSTANTS
    Workers,
    Quota         \* worker -> how often it may be replaced

VARIABLES
    phase,        \* "booting", "supervising", "draining", "ended" or "aborted"
    alive,        \* the workers that are running
    doomed,       \* the running workers that were told to die
    incarnation   \* worker -> how often it was replaced

vars == <<phase, alive, doomed, incarnation>>

Init ==
    /\ phase = "booting"
    /\ alive = {} /\ doomed = {}
    /\ incarnation = [w \in Workers |-> 0]

Launch ==
    /\ phase = "booting" /\ phase' = "supervising"
    /\ alive' = Workers
    /\ UNCHANGED <<doomed, incarnation>>

\* A worker ends, on its own or because it was told to; doom does not outlive it.
Leave(w) ==
    /\ w \in alive
    /\ alive' = alive \ {w} /\ doomed' = doomed \ {w}
    /\ UNCHANGED <<phase, incarnation>>

\* Told to die: in supervision one at a time, in the shutdown several at once.
Doom(victims) ==
    /\ phase \in {"supervising", "draining"}
    /\ victims \subseteq alive
    /\ doomed' = doomed \cup victims
    /\ UNCHANGED <<phase, alive, incarnation>>

Replace(w) ==
    /\ phase = "supervising"
    /\ w \notin alive /\ incarnation[w] < Quota[w]
    /\ alive' = alive \cup {w}
    /\ incarnation' = [incarnation EXCEPT ![w] = @ + 1]
    /\ UNCHANGED <<phase, doomed>>

Drain ==
    /\ phase = "supervising" /\ phase' = "draining"
    /\ UNCHANGED <<alive, doomed, incarnation>>

End ==
    /\ phase = "draining" /\ phase' = "ended"
    /\ alive = {}
    /\ UNCHANGED <<alive, doomed, incarnation>>

\* A boot that fails leaves behind some of the workers, doomed.
AbortBoot ==
    /\ phase = "booting" /\ phase' = "aborted"
    /\ \E started \in SUBSET Workers : alive' = started /\ doomed' = started
    /\ UNCHANGED incarnation

\* The replacement that failed may be counted, and runs nowhere.
Abort ==
    /\ phase \in {"supervising", "draining"} /\ phase' = "aborted"
    /\ doomed' = alive
    /\ \/ UNCHANGED incarnation
       \/ \E w \in Workers \ alive :
            /\ incarnation[w] < Quota[w]
            /\ incarnation' = [incarnation EXCEPT ![w] = @ + 1]
    /\ UNCHANGED alive

Next ==
    \/ Launch \/ Drain \/ End \/ AbortBoot \/ Abort
    \/ \E w \in Workers : Leave(w) \/ Replace(w)
    \/ \E victims \in SUBSET alive : Doom(victims)

Spec == Init /\ [][Next]_vars

\* What the program that runs a supervisor may rely on in every state: each restart is
\* paid for by the quota, nothing is left running at the end, and what an abort leaves
\* running has been told to die.
Promises ==
    /\ doomed \subseteq alive /\ alive \subseteq Workers
    /\ incarnation \in [Workers -> Nat]
    /\ \A w \in Workers : incarnation[w] <= Quota[w]
    /\ phase \in {"booting", "ended"} => alive = {}
    /\ phase = "aborted" => alive = doomed

\* A step that lets what was told to die stay so until it is gone, and starts nothing
\* once the supervisor drains.
LetsDie ==
    /\ \A w \in doomed : w \in alive' => w \in doomed'
    /\ phase \notin {"booting", "supervising"} => alive' \subseteq alive

\* And it may rely on every step: a supervisor takes no kill back, and a drain that
\* began only goes down.
DoomIsFinal == [][LetsDie]_vars
=============================================================================
