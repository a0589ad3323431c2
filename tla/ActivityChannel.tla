--------------------------- MODULE ActivityChannel --------------------------
(***************************************************************************)
(* What a supervisor may rely on about the activities of its workers,      *)
(* whatever carries them: the activities of one incarnation arrive in the  *)
(* order they were put and without gaps; an incarnation that ends on its   *)
(* own loses none; one that is killed loses at most the last ones; and a   *)
(* new incarnation starts a stream of its own.                             *)
(***************************************************************************)
EXTENDS Naturals

CONSTANTS Workers

VARIABLES
    incarnation,  \* worker -> which incarnation its stream belongs to
    sent,         \* worker -> activities of it that were put and are not lost
    delivered,    \* worker -> how many of them have reached the supervisor
    over          \* the workers whose current incarnation has ended

vars == <<incarnation, sent, delivered, over>>

Init ==
    /\ incarnation = [w \in Workers |-> 0]
    /\ sent = [w \in Workers |-> 0]
    /\ delivered = [w \in Workers |-> 0]
    /\ over = {}

Send(w) ==
    /\ w \notin over
    /\ sent' = [sent EXCEPT ![w] = @ + 1]
    /\ UNCHANGED <<incarnation, delivered, over>>

Deliver(w) ==
    /\ delivered[w] < sent[w]
    /\ delivered' = [delivered EXCEPT ![w] = @ + 1]
    /\ UNCHANGED <<incarnation, sent, over>>

End(w) ==
    /\ w \notin over /\ over' = over \cup {w}
    /\ UNCHANGED <<incarnation, sent, delivered>>

\* What was delivered stays delivered; a suffix of the rest may be lost.
Crash(w) ==
    /\ w \notin over /\ over' = over \cup {w}
    /\ \E kept \in delivered[w]..sent[w] : sent' = [sent EXCEPT ![w] = kept]
    /\ UNCHANGED <<incarnation, delivered>>

Renew(w) ==
    /\ w \in over /\ over' = over \ {w}
    /\ incarnation' = [incarnation EXCEPT ![w] = @ + 1]
    /\ sent' = [sent EXCEPT ![w] = 0]
    /\ delivered' = [delivered EXCEPT ![w] = 0]

Next ==
    \E w \in Workers : Send(w) \/ Deliver(w) \/ End(w) \/ Crash(w) \/ Renew(w)

Spec == Init /\ [][Next]_vars
=============================================================================
