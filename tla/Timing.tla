------------------------------- MODULE Timing -------------------------------
(***************************************************************************)
(* The two mechanisms that have a clock: a supervisor's judgement of a     *)
(* worker (WorkerWatch) and the rate limit of an actor (Throttle). They    *)
(* share nothing: part says which of them a behaviour is about, and the    *)
(* other stays where it began.                                             *)
(***************************************************************************)
EXTENDS WorkerWatch

CONSTANTS MinInterval, MaxCallTime, MaxCalls

ASSUME CallAssumption == MinInterval \in Nat /\ MaxCallTime \in Nat /\ MaxCalls \in Nat

VARIABLES part, call_now, call_pc, last_at, wake_at, invocations

Calls == INSTANCE Throttle WITH MaxTime <- MaxCallTime, now <- call_now, pc <- call_pc

calls == <<call_now, call_pc, last_at, wake_at, invocations>>

TimingInit ==
    /\ part \in {"throttle", "watch"}
    /\ Init /\ Calls!Init
    /\ IF part = "throttle" THEN ~punctual ELSE call_now = 0

TimingNext ==
    \/ part = "watch" /\ Next /\ UNCHANGED <<part, calls>>
    \/ part = "throttle" /\ Calls!Next /\ UNCHANGED <<part, vars>>

TimingSpec == TimingInit /\ [][TimingNext]_<<part, vars, calls>>

-----------------------------------------------------------------------------
(* The property of Throttle; those of WorkerWatch are its own. *)

\* An invocation of an actor and the next but one are at least MinInterval apart.
EverySecondIsLimited == Calls!EverySecondIsLimited
=============================================================================
