------------------------------ MODULE Throttle ------------------------------
(***************************************************************************)
(* The rate limit of an actor, ActorFunction of runsmith/worker.py: the    *)
(* one through which supervision_interval paces a supervisor's ticks.      *)
(*                                                                         *)
(* A main loop calls the actor function again and again, with any delay    *)
(* between two calls (a yield, a transition, other states); the function   *)
(* sleeps and then invokes the callback. A sleep lasts at least as long as *)
(* it was asked to.                                                        *)
(***************************************************************************)
EXTENDS Integers, Sequences

CONSTANTS
    MinInterval,  \* min_interval in clock ticks; 0 stands for None, no limit
    MaxTime,      \* the bound of the clock
    MaxCalls      \* the bound of the calls

VARIABLES
    now,          \* time.monotonic()
    pc,           \* "ready" to be called, "sleeping", or "invoked"
    last_at,      \* __last_at, 0 before the first call
    wake_at,      \* when the sleep in course is over
    invocations   \* the times the callback was invoked at

vars == <<now, pc, last_at, wake_at, invocations>>

Init ==
    /\ now \in 0..MaxTime
    /\ pc = "ready" /\ last_at = 0 /\ wake_at = 0
    /\ invocations = <<>>

\* max(0, min_interval - elapsed), where elapsed is the time since the last
\* call (not since the last invocation).
MutSleepForNothing(elapsed) == 0

SleepFor(elapsed) ==
    IF MinInterval > elapsed THEN MinInterval - elapsed ELSE 0

\* __call__ stamps the call, then goes to sleep.
Call ==
    /\ pc = "ready" /\ pc' = "sleeping" /\ Len(invocations) < MaxCalls
    /\ wake_at' = now + SleepFor(now - last_at)
    /\ last_at' = now
    /\ UNCHANGED <<now, invocations>>

Invoke ==
    /\ pc = "sleeping" /\ wake_at <= now
    /\ pc' = "invoked"
    /\ invocations' = Append(invocations, now)
    /\ UNCHANGED <<now, last_at, wake_at>>

Return ==
    /\ pc = "invoked" /\ pc' = "ready"
    /\ UNCHANGED <<now, last_at, wake_at, invocations>>

\* Bound: the clock stops at MaxTime, and the worker is not called any more.
TimePasses ==
    /\ now < MaxTime /\ now' = now + 1
    /\ UNCHANGED <<pc, last_at, wake_at, invocations>>

Next == Call \/ Invoke \/ Return \/ TimePasses

Spec == Init /\ [][Next]_vars

-----------------------------------------------------------------------------
(***************************************************************************)
(* Properties.                                                             *)
(***************************************************************************)

\* What min_interval and supervision_interval are documented to mean: two
\* invocations in a row are at least MinInterval apart.
RateLimited ==
    \A i \in 1..Len(invocations) - 1 : invocations[i + 1] - invocations[i] >= MinInterval

\* What the stamp taken before the sleep leaves of it: an invocation and the next
\* but one are at least MinInterval apart, whatever happens in between.
EverySecondIsLimited ==
    \A i \in 1..Len(invocations) - 2 : invocations[i + 2] - invocations[i] >= MinInterval

TypeOK ==
    /\ now \in Nat /\ last_at \in Nat /\ wake_at \in Nat
    /\ pc \in {"ready", "sleeping", "invoked"}
    /\ invocations \in Seq(Nat)

Last(k) == invocations[Len(invocations) - k]

\* The inductive form of it: the call before the one in course was stamped no
\* earlier than the invocation before the last, and the sleep counts from there.
Paced ==
    /\ TypeOK
    /\ last_at <= now
    /\ pc # "sleeping" /\ Len(invocations) >= 2 => Last(1) <= last_at
    /\ pc = "sleeping" /\ Len(invocations) >= 1 => Last(0) <= last_at
    /\ pc = "sleeping" /\ Len(invocations) >= 2 => wake_at >= Last(1) + MinInterval
    /\ \A i \in 1..Len(invocations) : invocations[i] <= now
=============================================================================
