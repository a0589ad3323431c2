----------------------------- MODULE ThreadKill -----------------------------
(***************************************************************************)
(* How a supervisor kills a thread: utils.kill_thread, ThreadExecutor.kill *)
(* and SupervisionUnit.kill, step by step, against threads that end and    *)
(* start meanwhile. A kill goes by thread ident, and the system gives the  *)
(* ident of a thread that is gone to the next one.                         *)
(*                                                                         *)
(* Every unit has a supervisor of its own, each in its own thread of one   *)
(* interpreter, so that one may start a thread while another kills.        *)
(***************************************************************************)
EXTENDS Integers

CONSTANTS
    Units,
    Idents,          \* thread idents, fewer than threads that ever run
    RestartQuota,    \* settings.worker_restart_quota
    Swallowing       \* the units whose worker may catch a SystemExit and carry on

Threads == Units \X (0..RestartQuota)

VARIABLES
    phase,           \* thread -> "unborn", "running", "leaving" (enumerate() has
                     \* dropped it, its interpreter state is there yet), "gone"
    ident,           \* thread -> the ident it was given; gone threads keep theirs
    pending,         \* threads with a SystemExit to raise at their next bytecode
    generation,      \* unit -> its incarnation
    kill_requested,  \* unit -> the flag of its SupervisionUnit
    pc,              \* unit -> where its supervisor is: "idle", "killing", "looked"
    spared,          \* unit -> the other threads that ran when its last kill began
    hits             \* pairs <<target, victim>> of kills that found a thread

vars == <<phase, ident, pending, generation, kill_requested, pc, spared, hits>>

Current(u) == <<u, generation[u]>>

\* threading.Thread.is_alive()
IsAlive(t) == phase[t] \in {"running", "leaving"}

\* A thread state is found by ident until the thread is gone.
States(i) == {t \in Threads : IsAlive(t) /\ ident[t] = i}

Init ==
    /\ phase = [t \in Threads |-> IF t[2] = 0 THEN "running" ELSE "unborn"]
    /\ ident \in [Threads -> Idents]
    /\ \A u, v \in Units : ident[<<u, 0>>] = ident[<<v, 0>>] => u = v
    /\ \A u \in Units : \A n \in 1..RestartQuota : ident[<<u, n>>] = ident[<<u, 0>>]
    /\ pending = {} /\ hits = {}
    /\ generation = [u \in Units |-> 0]
    /\ kill_requested = [u \in Units |-> FALSE]
    /\ pc = [u \in Units |-> "idle"]
    /\ spared = [u \in Units |-> {}]

-----------------------------------------------------------------------------
(* The threads. *)

Leave(t) == phase[t] = "running" /\ phase' = [phase EXCEPT ![t] = "leaving"]

\* The worker's loop ends by itself; a SystemExit that still pends is not raised.
Exit(t) ==
    /\ Leave(t)
    /\ UNCHANGED <<ident, pending, generation, kill_requested, pc, spared, hits>>

RaiseSystemExit(t) ==
    /\ t \in pending /\ pending' = pending \ {t}
    /\ Leave(t) \/ (t[1] \in Swallowing /\ phase[t] = "running" /\ UNCHANGED phase)
    /\ UNCHANGED <<ident, generation, kill_requested, pc, spared, hits>>

Vanish(t) ==
    /\ phase[t] = "leaving" /\ phase' = [phase EXCEPT ![t] = "gone"]
    /\ pending' = pending \ {t}
    /\ UNCHANGED <<ident, generation, kill_requested, pc, spared, hits>>

-----------------------------------------------------------------------------
(* The supervisors. *)

MutBeginKill(u) ==
    /\ pc[u] = "idle" /\ ~kill_requested[u]
    /\ pc' = [pc EXCEPT ![u] = "killing"]
    /\ spared' = [spared EXCEPT ![u] = {t \in Threads \ {Current(u)} : IsAlive(t)}]
    /\ UNCHANGED <<phase, ident, pending, generation, kill_requested, hits>>

\* restart_unit, drain_units and kill_executors ask is_alive() and call unit.kill().
BeginKill(u) ==
    /\ pc[u] = "idle" /\ IsAlive(Current(u)) /\ ~kill_requested[u]
    /\ pc' = [pc EXCEPT ![u] = "killing"]
    /\ spared' = [spared EXCEPT ![u] = {t \in Threads \ {Current(u)} : IsAlive(t)}]
    /\ UNCHANGED <<phase, ident, pending, generation, kill_requested, hits>>

\* ValueError is caught: either way the kill counts as requested.
EndKill(u) ==
    /\ pc' = [pc EXCEPT ![u] = "idle"]
    /\ kill_requested' = [kill_requested EXCEPT ![u] = TRUE]

\* Is the ident among those of threading.enumerate()?
Look(u) ==
    /\ pc[u] = "killing"
    /\ IF \E t \in Threads : phase[t] = "running" /\ ident[t] = ident[Current(u)]
       THEN pc' = [pc EXCEPT ![u] = "looked"] /\ UNCHANGED kill_requested
       ELSE EndKill(u)
    /\ UNCHANGED <<phase, ident, pending, generation, spared, hits>>

MutInject(u) ==
    /\ pc[u] = "looked"
    /\ hits' = hits \cup {<<Current(u), t>> : t \in States(ident[Current(u)])}
    /\ EndKill(u)
    /\ UNCHANGED <<phase, ident, pending, generation, spared>>

\* PyThreadState_SetAsyncExc: whoever has the ident now.
Inject(u) ==
    /\ pc[u] = "looked"
    /\ LET victims == States(ident[Current(u)])
       IN /\ pending' = pending \cup victims
          /\ hits' = hits \cup {<<Current(u), t>> : t \in victims}
    /\ EndKill(u)
    /\ UNCHANGED <<phase, ident, generation, spared>>

\* The next incarnation, once the last one is gone; its thread takes any free ident.
Restart(u) ==
    /\ pc[u] = "idle" /\ ~IsAlive(Current(u)) /\ generation[u] < RestartQuota
    /\ generation' = [generation EXCEPT ![u] = @ + 1]
    /\ kill_requested' = [kill_requested EXCEPT ![u] = FALSE]
    /\ \E i \in Idents :
        /\ States(i) = {}
        /\ phase' = [phase EXCEPT ![<<u, generation[u] + 1>>] = "running"]
        /\ ident' = [ident EXCEPT ![<<u, generation[u] + 1>>] = i]
    /\ UNCHANGED <<pending, pc, spared, hits>>

ThreadStep(t) == Exit(t) \/ RaiseSystemExit(t) \/ Vanish(t)
KillStep(u) == Look(u) \/ Inject(u)

Next ==
    \/ \E t \in Threads : ThreadStep(t)
    \/ \E u \in Units : BeginKill(u) \/ KillStep(u) \/ Restart(u)

Spec == Init /\ [][Next]_vars

\* Python code goes on: a thread with a pending exception reaches its next bytecode,
\* a thread that left its loop disappears, a kill that began ends. No worker need end
\* by itself, and no supervisor need find fault with one.
FairSpec ==
    /\ Spec
    /\ \A t \in Threads : WF_vars(RaiseSystemExit(t)) /\ WF_vars(Vanish(t))
    /\ \A u \in Units : WF_vars(KillStep(u))

-----------------------------------------------------------------------------
(* Properties. *)

TypeOK ==
    /\ phase \in [Threads -> {"unborn", "running", "leaving", "gone"}]
    /\ ident \in [Threads -> Idents]
    /\ pending \subseteq Threads
    /\ generation \in [Units -> 0..RestartQuota]
    /\ kill_requested \in [Units -> BOOLEAN]
    /\ pc \in [Units -> {"idle", "killing", "looked"}]
    /\ spared \in [Units -> SUBSET Threads]
    /\ hits \subseteq Threads \X Threads

\* A kill never hits a thread that was running beside its target when it began: the
\* only stranger it can hit is one started since, after the target was gone. The test of
\* is_alive() before unit.kill() is what this rests on (supervisor.py:183, 217, 272).
StrangersAreSpared ==
    \A u \in Units : \A t \in spared[u] :
        pc[u] # "idle" \/ kill_requested[u] => <<Current(u), t>> \notin hits

\* At most one kill per incarnation finds a thread, its own or another's.
KillsOnce ==
    \A k, l \in hits : k[1] = l[1] => k = l

\* A kill that was begun brings its target down, unless the worker itself catches the
\* SystemExit: whichever way the kill raced with the thread's own end, through
\* either ValueError or none (execution.py:96-100).
KillTakes ==
    \A u \in Units \ Swallowing : \A n \in 0..RestartQuota :
        pc[u] # "idle" /\ generation[u] = n ~> phase[<<u, n>>] = "gone"
=============================================================================
