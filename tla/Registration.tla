---------------------------- MODULE Registration ----------------------------
(***************************************************************************)
(* Templates, units and executors of one supervisor: what register_workers *)
(* takes and when, what booting and restarting make of it                  *)
(* (supervisor.py:125-200, 314-327, 398-405).                              *)
(*                                                                         *)
(* A worker is [name, mode, empty]: sync or async, and whether it is a     *)
(* child supervisor nobody has registered workers with. Registering is a   *)
(* call of the program, before run() or, from the on_activity callback,    *)
(* between two activities of a running supervisor.                         *)
(***************************************************************************)
EXTENDS Naturals, Sequences

CONSTANTS
    Workers,         \* the workers a program may register
    MaxBatch,        \* bound: workers in one call
    Mode,            \* "sync" or "async": the supervisor's
    RestartQuota     \* settings.worker_restart_quota

WorkerNames == {w.name : w \in Workers}

VARIABLES
    templates,       \* name |-> worker
    units,           \* name |-> [generation, restart_count, kill_requested]
    running,         \* the executors that are alive, <<name, generation>>
    pc,              \* "idle", "booting", "running", "raised"
    starting,        \* units start_executors has not come to
    booted,          \* the templates units were first made of
    error            \* of the last call of register_workers or of the boot

vars == <<templates, units, running, pc, starting, booted, error>>

Nothing == [n \in {} |-> "nothing"]

Init ==
    /\ templates = Nothing /\ units = Nothing /\ running = {}
    /\ pc = "idle" /\ starting = {} /\ booted = {} /\ error = "none"

Merge(f, g) == [k \in DOMAIN f \cup DOMAIN g |-> IF k \in DOMAIN g THEN g[k] ELSE f[k]]

-----------------------------------------------------------------------------
(* register_workers. *)

\* Empty calls are refused too: () is no tuple of workers of the right mode.
IsOfMode(batch) == batch # <<>> /\ \A i \in DOMAIN batch : batch[i].mode = Mode

IsUnoccupied(batch, i) ==
    /\ batch[i].name \notin DOMAIN templates
    /\ \A j \in 1..(i - 1) : batch[j].name # batch[i].name

ByName(batch) ==
    [n \in {batch[i].name : i \in DOMAIN batch} |->
        batch[CHOOSE i \in DOMAIN batch : batch[i].name = n]]

\* Two loops: no worker is put before each has been looked at.
Added(batch) ==
    IF \A i \in DOMAIN batch : IsUnoccupied(batch, i) THEN ByName(batch) ELSE Nothing

Register(batch) ==
    /\ pc \in {"idle", "running"}
    /\ IF ~IsOfMode(batch) THEN error' = "IncompatibleWorkerType" /\ UNCHANGED templates
       ELSE /\ templates' = Merge(templates, Added(batch))
            /\ error' = IF \A i \in DOMAIN batch : IsUnoccupied(batch, i)
                        THEN "none" ELSE "DuplicateWorkerName"
    /\ UNCHANGED <<units, running, pc, starting, booted>>

-----------------------------------------------------------------------------
(* _boot, and restarts. *)

\* clone() of a child supervisor registers the clones of its workers anew, and so
\* refuses to have none (supervisor.py:314-318).
IsClonable(w) == ~w.empty

Clonable == {n \in DOMAIN templates : IsClonable(templates[n])}

NewUnit(generation) ==
    [generation |-> generation, restart_count |-> 0, kill_requested |-> FALSE]

\* materialize_units(worker_name=name): a filter that an empty name turns off.
Materialized(name, generation) ==
    [n \in {m \in DOMAIN templates : name # "" => m = name} |-> NewUnit(generation)]

\* Units are made in the order of the templates up to one that cannot be cloned, and
\* started once they are all made.
Boot ==
    /\ pc = "idle" /\ booted' = DOMAIN templates
    /\ IF templates # Nothing /\ Clonable = DOMAIN templates
       THEN /\ pc' = "booting" /\ starting' = DOMAIN templates /\ UNCHANGED error
            /\ units' = [n \in booted' |-> NewUnit(0)]
       ELSE /\ pc' = "raised" /\ UNCHANGED starting
            /\ error' = IF templates = Nothing THEN "NoWorkersRegistered"
                                               ELSE "IncompatibleWorkerType"
            /\ \E names \in SUBSET Clonable : units' = [n \in names |-> NewUnit(0)]
    /\ UNCHANGED <<templates, running>>

StartOne(n) ==
    /\ pc = "booting" /\ n \in starting /\ starting' = starting \ {n}
    /\ running' = running \cup {<<n, units[n].generation>>}
    /\ pc' = IF starting' = {} THEN "running" ELSE "booting"
    /\ UNCHANGED <<templates, units, booted, error>>

IsAlive(n) == <<n, units[n].generation>> \in running

Exit(x) ==
    /\ x \in running /\ running' = running \ {x}
    /\ UNCHANGED <<templates, units, pc, starting, booted, error>>

\* The unit goes, a new one takes its place and starts.
Replaced(n) ==
    [Merge(units, Materialized(n, units[n].generation + 1)) EXCEPT
        ![n].restart_count = units[n].restart_count + 1]

MutRestart(n) ==
    /\ pc = "running" /\ n \in DOMAIN units /\ units[n].restart_count < RestartQuota
    /\ units' = Replaced(n) /\ running' = running \cup {<<n, units'[n].generation>>}
    /\ UNCHANGED <<templates, pc, starting, booted, error>>

\* restart_unit on a unit that misses a deadline or has gone: kill, or replace.
Restart(n) ==
    /\ pc = "running" /\ n \in DOMAIN units /\ units[n].restart_count < RestartQuota
    /\ IF IsAlive(n)
       THEN units' = [units EXCEPT ![n].kill_requested = TRUE] /\ UNCHANGED running
       ELSE units' = Replaced(n) /\ running' = running \cup {<<n, units'[n].generation>>}
    /\ UNCHANGED <<templates, pc, starting, booted, error>>

Batches == UNION {[1..k -> Workers] : k \in 0..MaxBatch}

Next ==
    \/ \E batch \in Batches : Register(batch)
    \/ Boot
    \/ \E n \in WorkerNames : StartOne(n) \/ Restart(n)
    \/ \E x \in running : Exit(x)
    \/ pc = "raised" /\ UNCHANGED vars

Spec == Init /\ [][Next]_vars

-----------------------------------------------------------------------------
(* Properties. *)

\* Every executor that is alive belongs to a unit, and is the only one of its name: a
\* supervisor can kill whatever it has started. Here of workers whose names are
\* not empty (supervisor.py:179-200).
NoExecutorIsForgotten ==
    \A x \in running : x[1] \in DOMAIN units /\ units[x[1]].generation = x[2]

\* It runs what was registered when it booted, all of it and nothing else: no restart
\* brings in a worker that was registered later, and a boot that cannot clone one
\* of the workers starts none (supervisor.py:136-176, 195-206).
RunsWhatBooted ==
    /\ pc \in {"booting", "running"} => DOMAIN units = booted /\ booted # {}
    /\ pc = "raised" => running = {} /\ (booted = {} \/ DOMAIN units # booted)
    /\ \A n \in DOMAIN units : templates[n].mode = Mode /\ IsClonable(templates[n])

\* Whoever registers what and when, units, templates and executors add up: no
\* executor escapes the supervisor and none is of a worker it did not boot with.
UnitsAreAccounted == NoExecutorIsForgotten /\ RunsWhatBooted

\* docs/source/advanced.md:84 says of restarts that waiting for the executor to exit
\* "prevents overlapping incarnations". A restart of the worker whose name is ""
\* replaces every unit, those whose executors are alive too.
IncarnationsDoNotOverlap == \A x, y \in running : x[1] = y[1] => x = y
=============================================================================
