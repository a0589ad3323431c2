------------------------------ MODULE MCTiming ------------------------------
(***************************************************************************)
(* Timing over a small machine.                                            *)
(***************************************************************************)
EXTENDS Timing

\* A machine with each kind of constraint: "running" beats, "terminating" has a
\* residence limit, and the edges of the happy path a time limit; the error
\* edges have none, as in the default machines.
TheFSM ==
    [initial_event |-> "start",
     next |-> [idle        |-> [start    |-> "running"],
               running     |-> [complete |-> "terminating", error |-> "crashed"],
               terminating |-> [complete |-> "stopped",     error |-> "crashed"]],
     terminal |-> [crashed |-> "ERROR", stopped |-> "OK"],
     heartbeat_timeouts  |-> [running |-> 3],
     transition_timeouts |-> [p \in {<<"running", "terminating">>,
                                     <<"terminating", "stopped">>} |-> 3],
     state_timeouts      |-> [terminating |-> 4]]

\* A punctual worker has few choices, and its machine takes longer to go through.
WatchTime == [in_time \in BOOLEAN |-> IF in_time THEN 9 ELSE 6]

\* The machine is one the theorems about WorkerWatch speak of.
ASSUME InitialIsUntimed /\ TimeoutsLeaveRoom
=============================================================================
