------------------------------ MODULE Defaults ------------------------------
(***************************************************************************)
(* The two machines runsmith ships (runsmith/defaults.py): the one every   *)
(* leaf worker runs unless told otherwise, and the one supervisors run,    *)
(* which reaps its children before it may crash.                           *)
(***************************************************************************)
EXTENDS StateMachine

DefaultTerminals == [crashed |-> "ERROR", stopped |-> "OK"]

\* TransitionTimeout constraints shared by both machines: the happy path only.
DefaultTransitionTimeouts ==
    [p \in {<<"idle", "starting">>, <<"starting", "running">>,
            <<"running", "terminating">>, <<"terminating", "stopped">>} |-> 1]

DefaultWorkerFSM ==
    [initial_event |-> "start",
     next |-> [idle        |-> [start    |-> "starting"],
               starting    |-> [run      |-> "running",     error |-> "crashed"],
               running     |-> [complete |-> "terminating", error |-> "crashed"],
               terminating |-> [complete |-> "stopped",     error |-> "crashed"]],
     terminal |-> DefaultTerminals,
     heartbeat_timeouts  |-> [running |-> 2],
     transition_timeouts |-> DefaultTransitionTimeouts,
     state_timeouts      |-> [starting |-> 10, terminating |-> 10]]

SupervisorFSM ==
    [initial_event |-> "start",
     next |-> [idle        |-> [start    |-> "starting"],
               starting    |-> [run      |-> "running",     error |-> "crashed"],
               running     |-> [complete |-> "terminating", error |-> "reaping"],
               reaping     |-> [complete |-> "crashed",     error |-> "crashed"],
               terminating |-> [complete |-> "stopped",     error |-> "crashed"]],
     terminal |-> DefaultTerminals,
     heartbeat_timeouts  |-> [running |-> 2],
     transition_timeouts |->
        [p \in DOMAIN DefaultTransitionTimeouts
               \cup {<<"running", "reaping">>, <<"reaping", "crashed">>} |-> 1],
     state_timeouts      |-> [starting |-> 10, terminating |-> 10, reaping |-> 10]]
=============================================================================
