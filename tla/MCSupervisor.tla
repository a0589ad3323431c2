---------------------------- MODULE MCSupervisor ----------------------------
(***************************************************************************)
(* Instances of Supervisor for TLC: the smallest machine with a happy and  *)
(* a crashing end, and the default worker machine.                         *)
(***************************************************************************)
EXTENDS Supervisor, TLC

\* idle -start-> running, then -complete-> stopped or -error-> crashed.
CompactFSM ==
    [initial_event |-> "start",
     next |-> [idle    |-> [start    |-> "running"],
               running |-> [complete |-> "stopped", error |-> "crashed"]],
     terminal |-> DefaultTerminals,
     heartbeat_timeouts  |-> [running |-> 2],
     transition_timeouts |-> [p \in {<<"idle", "running">>, <<"running", "stopped">>} |-> 1],
     state_timeouts      |-> <<>>]

\* idle -start-> running -complete-> stopped: a worker that fails raises.
OneWayFSM ==
    [CompactFSM EXCEPT
        !.next = [idle    |-> [start    |-> "running"],
                  running |-> [complete |-> "stopped"]],
        !.terminal = [stopped |-> "OK"]]

WorkerSymmetry == Permutations(Workers)
=============================================================================
