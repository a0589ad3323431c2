------------------------------ MODULE MCRuntime ------------------------------
(***************************************************************************)
(* A small machine and its hooks, for the run of Runtime.                  *)
(***************************************************************************)
EXTENDS Runtime

\* A machine that may go round, and one or two hooks on some of its edges.
TheMachine ==
    [initial_event |-> "go",
     next |-> [x |-> [go   |-> "y"],
               y |-> [work |-> "z", done |-> "ok", error |-> "bad"],
               z |-> [work |-> "y", error |-> "bad"]],
     terminal |-> [ok |-> "OK", bad |-> "ERROR"],
     heartbeat_timeouts |-> <<>>, transition_timeouts |-> <<>>, state_timeouts |-> <<>>]

ThePost ==
    [k \in {<<"y", "work">>, <<"y", "error">>} |->
        IF k[2] = "work" THEN <<"left", "counted">> ELSE <<"failed">>]

ThePre == [k \in {<<"z", "work">>, <<"y", "work">>, <<"ok", "done">>} |-> <<"entering">>]

TheLeavingEvents == {"done"}
=============================================================================
