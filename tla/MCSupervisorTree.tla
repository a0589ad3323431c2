-------------------------- MODULE MCSupervisorTree --------------------------
(***************************************************************************)
(* A tree for TLC: a root over one supervisor over one worker, all of them *)
(* threads, or the supervisor in a process with its worker in a thread.    *)
(***************************************************************************)
EXTENDS SupervisorTree

ChainTree == [root |-> {"sup"}, sup |-> {"worker"}]

FewExecutorTypes == {[root |-> type, sup |-> "thread"] : type \in {"thread", "process"}}
=============================================================================
