----------------------------- MODULE WorkerLoop -----------------------------
(***************************************************************************)
(* One incarnation of a leaf worker, from the first next() on its          *)
(* main_loop to its last breath (worker.py:265-366, core.py:42-65), driven *)
(* by its executor (execution.py:41-64, 81-84, 123-125, 144-147).          *)
(*                                                                         *)
(* The other modules see of a worker the activities it puts. This one is   *)
(* about what its own code sees: ctx.cmd, ctx.history, ctx.exception, the  *)
(* order of its hooks and the state they run in, before_exit. The          *)
(* generator is suspended at each yield, while the executor puts the       *)
(* activity and then resumes it with a command; user code (an actor, a     *)
(* hook) may raise whenever it runs, and the executor may be killed        *)
(* anywhere: a thread or task is interrupted, a process just vanishes.     *)
(***************************************************************************)
EXTENDS StateMachine, Sequences, SequencesExt

CONSTANTS
    Machine,         \* a state machine (IsStateMachine)
    Post, Pre,       \* <<state, event>> |-> the hooks registered for it, in order
    MaxHistory,      \* the ring buffer's maxlen, 100 in core.py
    LeavingEvents    \* what a cooperative actor emits once it is told to stop

HookNames ==
    UNION ({Range(Post[k]) : k \in DOMAIN Post} \cup {Range(Pre[k]) : k \in DOMAIN Pre})

ASSUME LoopAssumption ==
    /\ IsStateMachine(Machine)
    /\ \A k \in DOMAIN Post : Post[k] \in Seq(HookNames)
    /\ \A k \in DOMAIN Pre : Pre[k] \in Seq(HookNames)
    /\ MaxHistory \in Nat \ {0}

VARIABLES
    interruptible,   \* whether a kill raises in the worker, or it is a process
    cooperative,     \* whether its actors leave once they are told to stop
    term_event,      \* the executor's, set by stop()
    pc,              \* "unstarted", "put", "resume", "actor", "hooks", "exit", "over"
    activity,        \* the last one yielded
    state, cmd, history, exception,
    pending,         \* hooks of the transition still to run
    ran,             \* hooks of the transition that have returned, with the state they saw
    ended,           \* the last transitions announced as ended, one more than history holds
    exits,           \* the calls of before_exit
    how              \* "running", "returned", "raised" or "killed"

vars == <<interruptible, cooperative, term_event, pc, activity, state, cmd, history,
          exception, pending, ran, ended, exits, how>>

given == <<interruptible, cooperative>>

ctx == <<cmd, history, exception>>
hooks == <<pending, ran>>

Heartbeat == [kind |-> "heartbeat", transition |-> <<>>]
Transition(kind, src, e, tgt) == [kind |-> kind, transition |-> <<src, e, tgt>>]

Init ==
    /\ interruptible \in BOOLEAN /\ cooperative \in BOOLEAN
    /\ term_event = FALSE
    /\ pc = "unstarted" /\ activity = [kind |-> "none", transition |-> <<>>]
    /\ state = InitialState(Machine)
    /\ cmd = "tick" /\ history = <<>> /\ exception = "none"
    /\ pending = <<>> /\ ran = <<>> /\ ended = <<>> /\ exits = <<>>
    /\ how = "running"

\* deque(maxlen): the oldest entry makes room.
LastOf(n, s) == IF Len(s) > n THEN SubSeq(s, Len(s) - n + 1, Len(s)) ELSE s

Registered(table, key) == IF key \in DOMAIN table THEN table[key] ELSE <<>>

MutHooksOf(src, e, tgt) == Registered(Pre, <<tgt, e>>) \o Registered(Post, <<src, e>>)

\* src -> [post] -> [pre] -> tgt
HooksOf(src, e, tgt) == Registered(Post, <<src, e>>) \o Registered(Pre, <<tgt, e>>)

-----------------------------------------------------------------------------
(* The driver and the executor. *)

Yield(a) == activity' = a /\ pc' = "put"

\* The first yield of main_loop is outside of its try.
Start ==
    /\ pc = "unstarted" /\ Yield(Heartbeat)
    /\ UNCHANGED <<given, term_event, state, ctx, hooks, ended, exits, how>>

\* activity_queue.put has returned; ended is what the supervisor was told.
Put ==
    /\ pc = "put" /\ pc' = "resume"
    /\ ended' = IF activity.kind = "transition_end"
                THEN LastOf(MaxHistory + 1,
                            Append(ended, <<activity.transition[2], activity.transition[3]>>))
                ELSE ended
    /\ UNCHANGED <<given, term_event, activity, state, ctx, hooks, exits, how>>

MutCommandInTransitions == IF term_event /\ activity.kind # "heartbeat" THEN "stop" ELSE "tick"

\* A stop request persists through every remaining state transition.
Command == IF term_event THEN "stop" ELSE "tick"

AddTransition(e, tgt) == LastOf(MaxHistory, Append(history, <<e, tgt>>))

LoopHead == pc' = IF state \in TerminalStates(Machine) THEN "exit" ELSE "actor"

MutResumeForgetsLast ==
    /\ pc = "resume" /\ cmd' = Command
    /\ CASE activity.kind = "heartbeat" -> LoopHead /\ UNCHANGED history
         [] activity.kind = "transition_begin" -> pc' = "hooks" /\ UNCHANGED history
         [] activity.kind = "transition_end" ->
                /\ history' = IF state \in TerminalStates(Machine) THEN history
                              ELSE AddTransition(activity.transition[2], activity.transition[3])
                /\ LoopHead
    /\ UNCHANGED <<given, term_event, activity, state, exception, hooks, ended, exits, how>>

\* send(): the generator goes on from its yield to the next call of user code.
Resume ==
    /\ pc = "resume" /\ cmd' = Command
    /\ CASE activity.kind = "heartbeat" -> LoopHead /\ UNCHANGED history
         [] activity.kind = "transition_begin" -> pc' = "hooks" /\ UNCHANGED history
         [] activity.kind = "transition_end" ->
                /\ history' = AddTransition(activity.transition[2], activity.transition[3])
                /\ LoopHead
    /\ UNCHANGED <<given, term_event, activity, state, exception, hooks, ended, exits, how>>

Stop ==
    /\ pc # "over" /\ ~term_event /\ term_event' = TRUE
    /\ UNCHANGED <<given, pc, activity, state, ctx, hooks, ended, exits, how>>

-----------------------------------------------------------------------------
(* main_loop. *)

AllEvents == UNION {Events(Machine, s) : s \in States(Machine)}

\* The actor of the initial state always emits the initial event. A cooperative
\* actor that is told to stop leaves, or at least does not stay.
Emits ==
    IF state = InitialState(Machine) THEN {Machine.initial_event}
    ELSE IF cooperative /\ cmd = "stop"
         THEN IF Events(Machine, state) \cap LeavingEvents # {}
              THEN Events(Machine, state) \cap LeavingEvents
              ELSE Events(Machine, state)
    ELSE Events(Machine, state) \cup {"keepalive"}

Keepalive ==
    /\ pc = "actor" /\ "keepalive" \in Emits /\ Yield(Heartbeat)
    /\ UNCHANGED <<given, term_event, state, ctx, hooks, ended, exits, how>>

BeginTransition(e) ==
    /\ pc = "actor" /\ e \in Emits \ {"keepalive"}
    /\ LET tgt == TargetState(Machine, state, e)
       IN /\ Yield(Transition("transition_begin", state, e, tgt))
          /\ pending' = HooksOf(state, e, tgt) /\ ran' = <<>>
    /\ UNCHANGED <<given, term_event, state, ctx, ended, exits, how>>

RunHook ==
    /\ pc = "hooks" /\ pending # <<>>
    /\ pending' = Tail(pending) /\ ran' = Append(ran, <<Head(pending), state>>)
    /\ UNCHANGED <<given, term_event, pc, activity, state, ctx, ended, exits, how>>

EndTransition ==
    /\ pc = "hooks" /\ pending = <<>>
    /\ state' = activity.transition[3]
    /\ Yield([activity EXCEPT !.kind = "transition_end"])
    /\ UNCHANGED <<given, term_event, ctx, hooks, ended, exits, how>>

InUserCode == pc = "actor" \/ (pc = "hooks" /\ pending # <<>>)

\* An actor or a hook raises, or the actor emits what its state does not know.
Raise ==
    /\ InUserCode /\ pc' = "exit" /\ exception' = "raised" /\ how' = "raised"
    /\ UNCHANGED <<given, term_event, activity, state, cmd, history, hooks, ended, exits>>

MutBeforeExit ==
    /\ pc = "exit" /\ pc' = "over"
    /\ exits' = Append(exits, [graceful |-> ~term_event, exception |-> exception])
    /\ how' = IF how = "running" THEN "returned" ELSE how
    /\ UNCHANGED <<given, term_event, activity, state, ctx, hooks, ended>>

\* The finally clause. Nothing but the end of the while sets graceful_terminated.
BeforeExit ==
    /\ pc = "exit" /\ pc' = "over"
    /\ exits' = Append(exits, [graceful |-> how = "running", exception |-> exception])
    /\ how' = IF how = "running" THEN "returned" ELSE how
    /\ UNCHANGED <<given, term_event, activity, state, ctx, hooks, ended>>

\* An initial state yields no heartbeat but the first of all.
AtFirstYield ==
    pc \in {"put", "resume"} /\ activity.kind = "heartbeat" /\ state = InitialState(Machine)

InTry == pc \in {"actor", "hooks", "put", "resume"} /\ ~AtFirstYield

\* SystemExit or CancelledError, or the close() of the generator that follows when
\* they strike the executor: none of them an Exception, so that no clause but the
\* finally sees it. A generator still at its first yield has none; inside the
\* finally it is cut short.
Interrupt ==
    /\ interruptible /\ pc \notin {"unstarted", "over"} /\ how # "killed"
    /\ pc' = IF InTry THEN "exit" ELSE "over"
    /\ how' = "killed"
    /\ UNCHANGED <<given, term_event, activity, state, ctx, hooks, ended, exits>>

\* SIGKILL.
Vanish ==
    /\ ~interruptible /\ pc \notin {"unstarted", "over"}
    /\ pc' = "over" /\ how' = "killed"
    /\ UNCHANGED <<given, term_event, activity, state, ctx, hooks, ended, exits>>

Over == pc = "over" /\ UNCHANGED vars

Loop ==
    \/ Start \/ Put \/ Resume \/ Keepalive \/ RunHook \/ EndTransition \/ BeforeExit
    \/ \E e \in AllEvents : BeginTransition(e)

Next == Loop \/ Raise \/ Stop \/ Interrupt \/ Vanish \/ Over

Spec == Init /\ [][Next]_vars

\* The executor drives its worker on, and user code returns.
FairSpec == Spec /\ WF_vars(Loop)

-----------------------------------------------------------------------------
(* Properties. *)

\* ctx.history lags behind what the supervisor was told by the transition whose end
\* is being put, since add_transition comes after that yield (worker.py:301-305).
\* User code never sees the lag: whenever an actor or a hook runs, or before_exit
\* after a return, history is the path announced, or its last MaxHistory steps, and
\* ends where the worker is. A worker killed at that yield dies with the lag.
Behind == LastOf(MaxHistory, Front(ended))

HistoryIsThePath ==
    /\ IF pc = "resume" /\ activity.kind = "transition_end" THEN history = Behind
       ELSE \/ history = LastOf(MaxHistory, ended)
            \/ how = "killed" /\ activity.kind = "transition_end" /\ history = Behind
    /\ pc \in {"actor", "hooks"} /\ history # <<>> => Last(history)[2] = state
    /\ how = "returned" => Last(history)[2] = state

\* A transition is announced as ended only when every hook of its edge has returned,
\* those of leaving before those of entering, and all of them saw the state being
\* left. A hook that raises, or a kill between two, leaves the worker where it
\* was, the end unannounced (worker.py:295-304).
Registration(a) ==
    Registered(Post, <<a.transition[1], a.transition[2]>>)
        \o Registered(Pre, <<a.transition[3], a.transition[2]>>)

Saw(src, names) == [i \in DOMAIN names |-> <<names[i], src>>]

EndIsEarned ==
    /\ activity.kind = "transition_begin" =>
            /\ state = activity.transition[1]
            /\ ran \o Saw(state, pending) = Saw(state, Registration(activity))
    /\ activity.kind = "transition_end" =>
            /\ state = activity.transition[3]
            /\ ran = Saw(activity.transition[1], Registration(activity))

\* before_exit is called at most once, is told the truth, and finds the exception that
\* ended the loop and no other. A worker whose loop ended by itself or by an
\* exception has had its call; one that was interrupted has not only if it was
\* still at its first yield, which is outside of the try, or on its way out already
\* (worker.py:268-313).
ExitIsTrue ==
    /\ Len(exits) <= 1
    /\ how = "returned" => state \in TerminalStates(Machine)
    /\ exits # <<>> =>
            /\ exits[1].graceful <=> how = "returned"
            /\ exits[1].exception = "raised" <=> how = "raised"
    /\ pc = "over" /\ exits = <<>> =>
            /\ how = "killed"
            /\ interruptible => \/ state \in TerminalStates(Machine) \cup {InitialState(Machine)}
                               \/ exception = "raised"

\* A worker whose actors leave their state when told to stop ends once its executor is
\* told, even if the stop comes in the middle of a call, of hooks or of a put
\* (execution.py:46-51).
StopsWhenTold == cooperative /\ term_event ~> pc = "over"
=============================================================================
