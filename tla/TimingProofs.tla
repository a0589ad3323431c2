--------------------------- MODULE TimingProofs ----------------------------
(***************************************************************************)
(* Timing: what the theorems say of WorkerWatch and Throttle for every     *)
(* machine, queue, delay and interval.                                     *)
(*                                                                         *)
(* The first invariant, WatchInv, relates what the supervisor expects to   *)
(* what the worker did last, through the stream of activities that are on  *)
(* their way: whenever no transition is among them, the deadlines that are *)
(* armed are those of the worker's own state. It gives the properties of   *)
(* notice. The second, PunctualInv, adds that each activity on its way was *)
(* made in time for the deadlines that will be armed when it is recorded,  *)
(* and that a drain gets to all that was made PutDelay before it began: so *)
(* a worker in time is never found lingering.                              *)
(***************************************************************************)
EXTENDS Timing, SequenceTheorems, TLAPS

-----------------------------------------------------------------------------
(* What the supervisor has not recorded yet, in the order it will be.       *)

\* The queue and, behind it, the activity the worker is about to put.
Stream == IF pc = "put" THEN Append(queue, act) ELSE queue

Beats(q, i, j) == \A k \in i..j : q[k].kind = "heartbeat"

IsBegin(a) == a.kind = "transition_begin"

IsEnd(a) == a.kind = "transition_end"

Timeouts == Nat \cup {Inf}

Beat(s) == TimeoutOf(FSM.heartbeat_timeouts, s)

EdgeTime(p) == TimeoutOf(FSM.transition_timeouts, p)

Stay(s) == TimeoutOf(FSM.state_timeouts, s)

Acts ==
    [kind : {"heartbeat"}, transition : {<<>>}, ts : Nat] \cup
    [kind : {"transition_begin", "transition_end"}, transition : States(FSM) \X States(FSM),
     ts : Nat]

Expectations ==
    [state : States(FSM), transition_deadline : Timeouts, next_heartbeat : Timeouts,
     state_expiry : Timeouts]

-----------------------------------------------------------------------------
(* The invariant for any worker.                                            *)

TypeOK ==
    /\ punctual \in BOOLEAN /\ term \in BOOLEAN /\ told_at \in Nat
    /\ now \in Nat /\ entered \in Nat /\ looked_at \in Nat /\ drained \in 0..QueueMax
    /\ pc \in {"actor", "hooks", "put"}
    /\ watch \in {"away", "draining", "judging"}
    /\ state \in States(FSM) /\ act \in Acts
    /\ queue \in Seq(Acts) /\ Len(queue) <= QueueMax
    /\ expectation \in Expectations

\* Where the worker is tells what it did last.
WorkerOK ==
    /\ pc = "hooks" => IsBegin(act)
    /\ pc = "actor" => ~IsBegin(act)
    /\ state \in TerminalStates(FSM) => IsEnd(act)
    /\ entered <= act.ts /\ act.ts <= now

\* The stream ends with the last activity, nothing in it is younger, and a transition
\* that began is ended by the very next activity.
StreamOK(q, a) ==
    /\ q # <<>> => q[Len(q)] = a
    /\ \A i \in 1..Len(q) : q[i].ts <= a.ts
    /\ \A i \in 1..Len(q) - 1 : IsBegin(q[i]) => IsEnd(q[i + 1])

\* Where only heartbeats are on their way, the supervisor knows the worker's state, and
\* its deadlines are those of that state; the heartbeat's may be early by what is on its
\* way or was dropped, and no heartbeat sent after the stop has moved it.
IsKnown(q) ==
    /\ expectation.state = state
    /\ expectation.transition_deadline = Inf
    /\ expectation.state_expiry = ArmedFor(FSM, state, FSM.state_timeouts, entered)
    /\ LET armed == ArmedFor(FSM, state, FSM.heartbeat_timeouts, act.ts) IN
        /\ expectation.next_heartbeat = Inf <=> armed = Inf
        /\ expectation.next_heartbeat <= armed
        /\ ~term /\ q = <<>> => expectation.next_heartbeat = armed
    /\ term => expectation.next_heartbeat
                    <= ArmedFor(FSM, state, FSM.heartbeat_timeouts, UnheededSince)

\* The last transition that ended, recorded or not, is the one to the worker's state.
KnownOK(q) ==
    ~IsBegin(act) =>
        /\ Beats(q, 1, Len(q)) => IsKnown(q)
        /\ \A e \in 1..Len(q) : IsEnd(q[e]) /\ Beats(q, e + 1, Len(q)) =>
                q[e].transition[2] = state /\ q[e].ts = entered

\* A transition that began and was recorded has its own deadline and no other.
BegunOK(q) ==
    IsBegin(act) /\ q = <<>> =>
        /\ expectation.transition_deadline = After(act.ts, EdgeTime(act.transition))
        /\ expectation.next_heartbeat = Inf
        /\ expectation.state_expiry = Inf

WatchInv ==
    /\ TypeOK
    /\ WorkerOK
    /\ StreamOK(Stream, act)
    /\ KnownOK(Stream)
    /\ BegunOK(Stream)

-----------------------------------------------------------------------------
(* The machine and the stream.                                              *)

\* What the constructor accepts has an initial state that is not terminal.
LEMMA InitialStateIsOne ==
    InitialState(FSM) \in States(FSM) \ TerminalStates(FSM)
<1>1. PICK initial \in DOMAIN FSM.next :
        \A s \in States(FSM) : s # initial <=> HasIncomingEdge(FSM, s)
    BY WatchAssumption DEF IsStateMachine
<1>2. \E s \in DOMAIN FSM.next : ~HasIncomingEdge(FSM, s)
    BY <1>1 DEF States
<1>3. InitialState(FSM) \in DOMAIN FSM.next
    BY <1>2 DEF InitialState
<1> QED
    BY <1>3, WatchAssumption DEF IsStateMachine, States, TerminalStates

LEMMA TimeoutTypes ==
    /\ \A s : Beat(s) \in Timeouts /\ EdgeTime(s) \in Timeouts /\ Stay(s) \in Timeouts
    /\ \A s : Beat(s) # Inf => Beat(s) \in Nat \ {0}
    /\ \A s : EdgeTime(s) # Inf => EdgeTime(s) \in Nat \ {0}
    /\ \A s : Stay(s) # Inf => Stay(s) \in Nat \ {0}
<1>1. /\ \A k \in DOMAIN FSM.heartbeat_timeouts : FSM.heartbeat_timeouts[k] \in Nat \ {0}
      /\ \A k \in DOMAIN FSM.transition_timeouts : FSM.transition_timeouts[k] \in Nat \ {0}
      /\ \A k \in DOMAIN FSM.state_timeouts : FSM.state_timeouts[k] \in Nat \ {0}
    BY WatchAssumption DEF IsStateMachine, AreTimeouts
<1>2. \A s : Beat(s) \in Timeouts /\ (Beat(s) # Inf => Beat(s) \in Nat \ {0})
    BY <1>1 DEF Beat, TimeoutOf, Timeouts
<1>3. \A s : EdgeTime(s) \in Timeouts /\ (EdgeTime(s) # Inf => EdgeTime(s) \in Nat \ {0})
    BY <1>1 DEF EdgeTime, TimeoutOf, Timeouts
<1>4. \A s : Stay(s) \in Timeouts /\ (Stay(s) # Inf => Stay(s) \in Nat \ {0})
    BY <1>1 DEF Stay, TimeoutOf, Timeouts
<1> QED
    BY <1>2, <1>3, <1>4

LEMMA AfterType ==
    ASSUME NEW t \in Nat, NEW d \in Timeouts
    PROVE  After(t, d) \in Timeouts /\ (After(t, d) = Inf <=> d = Inf)
BY DEF After, Timeouts, Inf

LEMMA ActFields ==
    ASSUME NEW a \in Acts
    PROVE  /\ a.ts \in Nat
           /\ a.kind \in ActivityKinds
           /\ a.kind = "heartbeat" \/ IsBegin(a) \/ IsEnd(a)
           /\ a.kind # "heartbeat" => a.transition \in States(FSM) \X States(FSM)
           /\ a.kind = "heartbeat" => ~IsBegin(a) /\ ~IsEnd(a)
           /\ IsBegin(a) => ~IsEnd(a)
BY DEF Acts, IsBegin, IsEnd, ActivityKinds

LEMMA StreamType ==
    ASSUME TypeOK
    PROVE  /\ Stream \in Seq(Acts)
           /\ Len(Stream) = IF pc = "put" THEN Len(queue) + 1 ELSE Len(queue)
           /\ \A i \in 1..Len(queue) : Stream[i] = queue[i]
           /\ pc = "put" => Stream[Len(queue) + 1] = act
           /\ \A i \in 1..Len(Stream) : Stream[i] \in Acts
<1>1. queue \in Seq(Acts) /\ act \in Acts
    BY DEF TypeOK
<1>2. CASE pc = "put"
    <2>1. Stream = Append(queue, act)
        BY <1>2 DEF Stream
    <2> QED
        BY <1>1, <1>2, <2>1
<1>3. CASE pc # "put"
    <2>1. Stream = queue
        BY <1>3 DEF Stream
    <2> QED
        BY <1>1, <1>3, <2>1
<1> QED
    BY <1>2, <1>3

\* A new activity lengthens the stream.
LEMMA StreamGrows ==
    ASSUME TypeOK, pc # "put", pc' = "put", queue' = queue
    PROVE  Stream' = Append(Stream, act')
BY DEF Stream

\* A put leaves it.
LEMMA StreamIsPut ==
    ASSUME TypeOK, Put
    PROVE  Stream' = Stream
BY DEF Stream, Put

\* A drain takes its first activity.
LEMMA StreamDrains ==
    ASSUME TypeOK, DrainOne
    PROVE  /\ Stream # <<>> /\ Stream[1] = Head(queue) /\ Stream[1] \in Acts
           /\ Stream' = Tail(Stream)
           /\ Len(Stream) \in Nat \ {0} /\ Stream' \in Seq(Acts)
           /\ Len(Stream') = Len(Stream) - 1
           /\ \A i \in 1..Len(Stream') : Stream'[i] = Stream[i + 1]
<1>1. queue \in Seq(Acts) /\ act \in Acts /\ queue # <<>> /\ queue' = Tail(queue)
      /\ pc' = pc /\ act' = act
    BY DEF TypeOK, DrainOne, worker
<1>2. /\ Len(queue) \in Nat \ {0} /\ Tail(queue) \in Seq(Acts)
      /\ Len(Tail(queue)) = Len(queue) - 1
      /\ \A i \in 1..Len(queue) - 1 : Tail(queue)[i] = queue[i + 1]
      /\ Head(queue) = queue[1]
    BY <1>1
<1>3. Stream # <<>> /\ Stream[1] = Head(queue) /\ Stream[1] \in Acts /\ Len(Stream) \in Nat \ {0}
    BY <1>1, <1>2, StreamType
<1>4. Tail(Stream) \in Seq(Acts) /\ Len(Tail(Stream)) = Len(Stream) - 1
      /\ \A i \in 1..Len(Stream) - 1 : Tail(Stream)[i] = Stream[i + 1]
    BY <1>3, StreamType
<1>5. Stream' = Tail(Stream)
    <2>1. CASE pc = "put"
        <3>1. Stream' = Append(Tail(queue), act) /\ Stream = Append(queue, act)
            BY <2>1, <1>1 DEF Stream
        <3> QED
            BY <3>1, <1>1, HeadTailAppend
    <2>2. CASE pc # "put"
        BY <2>2, <1>1 DEF Stream
    <2> QED
        BY <2>1, <2>2
<1> QED
    BY <1>3, <1>4, <1>5

\* The heartbeats at the end of a stream that has lost its head or gained a tail.
LEMMA BeatsOfTail ==
    ASSUME NEW q \in Seq(Acts), NEW r \in Seq(Acts), Len(q) \in Nat \ {0}, Len(r) = Len(q) - 1,
           \A i \in 1..Len(r) : r[i] = q[i + 1], NEW e \in 1..Len(r) + 1, NEW j \in 0..Len(r)
    PROVE  Beats(r, e, j) <=> Beats(q, e + 1, j + 1)
<1>1. ASSUME Beats(r, e, j), NEW k \in e + 1..j + 1
      PROVE  q[k].kind = "heartbeat"
    <2>1. k - 1 \in e..j /\ k - 1 \in 1..Len(r) /\ k - 1 + 1 = k
        OBVIOUS
    <2> QED
        BY <1>1, <2>1 DEF Beats
<1>2. ASSUME Beats(q, e + 1, j + 1), NEW k \in e..j
      PROVE  r[k].kind = "heartbeat"
    <2>1. k + 1 \in e + 1..j + 1 /\ k \in 1..Len(r)
        OBVIOUS
    <2> QED
        BY <1>2, <2>1 DEF Beats
<1> QED
    BY <1>1, <1>2 DEF Beats

-----------------------------------------------------------------------------
(* What the evaluator makes of an activity.                                 *)

LEMMA RecordBegin ==
    ASSUME NEW x \in Expectations, NEW a \in Acts, IsBegin(a),
           NEW r, r = Record(FSM, x, a.kind, a.transition, a.ts)
    PROVE  /\ r \in Expectations /\ r.state = x.state
           /\ r.transition_deadline = After(a.ts, EdgeTime(a.transition))
           /\ r.next_heartbeat = Inf /\ r.state_expiry = Inf
<1>1. a.ts \in Nat /\ a.transition \in States(FSM) \X States(FSM)
    BY ActFields DEF IsBegin
<1>2. a.transition = <<a.transition[1], a.transition[2]>>
    BY <1>1
<1>3. r = RecordTransitionBegin(FSM, x, a.transition[1], a.transition[2], a.ts)
    BY DEF Record, IsBegin
<1>4. r = [x EXCEPT !.transition_deadline = After(a.ts, EdgeTime(a.transition)),
                    !.next_heartbeat = Inf, !.state_expiry = Inf]
    BY <1>2, <1>3 DEF RecordTransitionBegin, EdgeTime
<1>5. After(a.ts, EdgeTime(a.transition)) \in Timeouts /\ Inf \in Timeouts
    BY <1>1, AfterType, TimeoutTypes DEF Timeouts
<1> QED
    BY <1>4, <1>5 DEF Expectations

LEMMA RecordEnd ==
    ASSUME NEW x \in Expectations, NEW a \in Acts, IsEnd(a),
           NEW r, r = Record(FSM, x, a.kind, a.transition, a.ts)
    PROVE  /\ r \in Expectations /\ r.state = a.transition[2]
           /\ r.transition_deadline = Inf
           /\ r.next_heartbeat = ArmedFor(FSM, a.transition[2], FSM.heartbeat_timeouts, a.ts)
           /\ r.state_expiry = ArmedFor(FSM, a.transition[2], FSM.state_timeouts, a.ts)
<1> DEFINE s == a.transition[2]
<1>1. a.ts \in Nat /\ s \in States(FSM)
    BY ActFields DEF IsEnd
<1>2. r = RecordTransitionEnd(FSM, x, s, a.ts)
    BY DEF Record, IsEnd
<1>3. /\ ArmedFor(FSM, s, FSM.heartbeat_timeouts, a.ts) \in Timeouts
      /\ ArmedFor(FSM, s, FSM.state_timeouts, a.ts) \in Timeouts
      /\ Inf \in Timeouts
    <2>1. After(a.ts, Beat(s)) \in Timeouts /\ After(a.ts, Stay(s)) \in Timeouts
        BY <1>1, AfterType, TimeoutTypes
    <2> QED
        BY <2>1 DEF ArmedFor, Beat, Stay, Timeouts
<1> QED
    BY <1>1, <1>2, <1>3 DEF RecordTransitionEnd, Expectations

LEMMA RecordBeat ==
    ASSUME NEW x \in Expectations, NEW a \in Acts, a.kind = "heartbeat",
           NEW r, r = Record(FSM, x, a.kind, a.transition, a.ts)
    PROVE  /\ r \in Expectations /\ r.state = x.state
           /\ r.transition_deadline = x.transition_deadline
           /\ r.next_heartbeat = After(a.ts, Beat(x.state))
           /\ r.state_expiry = x.state_expiry
<1>1. a.ts \in Nat
    BY ActFields
<1>2. r = RecordHeartbeat(FSM, x, a.ts)
    BY DEF Record
<1>3. r = [x EXCEPT !.next_heartbeat = After(a.ts, Beat(x.state))]
    BY <1>2 DEF RecordHeartbeat, Beat
<1>4. After(a.ts, Beat(x.state)) \in Timeouts
    BY <1>1, AfterType, TimeoutTypes
<1> QED
    BY <1>3, <1>4 DEF Expectations

-----------------------------------------------------------------------------
(* The steps keep the invariant.                                            *)

LEMMA InitWatchInv ==
    ASSUME InitialIsUntimed, Init
    PROVE  WatchInv
<1>1. /\ InitialState(FSM) \in States(FSM) /\ InitialState(FSM) \notin TerminalStates(FSM)
      /\ Beat(InitialState(FSM)) = Inf /\ Stay(InitialState(FSM)) = Inf
    BY InitialStateIsOne DEF InitialIsUntimed, Beat, Stay, TimeoutOf
<1>2. act = [kind |-> "heartbeat", transition |-> <<>>, ts |-> 0]
    BY DEF Init, Activity
<1>3. expectation \in Expectations
    BY <1>1 DEF Init, NewExpectation, Expectations, Timeouts
<1>4. TypeOK
    <2>1. act \in Acts
        BY <1>2 DEF Acts
    <2>2. queue \in Seq(Acts) /\ Len(queue) = 0
        BY DEF Init
    <2>3. punctual \in BOOLEAN /\ term \in BOOLEAN /\ ~term
        BY Zenon DEF Init
    <2>4. now \in Nat /\ told_at \in Nat /\ entered \in Nat /\ looked_at \in Nat /\ drained \in 0..QueueMax
          /\ Len(queue) <= QueueMax
        BY <2>2, WatchAssumption DEF Init
    <2> QED
        BY <1>1, <1>3, <2>1, <2>2, <2>3, <2>4 DEF TypeOK, Init
<1>5. WorkerOK
    BY <1>1, <1>2 DEF WorkerOK, IsBegin, Init
<1>6. Stream = <<act>> /\ Len(Stream) = 1 /\ Stream[1] = act
    BY DEF Stream, Init
<1>7. StreamOK(Stream, act)
    BY <1>2, <1>6 DEF StreamOK
<1>8. KnownOK(Stream)
    <2>1. IsKnown(Stream)
        <3>1. expectation = NewExpectation(FSM) /\ state = InitialState(FSM) /\ entered = 0
            BY DEF Init
        <3>2. /\ ArmedFor(FSM, state, FSM.heartbeat_timeouts, act.ts) = Inf
              /\ ArmedFor(FSM, state, FSM.state_timeouts, entered) = Inf
            BY <1>1, <3>1 DEF ArmedFor, After, Beat, Stay
        <3> QED
            BY <3>1, <3>2, <1>6 DEF IsKnown, NewExpectation, Inf, Init
    <2> QED
        BY <2>1, <1>2, <1>6 DEF KnownOK, IsEnd
<1>9. BegunOK(Stream)
    BY <1>2 DEF BegunOK, IsBegin
<1> QED
    BY <1>4, <1>5, <1>7, <1>8, <1>9 DEF WatchInv

\* What a new activity does to a stream: it is the last, and of the ends only its own
\* is followed by heartbeats alone, unless it is a heartbeat.
LEMMA GrownStream ==
    ASSUME NEW q \in Seq(Acts), NEW a \in Acts, NEW r, r = Append(q, a)
    PROVE  /\ r \in Seq(Acts) /\ Len(r) = Len(q) + 1 /\ r # <<>> /\ r[Len(r)] = a
           /\ \A i \in 1..Len(q) : r[i] = q[i]
           /\ \A e \in 1..Len(r) : Beats(r, e, Len(r)) => a.kind = "heartbeat"
           /\ \A e \in 1..Len(r) : Beats(r, e, Len(r)) => Beats(q, e, Len(q))
<1>1. r \in Seq(Acts) /\ Len(r) = Len(q) + 1 /\ r # <<>> /\ r[Len(r)] = a
      /\ Len(q) \in Nat
      /\ \A i \in 1..Len(q) : r[i] = q[i]
    OBVIOUS
<1>2. \A e \in 1..Len(r) : Beats(r, e, Len(r)) => a.kind = "heartbeat"
    BY <1>1 DEF Beats
<1>3. \A e \in 1..Len(r) : Beats(r, e, Len(r)) => Beats(q, e, Len(q))
    BY <1>1 DEF Beats
<1> QED
    BY <1>1, <1>2, <1>3

\* A heartbeat of the actor.
LEMMA KeepaliveWatchInv ==
    ASSUME WatchInv, Keepalive
    PROVE  WatchInv'
<1>1. TypeOK /\ WorkerOK /\ StreamOK(Stream, act) /\ KnownOK(Stream)
    BY DEF WatchInv
<1>2. act' = [kind |-> "heartbeat", transition |-> <<>>, ts |-> now]
    BY DEF Keepalive, Activity
<1>3. act' \in Acts /\ act'.ts = now /\ act'.kind = "heartbeat" /\ ~IsBegin(act') /\ ~IsEnd(act')
    BY <1>1, <1>2 DEF Acts, TypeOK, IsBegin, IsEnd
<1>4. TypeOK'
    BY <1>1, <1>3 DEF Keepalive, TypeOK, watcher
<1>5. WorkerOK'
    BY <1>1, <1>3, ActFields DEF WorkerOK, Keepalive, InActor, TypeOK
<1>6. Stream' = Append(Stream, act') /\ Stream \in Seq(Acts)
    BY <1>1, StreamGrows, StreamType DEF Keepalive, InActor
<1>7. StreamOK(Stream', act')
    <2>1. ~IsBegin(act) /\ act.ts <= now /\ act.ts \in Nat /\ now \in Nat
        BY <1>1, ActFields DEF WorkerOK, Keepalive, InActor, TypeOK
    <2>2. \A i \in 1..Len(Stream) : Stream[i].ts \in Nat
        BY <1>6, ActFields
    <2> QED
        BY <1>1, <1>3, <1>6, GrownStream, <2>1, <2>2 DEF StreamOK
<1>8. KnownOK(Stream)'
    <2>1. /\ expectation' = expectation /\ state' = state /\ entered' = entered /\ term' = term
          /\ UnheededSince' = UnheededSince
          /\ ~IsBegin(act) /\ state \notin TerminalStates(FSM)
        BY <1>1 DEF Keepalive, WorkerOK, InActor, watcher, UnheededSince
    <2>2. Beats(Stream', 1, Len(Stream')) => IsKnown(Stream)'
        <3> SUFFICES ASSUME Beats(Stream', 1, Len(Stream')) PROVE IsKnown(Stream)'
            OBVIOUS
        <3>1. Len(Stream') \in Nat /\ 1 \in 1..Len(Stream')
            BY <1>3, <1>6, GrownStream
        <3>2. Beats(Stream, 1, Len(Stream))
            BY <3>1, <1>3, <1>6, GrownStream
        <3>8. IsKnown(Stream)
            BY <2>1, <3>2, <1>1 DEF KnownOK
        <3>3. Stream' # <<>>
            BY <1>3, <1>6, GrownStream
        <3>4. /\ act.ts \in Nat /\ now \in Nat /\ act.ts <= now /\ act'.ts = now
              /\ Beat(state) \in Timeouts
            BY <1>1, <1>3, ActFields, TimeoutTypes DEF TypeOK, WorkerOK
        <3>5. /\ ArmedFor(FSM, state, FSM.heartbeat_timeouts, act.ts) = After(act.ts, Beat(state))
              /\ ArmedFor(FSM, state, FSM.heartbeat_timeouts, act'.ts) = After(now, Beat(state))
            BY <2>1, <1>3 DEF ArmedFor, Beat
        <3>6. /\ After(act.ts, Beat(state)) <= After(now, Beat(state))
              /\ After(act.ts, Beat(state)) = Inf <=> After(now, Beat(state)) = Inf
              /\ After(act.ts, Beat(state)) \in Int /\ After(now, Beat(state)) \in Int
            BY <3>4 DEF After, Timeouts, Inf
        <3>7. expectation.next_heartbeat \in Int
            BY <1>1 DEF TypeOK, Expectations, Timeouts, Inf
        <3> QED
            BY <2>1, <3>8, <3>3, <3>5, <3>6, <3>7 DEF IsKnown
    <2>3. ASSUME NEW e \in 1..Len(Stream'), IsEnd(Stream'[e]), Beats(Stream', e + 1, Len(Stream'))
          PROVE  Stream'[e].transition[2] = state /\ Stream'[e].ts = entered
        <3>1. e # Len(Stream')
            BY <2>3, <1>3, <1>6, GrownStream
        <3>2. e \in 1..Len(Stream) /\ e + 1 \in 1..Len(Stream') /\ Stream'[e] = Stream[e]
            BY <3>1, <1>3, <1>6, GrownStream
        <3>3. Beats(Stream, e + 1, Len(Stream))
            BY <2>3, <3>2, <1>3, <1>6, GrownStream
        <3> QED
            BY <1>1, <2>1, <2>3, <3>2, <3>3 DEF KnownOK
    <2> QED
        BY <2>1, <2>2, <2>3 DEF KnownOK
<1>9. BegunOK(Stream)'
    BY <1>3 DEF BegunOK
<1> QED
    BY <1>4, <1>5, <1>7, <1>8, <1>9 DEF WatchInv

\* A transition begins.
LEMMA BeginWatchInv ==
    ASSUME WatchInv, NEW event \in Events(FSM, state), BeginTransition(event)
    PROVE  WatchInv'
<1>1. TypeOK /\ WorkerOK /\ StreamOK(Stream, act) /\ KnownOK(Stream)
    BY DEF WatchInv
<1> DEFINE edge == <<state, TargetState(FSM, state, event)>>
<1>2. act' = [kind |-> "transition_begin", transition |-> edge, ts |-> now]
    BY DEF BeginTransition, Activity
<1>3. edge \in States(FSM) \X States(FSM)
    BY <1>1, WatchAssumption DEF TypeOK, IsStateMachine, Events
<1>4. act' \in Acts /\ act'.ts = now /\ act'.kind # "heartbeat" /\ IsBegin(act')
    BY <1>1, <1>2, <1>3 DEF Acts, TypeOK, IsBegin
<1>5. TypeOK'
    BY <1>1, <1>4 DEF BeginTransition, TypeOK, watcher
<1>6. WorkerOK'
    BY <1>1, <1>4, ActFields DEF WorkerOK, BeginTransition, InActor, TypeOK
<1>7. Stream' = Append(Stream, act') /\ Stream \in Seq(Acts)
    BY <1>1, StreamGrows, StreamType DEF BeginTransition, InActor
<1>8. StreamOK(Stream', act')
    <2>1. ~IsBegin(act) /\ act.ts <= now /\ act.ts \in Nat /\ now \in Nat
        BY <1>1, ActFields DEF WorkerOK, BeginTransition, InActor, TypeOK
    <2>2. \A i \in 1..Len(Stream) : Stream[i].ts \in Nat
        BY <1>7, ActFields
    <2> QED
        BY <1>1, <1>4, <1>7, GrownStream, <2>1, <2>2 DEF StreamOK
<1>9. KnownOK(Stream)' /\ BegunOK(Stream)'
    BY <1>4, <1>7, GrownStream DEF KnownOK, BegunOK
<1> QED
    BY <1>5, <1>6, <1>8, <1>9 DEF WatchInv

\* It ends: the worker is in another state, and nothing behind this end is on its way.
LEMMA EndWatchInv ==
    ASSUME WatchInv, EndTransition
    PROVE  WatchInv'
<1>1. TypeOK /\ WorkerOK /\ StreamOK(Stream, act)
    BY DEF WatchInv
<1>2. act' = [kind |-> "transition_end", transition |-> act.transition, ts |-> now]
    BY DEF EndTransition, Activity
<1>3. IsBegin(act) /\ act.transition \in States(FSM) \X States(FSM)
    BY <1>1, ActFields DEF EndTransition, WorkerOK, TypeOK, IsBegin
<1>4. act' \in Acts /\ act'.ts = now /\ act'.kind # "heartbeat" /\ ~IsBegin(act') /\ IsEnd(act')
      /\ act'.transition[2] = state' /\ entered' = now
    BY <1>1, <1>2, <1>3 DEF Acts, TypeOK, IsBegin, IsEnd, EndTransition
<1>5. TypeOK'
    BY <1>1, <1>3, <1>4 DEF EndTransition, TypeOK, watcher
<1>6. WorkerOK'
    BY <1>1, <1>4 DEF WorkerOK, EndTransition, TypeOK
<1>7. Stream' = Append(Stream, act') /\ Stream \in Seq(Acts)
    BY <1>1, StreamGrows, StreamType DEF EndTransition
<1>8. StreamOK(Stream', act')
    <2>1. act.ts <= now /\ act.ts \in Nat /\ now \in Nat
        BY <1>1, ActFields DEF WorkerOK, TypeOK
    <2>2. \A i \in 1..Len(Stream) : Stream[i].ts \in Nat
        BY <1>7, ActFields
    <2> QED
        BY <1>1, <1>4, <1>7, GrownStream, <2>1, <2>2 DEF StreamOK
<1>9. KnownOK(Stream)'
    <2>1. Len(Stream') \in Nat \ {0} /\ 1 \in 1..Len(Stream')
        BY <1>4, <1>7, GrownStream
    <2>2. ~Beats(Stream', 1, Len(Stream'))
        BY <2>1, <1>4, <1>7, GrownStream
    <2>3. ASSUME NEW e \in 1..Len(Stream'), IsEnd(Stream'[e]), Beats(Stream', e + 1, Len(Stream'))
          PROVE  Stream'[e].transition[2] = state' /\ Stream'[e].ts = entered'
        <3>1. e = Len(Stream')
            <4>1. ~(e + 1 \in 1..Len(Stream'))
                BY <2>3, <1>4, <1>7, GrownStream
            <4> QED
                BY <4>1, <2>1
        <3> QED
            BY <3>1, <1>4, <1>7, GrownStream
    <2> QED
        BY <2>2, <2>3 DEF KnownOK
<1>10. BegunOK(Stream)'
    BY <1>4 DEF BegunOK
<1> QED
    BY <1>5, <1>6, <1>8, <1>9, <1>10 DEF WatchInv

\* The queue takes it.
LEMMA PutWatchInv ==
    ASSUME WatchInv, Put
    PROVE  WatchInv'
<1>1. TypeOK /\ WorkerOK
    BY DEF WatchInv
<1>2. TypeOK'
    BY <1>1, WatchAssumption DEF Put, TypeOK, watcher
<1>3. WorkerOK'
    BY <1>1 DEF Put, WorkerOK, IsBegin
<1>4. Stream' = Stream
    BY <1>1, StreamIsPut
<1>5. StreamOK(Stream, act)' /\ KnownOK(Stream)' /\ BegunOK(Stream)'
    BY <1>4 DEF WatchInv, Put, watcher, StreamOK, KnownOK, IsKnown, BegunOK, UnheededSince
<1> QED
    BY <1>2, <1>3, <1>5 DEF WatchInv

\* What is armed later is due later.
LEMMA ArmedIsMonotone ==
    ASSUME NEW t \in Nat, NEW u \in Nat, t <= u
    PROVE  /\ ArmedFor(FSM, state, FSM.heartbeat_timeouts, t) \in Int
           /\ ArmedFor(FSM, state, FSM.heartbeat_timeouts, u) \in Int
           /\ ArmedFor(FSM, state, FSM.heartbeat_timeouts, t)
                <= ArmedFor(FSM, state, FSM.heartbeat_timeouts, u)
<1>1. Beat(state) \in Timeouts
    BY TimeoutTypes
<1>2. /\ After(t, Beat(state)) \in Int /\ After(u, Beat(state)) \in Int
      /\ After(t, Beat(state)) <= After(u, Beat(state))
    BY <1>1 DEF After, Timeouts, Inf
<1> QED
    BY <1>2 DEF ArmedFor, Beat, Inf

\* The steps that leave the worker, the queue and the expectation alone.
LEMMA AsideWatchInv ==
    ASSUME WatchInv, BeginDrain \/ DrainDone \/ Judge \/ Stop \/ TimePasses \/ UNCHANGED vars
    PROVE  WatchInv'
<1>1. TypeOK /\ WorkerOK
    BY DEF WatchInv
<1>2. /\ UNCHANGED <<pc, state, act, entered, queue, expectation, punctual>>
      /\ now' \in Nat /\ now <= now'
      /\ term' \in BOOLEAN /\ (term => term') /\ told_at' \in Nat
      /\ term' => (term /\ told_at' = told_at) \/ told_at' = now
      /\ looked_at' \in Nat /\ drained' \in 0..QueueMax
      /\ watch' \in {"away", "draining", "judging"}
    <2>1. CASE BeginDrain
        BY <2>1, <1>1, WatchAssumption DEF BeginDrain, worker, TypeOK
    <2>2. CASE DrainDone
        BY <2>2, <1>1 DEF DrainDone, worker, TypeOK
    <2>3. CASE Judge
        BY <2>3, <1>1 DEF Judge, worker, TypeOK
    <2>4. CASE Stop
        BY <2>4, <1>1 DEF Stop, worker, watcher, TypeOK
    <2>5. CASE TimePasses
        BY <2>5, <1>1 DEF TimePasses, worker, watcher, TypeOK
    <2>6. CASE UNCHANGED vars
        BY <2>6, <1>1 DEF vars, worker, watcher, TypeOK
    <2> QED
        BY <2>1, <2>2, <2>3, <2>4, <2>5, <2>6
<1>3. TypeOK'
    BY <1>1, <1>2 DEF TypeOK
<1>4. WorkerOK'
    BY <1>1, <1>2, ActFields DEF WorkerOK, TypeOK
<1>5. Stream' = Stream
    BY <1>2 DEF Stream
<1>6. StreamOK(Stream, act)' /\ BegunOK(Stream)'
    BY <1>2, <1>5 DEF WatchInv, StreamOK, BegunOK
<1>7. ASSUME IsKnown(Stream)
      PROVE  IsKnown(Stream)'
    <2>1. ASSUME term', told_at' = now
          PROVE  expectation.next_heartbeat
                    <= ArmedFor(FSM, state, FSM.heartbeat_timeouts, UnheededSince')
        <3>1. UnheededSince' \in Nat /\ act.ts \in Nat /\ act.ts <= UnheededSince'
            <4>1. /\ now \in Nat /\ entered \in Nat /\ act.ts \in Nat
                  /\ entered <= act.ts /\ act.ts <= now
                BY <1>1, ActFields DEF TypeOK, WorkerOK
            <4>2. UnheededSince' = IF entered > now THEN entered ELSE now
                BY <1>2, <2>1 DEF UnheededSince
            <4> QED
                BY <4>1, <4>2
        <3>2. ArmedFor(FSM, state, FSM.heartbeat_timeouts, act.ts)
                <= ArmedFor(FSM, state, FSM.heartbeat_timeouts, UnheededSince')
            BY <3>1, ArmedIsMonotone
        <3>3. /\ ArmedFor(FSM, state, FSM.heartbeat_timeouts, act.ts) \in Int
              /\ ArmedFor(FSM, state, FSM.heartbeat_timeouts, UnheededSince') \in Int
              /\ expectation.next_heartbeat \in Int
            BY <1>1, <3>1, ArmedIsMonotone DEF TypeOK, Expectations, Timeouts, Inf
        <3>4. expectation.next_heartbeat
                <= ArmedFor(FSM, state, FSM.heartbeat_timeouts, act.ts)
            BY <1>7 DEF IsKnown
        <3> QED
            BY <3>2, <3>3, <3>4
    <2>2. ASSUME term, told_at' = told_at
          PROVE  expectation.next_heartbeat
                    <= ArmedFor(FSM, state, FSM.heartbeat_timeouts, UnheededSince')
        BY <1>2, <1>7, <2>2 DEF IsKnown, UnheededSince
    <2>3. term' => expectation.next_heartbeat
                    <= ArmedFor(FSM, state, FSM.heartbeat_timeouts, UnheededSince')
        BY <1>2, <2>1, <2>2
    <2> QED
        BY <1>2, <1>5, <1>7, <2>3 DEF IsKnown
<1>8. KnownOK(Stream)'
    BY <1>2, <1>5, <1>7 DEF WatchInv, KnownOK
<1> QED
    BY <1>3, <1>4, <1>6, <1>8 DEF WatchInv

\* What the supervisor makes of the activity it takes from the queue.
LEMMA DrainedExpectation ==
    ASSUME TypeOK, DrainOne, NEW a, a = Stream[1]
    PROVE  /\ a \in Acts /\ expectation' \in Expectations
           /\ IF Drops(a) THEN expectation' = expectation
              ELSE expectation' = Record(FSM, expectation, a.kind, a.transition, a.ts)
<1>1. a \in Acts /\ a = Head(queue)
    BY StreamDrains
<1>2. IF Drops(a) THEN expectation' = expectation
      ELSE expectation' = Record(FSM, expectation, a.kind, a.transition, a.ts)
    BY <1>1 DEF DrainOne
<1>3. expectation \in Expectations
    BY DEF TypeOK
<1>4. expectation' \in Expectations
    BY <1>1, <1>2, <1>3, ActFields, RecordBegin, RecordEnd, RecordBeat
<1> QED
    BY <1>1, <1>2, <1>4

\* The supervisor records an activity.
LEMMA DrainWatchInv ==
    ASSUME WatchInv, DrainOne
    PROVE  WatchInv'
<1> DEFINE a == Stream[1]
<1> DEFINE n == Len(Stream)
<1>1. TypeOK /\ WorkerOK /\ StreamOK(Stream, act) /\ KnownOK(Stream)
    BY DEF WatchInv
<1>2. /\ UNCHANGED <<pc, state, act, entered, now, term, told_at, punctual, watch, looked_at>>
      /\ UnheededSince' = UnheededSince
    BY DEF DrainOne, worker, UnheededSince
<1>3. /\ Stream # <<>> /\ Stream' = Tail(Stream) /\ Stream' \in Seq(Acts) /\ Stream \in Seq(Acts)
      /\ n \in Nat \ {0} /\ Len(Stream') = n - 1
      /\ \A i \in 1..Len(Stream') : Stream'[i] = Stream[i + 1]
    BY <1>1, StreamDrains, StreamType
<1>4. /\ a \in Acts /\ expectation' \in Expectations
      /\ IF Drops(a) THEN expectation' = expectation
         ELSE expectation' = Record(FSM, expectation, a.kind, a.transition, a.ts)
    BY <1>1, DrainedExpectation
<1>5. expectation \in Expectations /\ act \in Acts /\ state \in States(FSM)
    BY <1>1 DEF TypeOK
<1> HIDE DEF n, a
<1>6. TypeOK'
    <2>1. queue' \in Seq(Acts) /\ Len(queue') <= QueueMax /\ drained' \in 0..QueueMax
        <3>1. queue \in Seq(Acts) /\ queue # <<>> /\ Len(queue) <= QueueMax
            BY <1>1 DEF TypeOK, DrainOne
        <3>2. Len(Tail(queue)) = Len(queue) - 1 /\ Tail(queue) \in Seq(Acts)
            BY <3>1
        <3> QED
            BY <3>1, <3>2, <1>1, WatchAssumption DEF DrainOne, TypeOK
    <2> QED
        BY <1>1, <1>2, <1>4, <2>1 DEF TypeOK
<1>7. WorkerOK'
    BY <1>1, <1>2 DEF WorkerOK
<1>8. StreamOK(Stream', act)
    <2>1. Stream' # <<>> => Stream'[Len(Stream')] = act
        BY <1>1, <1>3 DEF StreamOK, n
    <2>2. \A i \in 1..Len(Stream') : Stream'[i].ts <= act.ts
        BY <1>1, <1>3 DEF StreamOK, n
    <2>3. \A i \in 1..Len(Stream') - 1 : IsBegin(Stream'[i]) => IsEnd(Stream'[i + 1])
        BY <1>1, <1>3 DEF StreamOK, n
    <2> QED
        BY <2>1, <2>2, <2>3 DEF StreamOK
<1>9. ASSUME IsBegin(a), n > 1
      PROVE  IsEnd(Stream'[1]) /\ Len(Stream') > 0
    <2>1. 1 \in 1..n - 1 /\ 1 \in 1..Len(Stream')
        BY <1>3, <1>9
    <2> QED
        BY <2>1, <1>1, <1>3, <1>9 DEF StreamOK, n, a
<1>10. a = act \/ n > 1
    BY <1>1, <1>3 DEF StreamOK, n, a
<1>13. ASSUME NEW f \in 1..Len(Stream') + 1, Beats(Stream', f, Len(Stream'))
       PROVE  Beats(Stream, f + 1, n)
    <2>1. Len(Stream') \in 0..Len(Stream') /\ Len(Stream') + 1 = n
        BY <1>3
    <2>2. Beats(Stream', f, Len(Stream')) <=> Beats(Stream, f + 1, Len(Stream') + 1)
        <3>1. Len(Stream) \in Nat \ {0} /\ Len(Stream') = Len(Stream) - 1
            BY <1>3 DEF n
        <3> QED
            BY <2>1, <3>1, <1>3, BeatsOfTail
    <2> QED
        BY <2>1, <2>2, <1>13
<1>11. KnownOK(Stream)'
    <2> SUFFICES ASSUME ~IsBegin(act)
                 PROVE  /\ Beats(Stream', 1, Len(Stream')) => IsKnown(Stream)'
                        /\ \A e \in 1..Len(Stream') :
                                IsEnd(Stream'[e]) /\ Beats(Stream', e + 1, Len(Stream')) =>
                                    Stream'[e].transition[2] = state /\ Stream'[e].ts = entered
        BY <1>2 DEF KnownOK
    <2>1. ASSUME NEW e \in 1..Len(Stream'), IsEnd(Stream'[e]), Beats(Stream', e + 1, Len(Stream'))
          PROVE  Stream'[e].transition[2] = state /\ Stream'[e].ts = entered
        <3>1. e + 1 \in 1..n /\ e + 1 \in 1..Len(Stream') + 1
            BY <1>3
        <3>2. Beats(Stream, e + 1 + 1, n)
            BY <2>1, <3>1, <1>13
        <3> QED
            BY <2>1, <3>1, <3>2, <1>1, <1>3 DEF KnownOK, n
    <2>2. ASSUME Beats(Stream', 1, Len(Stream'))
          PROVE  IsKnown(Stream)'
        <3>1. Beats(Stream, 2, n)
            <4>1. 1 \in 1..Len(Stream') + 1 /\ 1 + 1 = 2
                BY <1>3
            <4> QED
                BY <2>2, <4>1, <1>13
        <3>2. CASE a.kind = "heartbeat"
            <4>1. Beats(Stream, 1, n)
                BY <3>1, <3>2, <1>3 DEF Beats, a
            <4>2. IsKnown(Stream)
                BY <4>1, <1>1 DEF KnownOK, n
            <4>3. expectation.state = state /\ act.ts \in Nat /\ a.ts \in Nat /\ a.ts <= act.ts
                  /\ Beat(state) \in Timeouts
                BY <4>2, <1>1, <1>3, <1>4, <1>5, ActFields, TimeoutTypes DEF IsKnown, StreamOK, a, n
            <4>4. state \notin TerminalStates(FSM)
                <5>1. act.kind = "heartbeat"
                    BY <4>1, <1>1, <1>3 DEF Beats, StreamOK, n
                <5> QED
                    BY <5>1, <1>1 DEF WorkerOK, IsEnd
            <4>5. ArmedFor(FSM, state, FSM.heartbeat_timeouts, act.ts) = After(act.ts, Beat(state))
                BY <4>4 DEF ArmedFor, Beat
            <4>6. CASE Drops(a)
                <5>1. expectation' = expectation /\ term
                    BY <4>6, <1>4 DEF Drops
                <5> QED
                    BY <5>1, <4>2, <1>2 DEF IsKnown
            <4>7. CASE ~Drops(a)
                <5>1. /\ expectation'.state = state
                      /\ expectation'.transition_deadline = expectation.transition_deadline
                      /\ expectation'.next_heartbeat = After(a.ts, Beat(state))
                      /\ expectation'.state_expiry = expectation.state_expiry
                    BY <4>7, <4>3, <3>2, <1>4, <1>5, RecordBeat
                <5>2. /\ After(a.ts, Beat(state)) = Inf <=> After(act.ts, Beat(state)) = Inf
                      /\ After(a.ts, Beat(state)) <= After(act.ts, Beat(state))
                    BY <4>3 DEF After, Timeouts, Inf
                <5>3. Stream' = <<>> => a = act
                    BY <1>3, <1>10
                <5>4. ~term
                    BY <3>2, <4>7 DEF Drops
                <5> QED
                    BY <5>1, <5>2, <5>3, <5>4, <4>2, <4>5, <1>2 DEF IsKnown
            <4> QED
                BY <4>6, <4>7
        <3>3. CASE IsEnd(a)
            <4>1. a.transition[2] = state /\ a.ts = entered
                <5>1. 1 \in 1..n /\ 1 + 1 = 2
                    BY <1>3
                <5> QED
                    BY <5>1, <3>1, <3>3, <1>1 DEF KnownOK, a, n
            <4>2. ~Drops(a)
                BY <3>3, <1>4, ActFields DEF Drops
            <4>3. /\ expectation'.state = state
                  /\ expectation'.transition_deadline = Inf
                  /\ expectation'.next_heartbeat = ArmedFor(FSM, state, FSM.heartbeat_timeouts, entered)
                  /\ expectation'.state_expiry = ArmedFor(FSM, state, FSM.state_timeouts, entered)
                BY <4>1, <4>2, <3>3, <1>4, <1>5, RecordEnd
            <4>4. /\ ArmedFor(FSM, state, FSM.heartbeat_timeouts, entered) = Inf
                        <=> ArmedFor(FSM, state, FSM.heartbeat_timeouts, act.ts) = Inf
                  /\ ArmedFor(FSM, state, FSM.heartbeat_timeouts, entered)
                        <= ArmedFor(FSM, state, FSM.heartbeat_timeouts, act.ts)
                <5>1. entered \in Nat /\ act.ts \in Nat /\ entered <= act.ts /\ Beat(state) \in Timeouts
                    BY <1>1, <1>5, ActFields, TimeoutTypes DEF WorkerOK, TypeOK
                <5>2. /\ After(entered, Beat(state)) = Inf <=> After(act.ts, Beat(state)) = Inf
                      /\ After(entered, Beat(state)) <= After(act.ts, Beat(state))
                    BY <5>1 DEF After, Timeouts, Inf
                <5> QED
                    BY <5>2 DEF ArmedFor, Beat, Inf
            <4>6. Stream' = <<>> => a = act
                BY <1>3, <1>10
            <4>5. Stream' = <<>> => act.ts = entered
                BY <4>6, <4>1
            <4>7. ArmedFor(FSM, state, FSM.heartbeat_timeouts, entered)
                    <= ArmedFor(FSM, state, FSM.heartbeat_timeouts, UnheededSince)
                <5>1. /\ entered \in Nat /\ UnheededSince \in Nat /\ entered <= UnheededSince
                    BY <1>1 DEF TypeOK, UnheededSince
                <5> QED
                    BY <5>1, ArmedIsMonotone
            <4> QED
                BY <4>3, <4>4, <4>5, <4>7, <1>2 DEF IsKnown
        <3>4. CASE IsBegin(a)
            <4>1. n > 1
                BY <3>4, <1>10
            <4>2. IsEnd(Stream'[1]) /\ 1 \in 1..Len(Stream') /\ Stream'[1] \in Acts
                BY <4>1, <3>4, <1>9, <1>3
            <4>3. Stream'[1].kind = "heartbeat"
                BY <4>2, <2>2 DEF Beats
            <4> QED
                BY <4>2, <4>3, ActFields
        <3> QED
            BY <3>2, <3>3, <3>4, <1>4, ActFields
    <2> QED
        BY <2>1, <2>2
<1>12. BegunOK(Stream)'
    <2> SUFFICES ASSUME IsBegin(act), Stream' = <<>>
                 PROVE  /\ expectation'.transition_deadline = After(act.ts, EdgeTime(act.transition))
                        /\ expectation'.next_heartbeat = Inf
                        /\ expectation'.state_expiry = Inf
        BY <1>2 DEF BegunOK
    <2>1. a = act
        BY <1>3, <1>10
    <2>2. ~Drops(a)
        BY <2>1, <1>4, ActFields DEF Drops
    <2> QED
        BY <2>1, <2>2, <1>4, <1>5, RecordBegin
<1> QED
    BY <1>2, <1>6, <1>7, <1>8, <1>11, <1>12 DEF WatchInv

LEMMA NextWatchInv == WatchInv /\ [Next]_vars => WatchInv'
<1> SUFFICES ASSUME WatchInv, [Next]_vars
             PROVE  WatchInv'
    OBVIOUS
<1>1. CASE \E event \in Events(FSM, state) : BeginTransition(event)
    BY <1>1, BeginWatchInv
<1> QED
    BY <1>1, KeepaliveWatchInv, EndWatchInv, PutWatchInv, DrainWatchInv, AsideWatchInv DEF Next

-----------------------------------------------------------------------------
(* What it is for.                                                          *)

LEMMA Unheeded == WatchInv => HeartbeatsBuyNoTime
<1> SUFFICES ASSUME WatchInv, term, OnlyBeats, Overran(UnheededSince, Beat(state))
             PROVE  ~IsHealthy(expectation, now)
    BY DEF HeartbeatsBuyNoTime, Beat
<1>1. TypeOK /\ WorkerOK /\ KnownOK(Stream)
    BY DEF WatchInv
<1>2. Beats(Stream, 1, Len(Stream))
    <2>1. queue \in Seq(Acts) /\ Len(queue) \in Nat /\ DOMAIN queue = 1..Len(queue)
        BY <1>1 DEF TypeOK
    <2>2. \A k \in 1..Len(queue) : Stream[k].kind = "heartbeat"
        BY <1>1, <2>1, StreamType DEF OnlyBeats
    <2>3. CASE pc = "put"
        <3>1. Len(Stream) = Len(queue) + 1 /\ Stream[Len(queue) + 1].kind = "heartbeat"
            BY <1>1, <2>3, StreamType DEF OnlyBeats, InActor
        <3> QED
            BY <2>1, <2>2, <3>1 DEF Beats
    <2>4. CASE pc # "put"
        BY <1>1, <2>2, <2>4, StreamType DEF Beats
    <2> QED
        BY <2>3, <2>4
<1>3. ~IsBegin(act) /\ state \notin TerminalStates(FSM)
    BY <1>1 DEF OnlyBeats, InActor, WorkerOK, IsBegin, IsEnd
<1>4. IsKnown(Stream)
    BY <1>1, <1>2, <1>3 DEF KnownOK
<1>5. /\ UnheededSince \in Nat /\ act.ts \in Nat /\ now \in Nat /\ Beat(state) \in Timeouts
      /\ expectation \in Expectations
    BY <1>1, ActFields, TimeoutTypes DEF TypeOK, UnheededSince
<1>6. /\ ArmedFor(FSM, state, FSM.heartbeat_timeouts, UnheededSince) = After(UnheededSince, Beat(state))
      /\ ArmedFor(FSM, state, FSM.heartbeat_timeouts, act.ts) = After(act.ts, Beat(state))
    BY <1>3 DEF ArmedFor, Beat
<1>7. /\ expectation.next_heartbeat # Inf
      /\ expectation.next_heartbeat <= After(UnheededSince, Beat(state))
      /\ After(UnheededSince, Beat(state)) < now
    BY <1>4, <1>5, <1>6 DEF IsKnown, Overran, After, Timeouts, Inf
<1>8. /\ \A d \in Deadlines(expectation) : d \in Int
      /\ After(UnheededSince, Beat(state)) \in Int
      /\ expectation.next_heartbeat \in Deadlines(expectation)
    BY <1>5 DEF Deadlines, Expectations, Timeouts, Inf, After
<1> QED
    BY <1>5, <1>7, <1>8 DEF IsHealthy

LEMMA Noticed == WatchInv => SilenceIsNoticed /\ ActorResidenceIsNoticed
<1> SUFFICES ASSUME WatchInv, UpToDate
             PROVE  SilenceIsNoticed /\ ActorResidenceIsNoticed
    BY DEF SilenceIsNoticed, ActorResidenceIsNoticed
<1>1. TypeOK /\ WorkerOK /\ KnownOK(Stream) /\ BegunOK(Stream)
    BY DEF WatchInv
<1>2. Stream = <<>> /\ Len(Stream) = 0
    BY DEF Stream, UpToDate
<1>3. /\ act.ts \in Nat /\ now \in Nat /\ entered \in Nat
      /\ Beat(state) \in Timeouts /\ Stay(state) \in Timeouts /\ EdgeTime(act.transition) \in Timeouts
      /\ expectation \in Expectations
    BY <1>1, ActFields, TimeoutTypes DEF TypeOK
<1>4. \A d \in Deadlines(expectation) : d # Inf /\ now > d => ~IsHealthy(expectation, now)
    <2>1. \A d \in Deadlines(expectation) : d \in Int
        BY <1>3 DEF Deadlines, Expectations, Timeouts, Inf
    <2> QED
        BY <2>1, <1>3 DEF IsHealthy
<1>5. ASSUME InActor
      PROVE  IsKnown(Stream)
    BY <1>1, <1>2, <1>5 DEF KnownOK, Beats, InActor, WorkerOK
<1>6. ASSUME InActor, Overran(act.ts, Beat(state))
      PROVE  ~IsHealthy(expectation, now)
    <2>1. /\ expectation.next_heartbeat # Inf
          /\ expectation.next_heartbeat <= After(act.ts, Beat(state))
          /\ After(act.ts, Beat(state)) < now
        <3>1. ArmedFor(FSM, state, FSM.heartbeat_timeouts, act.ts) = After(act.ts, Beat(state))
            BY <1>6 DEF InActor, ArmedFor, Beat
        <3> QED
            BY <3>1, <1>3, <1>5, <1>6 DEF IsKnown, Overran, After, Timeouts, Inf
    <2>2. expectation.next_heartbeat \in Int /\ After(act.ts, Beat(state)) \in Int
        BY <1>3 DEF Expectations, Timeouts, Inf, After
    <2> QED
        BY <2>1, <2>2, <1>3, <1>4 DEF Deadlines
<1>7. ASSUME InActor, Overran(entered, Stay(state))
      PROVE  ~IsHealthy(expectation, now)
    <2>1. expectation.state_expiry = After(entered, Stay(state))
        BY <1>5, <1>7 DEF IsKnown, InActor, ArmedFor, Stay
    <2>2. expectation.state_expiry # Inf /\ now > expectation.state_expiry
        BY <2>1, <1>3, <1>7 DEF Overran, After, Timeouts, Inf
    <2> QED
        BY <2>2, <1>4 DEF Deadlines
<1>8. ASSUME pc = "hooks", Overran(act.ts, EdgeTime(act.transition))
      PROVE  ~IsHealthy(expectation, now)
    <2>1. expectation.transition_deadline = After(act.ts, EdgeTime(act.transition))
        BY <1>1, <1>2, <1>8 DEF BegunOK, WorkerOK
    <2>2. expectation.transition_deadline # Inf /\ now > expectation.transition_deadline
        BY <2>1, <1>3, <1>8 DEF Overran, After, Timeouts, Inf
    <2> QED
        BY <2>2, <1>4 DEF Deadlines
<1> QED
    BY <1>6, <1>7, <1>8 DEF SilenceIsNoticed, ActorResidenceIsNoticed, Beat, Stay, EdgeTime, Edge

-----------------------------------------------------------------------------
(* The invariant for a worker that is in time.                              *)

\* A time that leaves Slack before a deadline.
InTime(t, deadline) == deadline # Inf => t <= deadline - Slack

\* The worker is in time so far, and so is the supervisor.
SoFarInTime ==
    punctual =>
        /\ pc = "put" => now - act.ts <= PutDelay
        /\ pc = "hooks" => InTime(now, After(act.ts, EdgeTime(act.transition)))
        /\ InActor => InTime(now, After(act.ts, Beat(state)))
        /\ Staying => InTime(now, After(entered, Stay(state)))
        /\ watch # "away" => looked_at <= now /\ now - looked_at <= Lag

\* Every activity on its way was made in time for the deadline that is armed when the
\* ones before it are recorded: x is what the supervisor expects before it takes q.
Paced(q, x) ==
    /\ q # <<>> => InTime(q[1].ts, x.next_heartbeat)
    /\ \A i \in 1..Len(q) : Beats(q, 1, i - 1) =>
            InTime(q[i].ts, x.transition_deadline) /\ InTime(q[i].ts, x.state_expiry)
    /\ \A i \in 1..Len(q) - 1 : Beats(q, 1, i) =>
            InTime(q[i + 1].ts, After(q[i].ts, Beat(x.state)))
    /\ \A e \in 1..Len(q) : \A i \in e..Len(q) - 1 : IsEnd(q[e]) /\ Beats(q, e + 1, i) =>
            /\ InTime(q[i + 1].ts, After(q[i].ts, Beat(q[e].transition[2])))
            /\ InTime(q[i + 1].ts, After(q[e].ts, Stay(q[e].transition[2])))
    /\ \A i \in 1..Len(q) - 1 : IsBegin(q[i]) =>
            InTime(q[i + 1].ts, After(q[i].ts, EdgeTime(q[i].transition)))

PacedOK(q) == punctual /\ ~term => Paced(q, expectation)

\* A drain gets to all that was made PutDelay before it began: what is behind the
\* reach of its budget, or behind it when it is over, is younger.
DrainOK(q) ==
    punctual =>
        /\ watch = "draining" =>
            \A i \in 1..Len(q) : i > QueueMax - drained => q[i].ts + PutDelay >= looked_at
        /\ watch = "judging" => \A i \in 1..Len(q) : q[i].ts + PutDelay >= looked_at

PunctualInv ==
    /\ WatchInv
    /\ SoFarInTime
    /\ PacedOK(Stream)
    /\ DrainOK(Stream)
    /\ PunctualIsHealthy

-----------------------------------------------------------------------------
(* The pace of a stream.                                                    *)

\* It is kept by an activity that is in time for what is armed then.
LEMMA PaceOfGrown ==
    ASSUME NEW q \in Seq(Acts), NEW a \in Acts, NEW x, Paced(q, x),
           NEW r, r = Append(q, a), NEW n, n = Len(q),
           q = <<>> => InTime(a.ts, x.next_heartbeat),
           Beats(q, 1, n) => InTime(a.ts, x.transition_deadline) /\ InTime(a.ts, x.state_expiry),
           n > 0 /\ Beats(q, 1, n) => InTime(a.ts, After(q[n].ts, Beat(x.state))),
           \A e \in 1..n : IsEnd(q[e]) /\ Beats(q, e + 1, n) =>
                /\ InTime(a.ts, After(q[n].ts, Beat(q[e].transition[2])))
                /\ InTime(a.ts, After(q[e].ts, Stay(q[e].transition[2]))),
           n > 0 /\ IsBegin(q[n]) => InTime(a.ts, After(q[n].ts, EdgeTime(q[n].transition)))
    PROVE  Paced(r, x)
<1>1. n \in Nat /\ Len(r) = n + 1 /\ r[n + 1] = a /\ \A i \in 1..n : r[i] = q[i]
    OBVIOUS
<1>2. \A e \in Nat \ {0} : \A j \in 0..n : Beats(r, e, j) => Beats(q, e, j)
    BY <1>1 DEF Beats
<1>3. r # <<>> => InTime(r[1].ts, x.next_heartbeat)
    <2>1. CASE q = <<>>
        BY <2>1, <1>1
    <2>2. CASE q # <<>>
        <3>1. 1 \in 1..n /\ r[1] = q[1]
            BY <2>2, <1>1
        <3> QED
            BY <2>2, <3>1 DEF Paced
    <2> QED
        BY <2>1, <2>2
<1>4. ASSUME NEW i \in 1..Len(r), Beats(r, 1, i - 1)
      PROVE  InTime(r[i].ts, x.transition_deadline) /\ InTime(r[i].ts, x.state_expiry)
    <2>1. i - 1 \in 0..n /\ Beats(q, 1, i - 1)
        BY <1>1, <1>2, <1>4
    <2>2. CASE i = n + 1
        <3>1. i - 1 = n
            BY <2>2, <1>1
        <3> QED
            BY <2>1, <2>2, <3>1, <1>1
    <2>3. CASE i # n + 1
        <3>1. i \in 1..n /\ r[i] = q[i]
            BY <2>3, <1>1
        <3> QED
            BY <2>1, <3>1 DEF Paced
    <2> QED
        BY <2>2, <2>3
<1>5. ASSUME NEW i \in 1..Len(r) - 1, Beats(r, 1, i)
      PROVE  InTime(r[i + 1].ts, After(r[i].ts, Beat(x.state)))
    <2>1. i \in 1..n /\ i \in 0..n /\ r[i] = q[i] /\ Beats(q, 1, i)
        BY <1>1, <1>2, <1>5
    <2>2. CASE i = n
        BY <2>1, <2>2, <1>1
    <2>3. CASE i # n
        <3>1. i + 1 \in 1..n /\ r[i + 1] = q[i + 1] /\ i \in 1..Len(q) - 1
            BY <2>1, <2>3, <1>1
        <3> QED
            BY <2>1, <3>1 DEF Paced
    <2> QED
        BY <2>2, <2>3
<1>6. ASSUME NEW e \in 1..Len(r), NEW i \in e..Len(r) - 1, IsEnd(r[e]), Beats(r, e + 1, i)
      PROVE  /\ InTime(r[i + 1].ts, After(r[i].ts, Beat(r[e].transition[2])))
             /\ InTime(r[i + 1].ts, After(r[e].ts, Stay(r[e].transition[2])))
    <2>1. i \in 1..n /\ e \in 1..n /\ i \in 0..n /\ e + 1 \in Nat \ {0}
          /\ r[i] = q[i] /\ r[e] = q[e] /\ Beats(q, e + 1, i)
        <3>1. i \in 1..n /\ e \in 1..n /\ i \in 0..n /\ e + 1 \in Nat \ {0}
            BY <1>1
        <3> QED
            BY <3>1, <1>1, <1>2, <1>6
    <2>2. CASE i = n
        <3>1. r[i + 1] = a /\ IsEnd(q[e]) /\ Beats(q, e + 1, n)
            BY <2>1, <2>2, <1>1, <1>6
        <3> QED
            BY <2>1, <2>2, <3>1
    <2>3. CASE i # n
        <3>1. i + 1 \in 1..n /\ r[i + 1] = q[i + 1] /\ i \in e..Len(q) - 1 /\ e \in 1..Len(q)
            BY <2>1, <2>3, <1>1
        <3> QED
            BY <2>1, <3>1, <1>6 DEF Paced
    <2> QED
        BY <2>2, <2>3
<1>7. ASSUME NEW i \in 1..Len(r) - 1, IsBegin(r[i])
      PROVE  InTime(r[i + 1].ts, After(r[i].ts, EdgeTime(r[i].transition)))
    <2>1. i \in 1..n /\ r[i] = q[i]
        BY <1>1
    <2>2. CASE i = n
        BY <2>1, <2>2, <1>1, <1>7
    <2>3. CASE i # n
        <3>1. i + 1 \in 1..n /\ r[i + 1] = q[i + 1] /\ i \in 1..Len(q) - 1
            BY <2>1, <2>3, <1>1
        <3> QED
            BY <2>1, <3>1, <1>7 DEF Paced
    <2> QED
        BY <2>2, <2>3
<1> QED
    BY <1>3, <1>4, <1>5, <1>6, <1>7 DEF Paced

\* It is kept when the first activity is recorded.
LEMMA PaceOfDrained ==
    ASSUME NEW q \in Seq(Acts), NEW r \in Seq(Acts), Len(q) \in Nat \ {0}, Len(r) = Len(q) - 1,
           \A i \in 1..Len(r) : r[i] = q[i + 1],
           NEW x \in Expectations, NEW y, Paced(q, x),
           q[1] \in Acts, y = Record(FSM, x, q[1].kind, q[1].transition, q[1].ts),
           \A i \in 1..Len(q) - 1 : IsBegin(q[i]) => IsEnd(q[i + 1])
    PROVE  Paced(r, y)
<1> DEFINE a == q[1]
<1> DEFINE m == Len(r)
<1>1. m \in Nat /\ m + 1 = Len(q)
    OBVIOUS
<1>2. ASSUME NEW e \in 1..m + 1, NEW j \in 0..m, Beats(r, e, j)
      PROVE  Beats(q, e + 1, j + 1)
    BY <1>2, BeatsOfTail
<1>3. ASSUME NEW j \in 0..m, Beats(r, 1, j)
      PROVE  Beats(q, 2, j + 1)
    <2>1. 1 \in 1..m + 1 /\ 1 + 1 = 2
        BY <1>1
    <2> QED
        BY <1>3, <2>1, <1>2
<1> HIDE DEF m
<1>4. ASSUME NEW e \in 1..m, NEW i \in e..m - 1, IsEnd(r[e]), Beats(r, e + 1, i)
      PROVE  /\ InTime(r[i + 1].ts, After(r[i].ts, Beat(r[e].transition[2])))
             /\ InTime(r[i + 1].ts, After(r[e].ts, Stay(r[e].transition[2])))
    <2>1. e + 1 \in 1..m + 1 /\ i \in 0..m /\ e + 1 \in 1..Len(q) /\ i + 1 \in e + 1..Len(q) - 1
          /\ i \in 1..m /\ i + 1 \in 1..m
        BY <1>1
    <2>2. Beats(q, e + 1 + 1, i + 1)
        BY <1>2, <1>4, <2>1
    <2>3. r[i + 1] = q[i + 1 + 1] /\ r[i] = q[i + 1] /\ r[e] = q[e + 1]
        BY <2>1 DEF m
    <2> QED
        BY <2>1, <2>2, <2>3, <1>4 DEF Paced
<1>5. ASSUME NEW i \in 1..m - 1, IsBegin(r[i])
      PROVE  InTime(r[i + 1].ts, After(r[i].ts, EdgeTime(r[i].transition)))
    <2>1. i + 1 \in 1..Len(q) - 1 /\ i \in 1..m /\ i + 1 \in 1..m
        BY <1>1
    <2>2. r[i + 1] = q[i + 1 + 1] /\ r[i] = q[i + 1]
        BY <2>1 DEF m
    <2> QED
        BY <2>1, <2>2, <1>5 DEF Paced
<1>6. ASSUME m > 0
      PROVE  r[1] = q[2] /\ 1 \in 1..Len(q) - 1 /\ 1 + 1 = 2 /\ 1 \in 1..m
    <2>1. 1 \in 1..m /\ 1 + 1 = 2
        BY <1>6, <1>1
    <2> QED
        BY <2>1, <1>1 DEF m
<1>7. r # <<>> => m > 0
    BY <1>1 DEF m
<1>8. ASSUME /\ m > 0 => InTime(q[2].ts, y.next_heartbeat)
             /\ \A i \in 1..m : Beats(q, 2, i) =>
                    InTime(q[i + 1].ts, y.transition_deadline) /\ InTime(q[i + 1].ts, y.state_expiry)
             /\ \A i \in 1..m - 1 : Beats(q, 2, i + 1) =>
                    InTime(q[i + 2].ts, After(q[i + 1].ts, Beat(y.state)))
      PROVE  Paced(r, y)
    <2>1. r # <<>> => InTime(r[1].ts, y.next_heartbeat)
        BY <1>6, <1>7, <1>8
    <2>2. ASSUME NEW i \in 1..m, Beats(r, 1, i - 1)
          PROVE  InTime(r[i].ts, y.transition_deadline) /\ InTime(r[i].ts, y.state_expiry)
        <3>1. i - 1 \in 0..m /\ i - 1 + 1 = i /\ r[i] = q[i + 1]
            BY <1>1 DEF m
        <3>2. Beats(q, 2, i)
            BY <2>2, <3>1, <1>3
        <3> QED
            BY <3>1, <3>2, <1>8
    <2>3. ASSUME NEW i \in 1..m - 1, Beats(r, 1, i)
          PROVE  InTime(r[i + 1].ts, After(r[i].ts, Beat(y.state)))
        <3>1. i \in 0..m /\ i \in 1..m /\ i + 1 \in 1..m /\ i + 1 + 1 = i + 2
            BY <1>1
        <3>2. r[i] = q[i + 1] /\ r[i + 1] = q[i + 2]
            BY <3>1 DEF m
        <3> QED
            BY <2>3, <3>1, <3>2, <1>3, <1>8
    <2> QED
        BY <2>1, <2>2, <2>3, <1>4, <1>5 DEF Paced, m
<1>9. a.ts \in Nat /\ (a.kind = "heartbeat" \/ IsEnd(a) \/ IsBegin(a))
    BY ActFields
<1>10. CASE a.kind = "heartbeat"
    <2>1. /\ y.state = x.state
          /\ y.transition_deadline = x.transition_deadline
          /\ y.next_heartbeat = After(a.ts, Beat(x.state))
          /\ y.state_expiry = x.state_expiry
        BY <1>10, RecordBeat
    <2>2. ASSUME NEW j \in 1..m + 1, Beats(q, 2, j)
          PROVE  Beats(q, 1, j)
        BY <1>10, <2>2, <1>1 DEF Beats
    <2>3. m > 0 => InTime(q[2].ts, y.next_heartbeat)
        <3>1. Beats(q, 1, 1)
            BY <1>10 DEF Beats
        <3> QED
            BY <3>1, <2>1, <1>6 DEF Paced
    <2>4. ASSUME NEW i \in 1..m, Beats(q, 2, i)
          PROVE  InTime(q[i + 1].ts, y.transition_deadline) /\ InTime(q[i + 1].ts, y.state_expiry)
        <3>1. i \in 1..m + 1 /\ i + 1 \in 1..Len(q) /\ i + 1 - 1 = i
            BY <1>1
        <3>2. Beats(q, 1, i + 1 - 1)
            BY <3>1, <2>2, <2>4
        <3> QED
            BY <3>1, <3>2, <2>1 DEF Paced
    <2>5. ASSUME NEW i \in 1..m - 1, Beats(q, 2, i + 1)
          PROVE  InTime(q[i + 2].ts, After(q[i + 1].ts, Beat(y.state)))
        <3>1. i + 1 \in 1..m + 1 /\ i + 1 \in 1..Len(q) - 1 /\ i + 1 + 1 = i + 2
            BY <1>1
        <3>2. Beats(q, 1, i + 1)
            BY <3>1, <2>2, <2>5
        <3>3. InTime(q[i + 1 + 1].ts, After(q[i + 1].ts, Beat(x.state)))
            BY <3>1, <3>2 DEF Paced
        <3> QED
            BY <3>1, <3>3, <2>1
    <2> QED
        BY <2>3, <2>4, <2>5, <1>8
<1>11. CASE IsEnd(a)
    <2> DEFINE s == a.transition[2]
    <2>1. /\ y.state = s /\ y.transition_deadline = Inf
          /\ y.next_heartbeat = ArmedFor(FSM, s, FSM.heartbeat_timeouts, a.ts)
          /\ y.state_expiry = ArmedFor(FSM, s, FSM.state_timeouts, a.ts)
        BY <1>11, RecordEnd
    <2>2. /\ y.next_heartbeat = Inf \/ y.next_heartbeat = After(a.ts, Beat(s))
          /\ y.state_expiry = Inf \/ y.state_expiry = After(a.ts, Stay(s))
        BY <2>1 DEF ArmedFor, Beat, Stay
    <2>3. ASSUME NEW i \in 1..m, Beats(q, 2, i)
          PROVE  /\ InTime(q[i + 1].ts, After(q[i].ts, Beat(s)))
                 /\ InTime(q[i + 1].ts, After(a.ts, Stay(s)))
        <3>1. 1 \in 1..Len(q) /\ i \in 1..Len(q) - 1 /\ 1 + 1 = 2
            BY <1>1
        <3> QED
            BY <3>1, <2>3, <1>11 DEF Paced
    <2>4. m > 0 => InTime(q[2].ts, y.next_heartbeat)
        <3>1. Beats(q, 2, 1)
            BY DEF Beats
        <3>2. m > 0 => InTime(q[2].ts, After(a.ts, Beat(s)))
            BY <3>1, <2>3, <1>6
        <3> QED
            BY <3>2, <2>2 DEF InTime
    <2>5. ASSUME NEW i \in 1..m, Beats(q, 2, i)
          PROVE  InTime(q[i + 1].ts, y.transition_deadline) /\ InTime(q[i + 1].ts, y.state_expiry)
        BY <2>1, <2>2, <2>3, <2>5 DEF InTime
    <2>6. ASSUME NEW i \in 1..m - 1, Beats(q, 2, i + 1)
          PROVE  InTime(q[i + 2].ts, After(q[i + 1].ts, Beat(y.state)))
        <3>1. i + 1 \in 1..m /\ i + 1 + 1 = i + 2
            BY <1>1
        <3>2. InTime(q[i + 1 + 1].ts, After(q[i + 1].ts, Beat(s)))
            BY <3>1, <2>3, <2>6
        <3> QED
            BY <3>1, <3>2, <2>1
    <2> QED
        BY <2>4, <2>5, <2>6, <1>8
<1>12. CASE IsBegin(a)
    <2>1. /\ y.transition_deadline = After(a.ts, EdgeTime(a.transition))
          /\ y.next_heartbeat = Inf /\ y.state_expiry = Inf
        BY <1>12, RecordBegin
    <2>2. ASSUME NEW i \in 2..m + 1
          PROVE  ~Beats(q, 2, i)
        <3>1. m > 0 /\ 2 \in 2..i /\ 2 \in 1..Len(q)
            BY <1>1
        <3>2. IsEnd(q[2]) /\ q[2] \in Acts
            BY <3>1, <1>6, <1>12
        <3> QED
            BY <3>1, <3>2, ActFields DEF Beats
    <2>3. m > 0 => InTime(q[2].ts, y.next_heartbeat)
        BY <2>1 DEF InTime
    <2>4. ASSUME NEW i \in 1..m, Beats(q, 2, i)
          PROVE  InTime(q[i + 1].ts, y.transition_deadline) /\ InTime(q[i + 1].ts, y.state_expiry)
        <3>1. i = 1 /\ m > 0
            <4>1. i \in 2..m + 1 \/ i = 1
                BY <1>1
            <4> QED
                BY <4>1, <2>2, <2>4, <1>1
        <3>2. InTime(q[1 + 1].ts, After(q[1].ts, EdgeTime(q[1].transition)))
            BY <3>1, <1>6, <1>12 DEF Paced
        <3> QED
            BY <3>1, <3>2, <2>1 DEF InTime
    <2>5. ASSUME NEW i \in 1..m - 1, Beats(q, 2, i + 1)
          PROVE  InTime(q[i + 2].ts, After(q[i + 1].ts, Beat(y.state)))
        <3>1. i + 1 \in 2..m + 1
            BY <1>1
        <3> QED
            BY <3>1, <2>2, <2>5
    <2> QED
        BY <2>3, <2>4, <2>5, <1>8
<1> QED
    BY <1>9, <1>10, <1>11, <1>12

-----------------------------------------------------------------------------
(* The steps of a worker in time.                                           *)

LEMMA Room ==
    ASSUME TimeoutsLeaveRoom
    PROVE  /\ \A s : Beat(s) # Inf => Beat(s) >= PutDelay + Slack
           /\ \A p : EdgeTime(p) # Inf => EdgeTime(p) >= PutDelay + Slack
           /\ \A s : Stay(s) # Inf => Stay(s) >= Slack
<1>1. \A s : Beat(s) # Inf => Beat(s) >= PutDelay + Slack
    BY DEF TimeoutsLeaveRoom, Beat, TimeoutOf
<1>2. \A p : EdgeTime(p) # Inf => EdgeTime(p) >= PutDelay + Slack
    BY DEF TimeoutsLeaveRoom, EdgeTime, TimeoutOf
<1>3. \A s : Stay(s) # Inf => Stay(s) >= Slack
    BY DEF TimeoutsLeaveRoom, Stay, TimeoutOf
<1> QED
    BY <1>1, <1>2, <1>3

\* Less than the delay of a put has passed since t, and the timeout has room for it.
LEMMA InTimeByRoom ==
    ASSUME NEW t \in Nat, NEW u \in Nat, NEW delay \in Nat, u - t <= delay,
           NEW d \in Timeouts, d # Inf => d >= delay + Slack
    PROVE  InTime(u, After(t, d))
BY WatchAssumption DEF InTime, After, Slack, Timeouts, Inf

LEMMA InTimeByGuard ==
    ASSUME NEW t \in Nat, NEW d \in Timeouts, StillInTime(t, d), now \in Nat
    PROVE  InTime(now + 1, After(t, d))
BY WatchAssumption DEF InTime, After, StillInTime, Slack, Timeouts, Inf

LEMMA InitPunctualInv ==
    ASSUME InitialIsUntimed, Init
    PROVE  PunctualInv
<1>1. WatchInv
    BY InitWatchInv
<1>2. Beat(InitialState(FSM)) = Inf /\ Stay(InitialState(FSM)) = Inf
    BY DEF InitialIsUntimed, Beat, Stay, TimeoutOf
<1>3. act.ts = 0 /\ act.kind = "heartbeat"
    BY DEF Init, Activity
<1>4. SoFarInTime
    <2>1. Staying => InTime(now, After(entered, Stay(state)))
        BY <1>2 DEF Init, After, InTime
    <2> QED
        BY <2>1, <1>3, WatchAssumption DEF SoFarInTime, Init, InActor
<1>5. Stream = <<act>> /\ Len(Stream) = 1 /\ Stream[1] = act
    BY DEF Stream, Init
<1>6. /\ expectation.transition_deadline = Inf /\ expectation.next_heartbeat = Inf
      /\ expectation.state_expiry = Inf
    BY DEF Init, NewExpectation
<1>7. PacedOK(Stream)
    BY <1>3, <1>5, <1>6 DEF PacedOK, Paced, InTime, IsEnd
<1>8. DrainOK(Stream) /\ PunctualIsHealthy
    BY DEF Init, DrainOK, PunctualIsHealthy
<1> QED
    BY <1>1, <1>4, <1>7, <1>8 DEF PunctualInv

\* What the stream has to do with the worker: its next activity is in time for all
\* that will be armed when it is recorded.
LEMMA ActorInTime ==
    ASSUME PunctualInv, punctual, ~term, InActor, NEW a \in Acts, a.ts = now
    PROVE  Paced(Append(Stream, a), expectation)
<1> DEFINE n == Len(Stream)
<1>1. TypeOK /\ WorkerOK /\ StreamOK(Stream, act) /\ KnownOK(Stream) /\ Paced(Stream, expectation)
    BY DEF PunctualInv, WatchInv, PacedOK
<1>2. Stream \in Seq(Acts) /\ n \in Nat /\ (n > 0 => Stream[n] = act) /\ (Stream = <<>> <=> n = 0)
    BY <1>1, StreamType DEF StreamOK
<1>3. ~IsBegin(act) /\ state \notin TerminalStates(FSM)
    BY <1>1 DEF InActor, WorkerOK
<1>4. InTime(now, After(act.ts, Beat(state))) /\ InTime(now, After(entered, Stay(state)))
    BY DEF PunctualInv, SoFarInTime, Staying
<1>5. Beats(Stream, 1, n) => IsKnown(Stream)
    BY <1>1, <1>3 DEF KnownOK
<1>6. /\ ArmedFor(FSM, state, FSM.heartbeat_timeouts, act.ts) = After(act.ts, Beat(state))
      /\ ArmedFor(FSM, state, FSM.state_timeouts, entered) = After(entered, Stay(state))
    BY <1>3 DEF ArmedFor, Beat, Stay
<1>7. Stream = <<>> => InTime(a.ts, expectation.next_heartbeat)
    <2>1. Stream = <<>> => Beats(Stream, 1, n)
        BY <1>2 DEF Beats
    <2> QED
        BY <2>1, <1>4, <1>5, <1>6 DEF IsKnown
<1>8. Beats(Stream, 1, n) => /\ InTime(a.ts, expectation.transition_deadline)
                             /\ InTime(a.ts, expectation.state_expiry)
    BY <1>4, <1>5, <1>6 DEF IsKnown, InTime
<1>9. n > 0 /\ Beats(Stream, 1, n) => InTime(a.ts, After(Stream[n].ts, Beat(expectation.state)))
    BY <1>2, <1>4, <1>5 DEF IsKnown
<1>10. ASSUME NEW e \in 1..n, IsEnd(Stream[e]), Beats(Stream, e + 1, n)
       PROVE  /\ InTime(a.ts, After(Stream[n].ts, Beat(Stream[e].transition[2])))
              /\ InTime(a.ts, After(Stream[e].ts, Stay(Stream[e].transition[2])))
    <2>1. Stream[e].transition[2] = state /\ Stream[e].ts = entered
        BY <1>1, <1>3, <1>10 DEF KnownOK
    <2>2. Stream[n] = act
        BY <1>2
    <2> QED
        BY <2>1, <2>2, <1>4
<1>11. n > 0 => ~IsBegin(Stream[n])
    BY <1>2, <1>3
<1> HIDE DEF n
<1> QED
    BY <1>1, <1>2, <1>7, <1>8, <1>9, <1>10, <1>11, PaceOfGrown DEF n

\* So is the end of a transition.
LEMMA HooksInTime ==
    ASSUME PunctualInv, punctual, ~term, pc = "hooks", NEW a \in Acts, a.ts = now
    PROVE  Paced(Append(Stream, a), expectation)
<1> DEFINE n == Len(Stream)
<1>1. TypeOK /\ WorkerOK /\ StreamOK(Stream, act) /\ BegunOK(Stream) /\ Paced(Stream, expectation)
    BY DEF PunctualInv, WatchInv, PacedOK
<1>2. Stream \in Seq(Acts) /\ n \in Nat /\ (n > 0 => Stream[n] = act) /\ (Stream = <<>> <=> n = 0)
    BY <1>1, StreamType DEF StreamOK
<1>3. IsBegin(act) /\ act.kind # "heartbeat" /\ ~IsEnd(act)
    BY <1>1, ActFields DEF WorkerOK, TypeOK
<1>4. InTime(now, After(act.ts, EdgeTime(act.transition)))
    BY DEF PunctualInv, SoFarInTime
<1>5. Stream = <<>> => /\ InTime(a.ts, expectation.next_heartbeat)
                       /\ InTime(a.ts, expectation.transition_deadline)
                       /\ InTime(a.ts, expectation.state_expiry)
    BY <1>1, <1>3, <1>4 DEF BegunOK, InTime
<1>6. n > 0 => ~Beats(Stream, 1, n)
    BY <1>2, <1>3 DEF Beats
<1>7. \A e \in 1..n : ~(IsEnd(Stream[e]) /\ Beats(Stream, e + 1, n))
    <2> SUFFICES ASSUME NEW e \in 1..n, IsEnd(Stream[e]), Beats(Stream, e + 1, n)
                 PROVE  FALSE
        OBVIOUS
    <2>1. n > 0 /\ Stream[n] = act
        BY <1>2
    <2>2. e # n
        BY <2>1, <1>3
    <2>3. n \in e + 1..n
        BY <2>2, <1>2
    <2> QED
        BY <2>1, <2>3, <1>3 DEF Beats
<1>8. n > 0 /\ IsBegin(Stream[n]) => InTime(a.ts, After(Stream[n].ts, EdgeTime(Stream[n].transition)))
    BY <1>2, <1>4
<1>9. Beats(Stream, 1, n) => /\ InTime(a.ts, expectation.transition_deadline)
                             /\ InTime(a.ts, expectation.state_expiry)
    BY <1>2, <1>5, <1>6
<1> HIDE DEF n
<1> QED
    BY <1>1, <1>2, <1>5, <1>6, <1>7, <1>8, <1>9, PaceOfGrown DEF n

\* A new activity is younger than the drain in course.
LEMMA GrownDrain ==
    ASSUME PunctualInv, pc # "put", pc' = "put", act' \in Acts, act'.ts = now,
           UNCHANGED <<queue, punctual, watch, drained, looked_at>>
    PROVE  DrainOK(Stream)'
<1>1. TypeOK /\ SoFarInTime /\ DrainOK(Stream)
    BY DEF PunctualInv, WatchInv
<1>2. Stream' = Append(Stream, act') /\ Stream \in Seq(Acts)
    BY <1>1, StreamGrows, StreamType
<1>3. /\ Len(Stream') = Len(Stream) + 1 /\ Len(Stream) \in Nat /\ Stream'[Len(Stream')] = act'
      /\ \A i \in 1..Len(Stream) : Stream'[i] = Stream[i]
    BY <1>2, GrownStream
<1>4. punctual /\ watch # "away" => now + PutDelay >= looked_at
    BY <1>1, WatchAssumption DEF SoFarInTime, TypeOK
<1> QED
    BY <1>1, <1>3, <1>4 DEF DrainOK

LEMMA KeepalivePunctualInv ==
    ASSUME PunctualInv, Keepalive
    PROVE  PunctualInv'
<1>1. WatchInv /\ WatchInv' /\ TypeOK /\ TypeOK'
    BY KeepaliveWatchInv DEF PunctualInv, WatchInv
<1>2. act' \in Acts /\ act'.ts = now /\ ~IsBegin(act')
    BY <1>1 DEF TypeOK, Keepalive, Activity, IsBegin
<1>3. UNCHANGED <<punctual, now, state, entered, queue, term, expectation, watch, looked_at, drained,
                  verdict>> /\ InActor /\ pc # "put" /\ pc' = "put"
    BY DEF Keepalive, InActor, watcher
<1>4. SoFarInTime'
    BY <1>1, <1>2, <1>3, WatchAssumption DEF PunctualInv, SoFarInTime, InActor, Staying, TypeOK
<1>5. PacedOK(Stream)'
    BY <1>1, <1>2, <1>3, ActorInTime, StreamGrows DEF PacedOK
<1>6. DrainOK(Stream)'
    BY <1>2, <1>3, GrownDrain
<1> QED
    BY <1>1, <1>3, <1>4, <1>5, <1>6 DEF PunctualInv, PunctualIsHealthy

LEMMA BeginPunctualInv ==
    ASSUME PunctualInv, NEW event \in Events(FSM, state), BeginTransition(event)
    PROVE  PunctualInv'
<1>1. WatchInv /\ WatchInv' /\ TypeOK /\ TypeOK'
    BY BeginWatchInv DEF PunctualInv, WatchInv
<1>2. act' \in Acts /\ act'.ts = now /\ act'.kind = "transition_begin"
    BY <1>1 DEF TypeOK, BeginTransition, Activity
<1>3. UNCHANGED <<punctual, now, state, entered, queue, term, expectation, watch, looked_at, drained,
                  verdict>> /\ InActor /\ pc # "put" /\ pc' = "put"
    BY DEF BeginTransition, InActor, watcher
<1>4. SoFarInTime'
    BY <1>1, <1>2, <1>3, WatchAssumption DEF PunctualInv, SoFarInTime, InActor, Staying, TypeOK
<1>5. PacedOK(Stream)'
    BY <1>1, <1>2, <1>3, ActorInTime, StreamGrows DEF PacedOK
<1>6. DrainOK(Stream)'
    BY <1>2, <1>3, GrownDrain
<1> QED
    BY <1>1, <1>3, <1>4, <1>5, <1>6 DEF PunctualInv, PunctualIsHealthy

LEMMA EndPunctualInv ==
    ASSUME PunctualInv, TimeoutsLeaveRoom, EndTransition
    PROVE  PunctualInv'
<1>1. WatchInv /\ WatchInv' /\ TypeOK /\ TypeOK'
    BY EndWatchInv DEF PunctualInv, WatchInv
<1>2. act' \in Acts /\ act'.ts = now /\ entered' = now
    BY <1>1 DEF TypeOK, EndTransition, Activity
<1>3. UNCHANGED <<punctual, now, queue, term, expectation, watch, looked_at, drained, verdict>>
      /\ pc = "hooks" /\ pc' = "put"
    BY DEF EndTransition, watcher
<1>4. InTime(now, After(now, Stay(state')))
    <2>1. Stay(state') \in Timeouts /\ (Stay(state') # Inf => Stay(state') >= 0 + Slack)
        BY TimeoutTypes, Room, WatchAssumption DEF Slack
    <2>2. now \in Nat /\ now - now <= 0 /\ 0 \in Nat
        BY <1>1 DEF TypeOK
    <2> QED
        BY <2>1, <2>2, InTimeByRoom
<1>5. SoFarInTime'
    BY <1>1, <1>2, <1>3, <1>4, WatchAssumption DEF PunctualInv, SoFarInTime, InActor, TypeOK
<1>6. PacedOK(Stream)'
    BY <1>1, <1>2, <1>3, HooksInTime, StreamGrows DEF PacedOK
<1>7. DrainOK(Stream)'
    BY <1>2, <1>3, GrownDrain
<1> QED
    BY <1>1, <1>3, <1>5, <1>6, <1>7 DEF PunctualInv, PunctualIsHealthy

LEMMA PutPunctualInv ==
    ASSUME PunctualInv, TimeoutsLeaveRoom, Put
    PROVE  PunctualInv'
<1>1. WatchInv /\ WatchInv' /\ TypeOK /\ WorkerOK /\ SoFarInTime
    BY PutWatchInv DEF PunctualInv, WatchInv
<1>2. UNCHANGED <<punctual, now, act, state, entered, term, expectation, watch, looked_at, drained,
                  verdict>> /\ pc = "put" /\ pc' # "put"
    BY DEF Put, watcher
<1>3. punctual => /\ InTime(now, After(act.ts, EdgeTime(act.transition)))
                  /\ InTime(now, After(act.ts, Beat(state)))
    <2>1. /\ Beat(state) \in Timeouts /\ EdgeTime(act.transition) \in Timeouts
          /\ act.ts \in Nat /\ now \in Nat
        BY <1>1, TimeoutTypes, ActFields DEF TypeOK
    <2>2. punctual => now - act.ts <= PutDelay /\ PutDelay \in Nat
        BY <1>1, <1>2, WatchAssumption DEF SoFarInTime
    <2> QED
        BY <2>1, <2>2, Room, InTimeByRoom
<1>4. SoFarInTime'
    <2>1. Staying' => Staying
        BY <1>2 DEF Put, Staying, InActor
    <2> QED
        BY <1>1, <1>2, <1>3, <2>1 DEF SoFarInTime, InActor
<1>5. Stream' = Stream
    BY <1>1, StreamIsPut
<1>6. PacedOK(Stream)' /\ DrainOK(Stream)'
    BY <1>2, <1>5 DEF PunctualInv, PacedOK, DrainOK
<1> QED
    BY <1>1, <1>2, <1>4, <1>6 DEF PunctualInv, PunctualIsHealthy

LEMMA DrainPunctualInv ==
    ASSUME PunctualInv, DrainOne
    PROVE  PunctualInv'
<1>1. WatchInv /\ WatchInv' /\ TypeOK /\ StreamOK(Stream, act) /\ SoFarInTime
    BY DrainWatchInv DEF PunctualInv, WatchInv
<1>2. UNCHANGED <<punctual, now, pc, act, state, entered, term, watch, looked_at, verdict>>
      /\ drained' = drained + 1 /\ watch = "draining"
    BY DEF DrainOne, worker
<1>3. SoFarInTime'
    BY <1>1, <1>2 DEF SoFarInTime, InActor, Staying
<1>4. /\ Stream' \in Seq(Acts) /\ Stream \in Seq(Acts)
      /\ Len(Stream) \in Nat \ {0} /\ Len(Stream') = Len(Stream) - 1
      /\ \A i \in 1..Len(Stream') : Stream'[i] = Stream[i + 1]
    BY <1>1, StreamDrains, StreamType
<1>5. PacedOK(Stream)'
    <2> SUFFICES ASSUME punctual, ~term PROVE Paced(Stream', expectation')
        BY <1>2 DEF PacedOK
    <2>1. /\ Stream[1] \in Acts
          /\ expectation' = Record(FSM, expectation, Stream[1].kind, Stream[1].transition, Stream[1].ts)
        BY <1>1, DrainedExpectation DEF Drops
    <2>2. Paced(Stream, expectation) /\ expectation \in Expectations
        BY <1>1 DEF PunctualInv, PacedOK, TypeOK
    <2>3. \A i \in 1..Len(Stream) - 1 : IsBegin(Stream[i]) => IsEnd(Stream[i + 1])
        BY <1>1 DEF StreamOK
    <2> QED
        BY <1>4, <2>1, <2>2, <2>3, PaceOfDrained
<1>6. DrainOK(Stream)'
    <2> SUFFICES ASSUME punctual, NEW i \in 1..Len(Stream'), i > QueueMax - (drained + 1)
                 PROVE  Stream'[i].ts + PutDelay >= looked_at
        BY <1>2 DEF DrainOK
    <2>1. i + 1 \in 1..Len(Stream) /\ i + 1 > QueueMax - drained /\ Stream'[i] = Stream[i + 1]
        BY <1>1, <1>4, WatchAssumption DEF TypeOK
    <2> QED
        BY <2>1, <1>2 DEF PunctualInv, DrainOK
<1> QED
    BY <1>1, <1>2, <1>3, <1>5, <1>6 DEF PunctualInv, PunctualIsHealthy

\* When a drain begins only the activity that waits for room in the queue is out of
\* its reach, and it has not waited for long.
LEMMA BeginDrainPunctualInv ==
    ASSUME PunctualInv, BeginDrain
    PROVE  PunctualInv'
<1>1. WatchInv /\ WatchInv' /\ TypeOK /\ SoFarInTime
    BY AsideWatchInv DEF PunctualInv, WatchInv
<1>2. UNCHANGED <<punctual, now, pc, act, state, entered, queue, term, expectation, verdict>>
      /\ drained' = 0 /\ watch' = "draining" /\ looked_at' = now
    BY DEF BeginDrain, worker
<1>3. SoFarInTime'
    BY <1>1, <1>2, WatchAssumption DEF SoFarInTime, InActor, Staying, TypeOK
<1>4. Stream' = Stream
    BY <1>2 DEF Stream
<1>5. PacedOK(Stream)'
    BY <1>2, <1>4 DEF PunctualInv, PacedOK
<1>6. DrainOK(Stream)'
    <2> SUFFICES ASSUME punctual, NEW i \in 1..Len(Stream), i > QueueMax
                 PROVE  Stream[i].ts + PutDelay >= now
        BY <1>2, <1>4, WatchAssumption DEF DrainOK
    <2>1. Len(queue) \in Nat /\ Len(queue) <= QueueMax /\ QueueMax \in Nat
        BY <1>1, WatchAssumption DEF TypeOK
    <2>2. pc = "put" /\ i = Len(queue) + 1
        BY <1>1, <2>1, StreamType
    <2>3. Stream[i] = act
        BY <1>1, <2>2, StreamType
    <2>4. now - act.ts <= PutDelay /\ act.ts \in Nat /\ now \in Nat
        BY <1>1, <2>2, ActFields DEF SoFarInTime, TypeOK
    <2> QED
        BY <2>3, <2>4, WatchAssumption
<1> QED
    BY <1>1, <1>2, <1>3, <1>5, <1>6 DEF PunctualInv, PunctualIsHealthy

LEMMA DrainDonePunctualInv ==
    ASSUME PunctualInv, DrainDone
    PROVE  PunctualInv'
<1>1. WatchInv /\ WatchInv' /\ TypeOK /\ WorkerOK /\ SoFarInTime /\ DrainOK(Stream)
    BY AsideWatchInv DEF PunctualInv, WatchInv
<1>2. UNCHANGED <<punctual, now, pc, act, state, entered, queue, term, expectation, looked_at, drained,
                  verdict>> /\ watch = "draining" /\ watch' = "judging"
    BY DEF DrainDone, worker
<1>3. SoFarInTime'
    BY <1>1, <1>2 DEF SoFarInTime, InActor, Staying
<1>4. Stream' = Stream
    BY <1>2 DEF Stream
<1>5. PacedOK(Stream)'
    BY <1>2, <1>4 DEF PunctualInv, PacedOK
<1>6. DrainOK(Stream)'
    <2> SUFFICES ASSUME punctual, NEW i \in 1..Len(Stream)
                 PROVE  Stream[i].ts + PutDelay >= looked_at
        BY <1>2, <1>4 DEF DrainOK
    <2>1. CASE queue = <<>>
        <3>1. pc = "put" /\ i = 1 /\ Len(queue) = 0
            BY <1>1, <2>1, StreamType
        <3>2. Stream[i] = act
            BY <1>1, <3>1, StreamType
        <3>3. now - act.ts <= PutDelay /\ act.ts \in Nat /\ now \in Nat /\ looked_at <= now
              /\ looked_at \in Nat
            BY <1>1, <1>2, <3>1, ActFields DEF SoFarInTime, TypeOK
        <3> QED
            BY <3>2, <3>3, WatchAssumption
    <2>2. CASE drained = QueueMax
        <3>1. i > QueueMax - drained
            BY <2>2, WatchAssumption
        <3> QED
            BY <3>1, <1>1, <1>2 DEF DrainOK
    <2> QED
        BY <2>1, <2>2 DEF DrainDone
<1> QED
    BY <1>1, <1>2, <1>3, <1>5, <1>6 DEF PunctualInv, PunctualIsHealthy

\* A worker in time is healthy when it is judged.
LEMMA JudgedHealthy ==
    ASSUME PunctualInv, punctual, ~term, watch = "judging"
    PROVE  IsHealthy(expectation, now)
<1>1. /\ TypeOK /\ WorkerOK /\ KnownOK(Stream) /\ BegunOK(Stream) /\ SoFarInTime
      /\ Paced(Stream, expectation) /\ DrainOK(Stream)
    BY DEF PunctualInv, WatchInv, PacedOK
<1>2. /\ now \in Nat /\ looked_at \in Nat /\ act.ts \in Nat
      /\ expectation.transition_deadline \in Timeouts /\ expectation.next_heartbeat \in Timeouts
      /\ expectation.state_expiry \in Timeouts
    BY <1>1, ActFields DEF TypeOK, Expectations
<1>3. now - looked_at <= Lag /\ looked_at <= now /\ Lag \in Nat /\ PutDelay \in Nat
    BY <1>1, WatchAssumption DEF SoFarInTime
<1>4. ASSUME \A d \in Deadlines(expectation) : \E t \in Nat : InTime(t, d) /\ now <= t + Slack
      PROVE  IsHealthy(expectation, now)
    BY <1>2, <1>3, <1>4 DEF IsHealthy, Deadlines, InTime, Slack, Timeouts, Inf
<1>5. CASE Stream # <<>>
    <2>1. Stream \in Seq(Acts) /\ 1 \in 1..Len(Stream) /\ Stream[1] \in Acts
        BY <1>1, <1>5, StreamType
    <2>2. Stream[1].ts \in Nat /\ now <= Stream[1].ts + Slack
        <3>1. Stream[1].ts + PutDelay >= looked_at /\ Stream[1].ts \in Nat
            BY <2>1, <1>1, ActFields DEF DrainOK
        <3> QED
            BY <3>1, <1>2, <1>3 DEF Slack
    <2>3. Beats(Stream, 1, 1 - 1)
        BY DEF Beats
    <2>4. /\ InTime(Stream[1].ts, expectation.next_heartbeat)
          /\ InTime(Stream[1].ts, expectation.transition_deadline)
          /\ InTime(Stream[1].ts, expectation.state_expiry)
        BY <2>1, <2>3, <1>1, <1>5 DEF Paced
    <2> QED
        BY <2>2, <2>4, <1>4 DEF Deadlines
<1>6. CASE Stream = <<>>
    <2>1. pc # "put" /\ Beats(Stream, 1, Len(Stream))
        <3>1. pc # "put"
            BY <1>1, <1>6 DEF Stream, TypeOK
        <3> QED
            BY <3>1, <1>6 DEF Beats
    <2>2. ASSUME \A d \in Deadlines(expectation) : InTime(now, d)
          PROVE  IsHealthy(expectation, now)
        BY <2>2, <1>2, <1>3, <1>4 DEF Slack
    <2>3. CASE pc = "hooks"
        BY <2>3, <2>2, <1>1, <1>6 DEF WorkerOK, BegunOK, SoFarInTime, Deadlines, InTime
    <2>4. CASE pc = "actor"
        <3>1. IsKnown(Stream)
            BY <2>1, <2>4, <1>1 DEF KnownOK, WorkerOK
        <3>2. CASE state \in TerminalStates(FSM)
            BY <3>1, <3>2, <2>2, <1>6 DEF IsKnown, ArmedFor, Deadlines, InTime
        <3>3. CASE state \notin TerminalStates(FSM)
            <4>1. InTime(now, After(act.ts, Beat(state))) /\ InTime(now, After(entered, Stay(state)))
                BY <3>3, <2>4, <1>1 DEF SoFarInTime, InActor, Staying
            <4>2. /\ expectation.next_heartbeat = After(act.ts, Beat(state))
                  /\ expectation.state_expiry = After(entered, Stay(state))
                  /\ expectation.transition_deadline = Inf
                BY <3>1, <3>3, <1>6 DEF IsKnown, ArmedFor, Beat, Stay
            <4> QED
                BY <4>1, <4>2, <2>2 DEF Deadlines, InTime
        <3> QED
            BY <3>2, <3>3
    <2> QED
        BY <2>1, <2>3, <2>4, <1>1 DEF TypeOK
<1> QED
    BY <1>5, <1>6

LEMMA JudgePunctualInv ==
    ASSUME PunctualInv, Judge
    PROVE  PunctualInv'
<1>1. WatchInv' /\ SoFarInTime
    BY AsideWatchInv DEF PunctualInv
<1>2. UNCHANGED <<punctual, now, pc, act, state, entered, queue, term, expectation, looked_at, drained>>
      /\ watch = "judging" /\ watch' = "away"
    BY DEF Judge, worker
<1>3. SoFarInTime'
    BY <1>1, <1>2 DEF SoFarInTime, InActor, Staying
<1>4. Stream' = Stream
    BY <1>2 DEF Stream
<1>5. PacedOK(Stream)' /\ DrainOK(Stream)'
    BY <1>2, <1>4 DEF PunctualInv, PacedOK, DrainOK
<1>6. PunctualIsHealthy'
    BY <1>2, JudgedHealthy DEF PunctualIsHealthy, Judge
<1> QED
    BY <1>1, <1>3, <1>5, <1>6 DEF PunctualInv

LEMMA AsidePunctualInv ==
    ASSUME PunctualInv, Stop \/ UNCHANGED vars
    PROVE  PunctualInv'
<1>1. WatchInv' /\ SoFarInTime
    BY AsideWatchInv DEF PunctualInv
<1>2. UNCHANGED <<punctual, now, pc, act, state, entered, queue, expectation, watch, looked_at, drained,
                  verdict>> /\ (term => term')
    BY DEF Stop, vars, worker, watcher
<1>3. SoFarInTime'
    BY <1>1, <1>2 DEF SoFarInTime, InActor, Staying
<1>4. Stream' = Stream
    BY <1>2 DEF Stream
<1>5. PacedOK(Stream)' /\ DrainOK(Stream)' /\ PunctualIsHealthy'
    BY <1>2, <1>4 DEF PunctualInv, PacedOK, DrainOK, PunctualIsHealthy
<1> QED
    BY <1>1, <1>3, <1>5 DEF PunctualInv

\* The clock waits for a worker and a supervisor that have to be in time.
LEMMA TimePunctualInv ==
    ASSUME PunctualInv, TimePasses
    PROVE  PunctualInv'
<1>1. WatchInv' /\ TypeOK /\ SoFarInTime
    BY AsideWatchInv DEF PunctualInv, WatchInv
<1>2. UNCHANGED <<punctual, pc, act, state, entered, queue, term, expectation, watch, looked_at, drained,
                  verdict>> /\ now' = now + 1
    BY DEF TimePasses, worker, watcher
<1>3. /\ now \in Nat /\ act.ts \in Nat /\ entered \in Nat /\ looked_at \in Nat
      /\ Beat(state) \in Timeouts /\ Stay(state) \in Timeouts /\ EdgeTime(act.transition) \in Timeouts
    BY <1>1, ActFields, TimeoutTypes DEF TypeOK
<1>4. punctual =>
        /\ pc = "put" => now - act.ts < PutDelay
        /\ pc = "hooks" => StillInTime(act.ts, EdgeTime(act.transition))
        /\ InActor => StillInTime(act.ts, Beat(state))
        /\ Staying => StillInTime(entered, Stay(state))
        /\ watch # "away" => now - looked_at < Lag
    BY DEF TimePasses, WorkerInTime, WatcherInTime, Edge, EdgeTime, Beat, Stay
<1>5. SoFarInTime'
    <2>1. punctual => /\ pc = "put" => now' - act.ts <= PutDelay
                      /\ watch # "away" => looked_at <= now' /\ now' - looked_at <= Lag
        BY <1>1, <1>2, <1>3, <1>4, WatchAssumption DEF SoFarInTime
    <2>2. punctual => /\ pc = "hooks" => InTime(now', After(act.ts, EdgeTime(act.transition)))
                      /\ InActor => InTime(now', After(act.ts, Beat(state)))
                      /\ Staying => InTime(now', After(entered, Stay(state)))
        BY <1>2, <1>3, <1>4, InTimeByGuard
    <2>3. (InActor' <=> InActor) /\ (Staying' <=> Staying)
        BY <1>2 DEF InActor, Staying
    <2> QED
        BY <1>2, <2>1, <2>2, <2>3 DEF SoFarInTime
<1>6. Stream' = Stream
    BY <1>2 DEF Stream
<1>7. PacedOK(Stream)' /\ DrainOK(Stream)' /\ PunctualIsHealthy'
    BY <1>2, <1>6 DEF PunctualInv, PacedOK, DrainOK, PunctualIsHealthy
<1> QED
    BY <1>1, <1>5, <1>7 DEF PunctualInv

LEMMA NextPunctualInv ==
    ASSUME TimeoutsLeaveRoom
    PROVE  PunctualInv /\ [Next]_vars => PunctualInv'
<1> SUFFICES ASSUME PunctualInv, [Next]_vars
             PROVE  PunctualInv'
    OBVIOUS
<1>1. CASE \E event \in Events(FSM, state) : BeginTransition(event)
    BY <1>1, BeginPunctualInv
<1>2. CASE Keepalive
    BY <1>2, KeepalivePunctualInv
<1>3. CASE EndTransition
    BY <1>3, EndPunctualInv
<1>4. CASE Put
    BY <1>4, PutPunctualInv
<1>5. CASE BeginDrain
    BY <1>5, BeginDrainPunctualInv
<1>6. CASE DrainOne
    BY <1>6, DrainPunctualInv
<1>7. CASE DrainDone
    BY <1>7, DrainDonePunctualInv
<1>8. CASE Judge
    BY <1>8, JudgePunctualInv
<1>9. CASE Stop \/ UNCHANGED vars
    BY <1>9, AsidePunctualInv
<1>10. CASE TimePasses
    BY <1>10, TimePunctualInv
<1> QED
    BY <1>1, <1>2, <1>3, <1>4, <1>5, <1>6, <1>7, <1>8, <1>9, <1>10 DEF Next

-----------------------------------------------------------------------------
(* The rate limit of an actor.                                              *)

\* The pacing invariant and its consequence hold when the actor is first called.
LEMMA InitPaced == Calls!Init => Calls!Paced /\ Calls!EverySecondIsLimited
  BY CallAssumption DEF Calls!Init, Calls!Paced, Calls!TypeOK, Calls!EverySecondIsLimited

\* A call of ActorFunction stamps itself and computes its sleep from the stamp of
\* the call before, which came no earlier than the last invocation but one.
LEMMA CallPaced ==
  ASSUME Calls!Paced, Calls!EverySecondIsLimited, Calls!Call
  PROVE  Calls!Paced' /\ Calls!EverySecondIsLimited'
<1>1. Calls!TypeOK'
  BY CallAssumption DEF Calls!Call, Calls!Paced, Calls!TypeOK, Calls!SleepFor
<1>2. wake_at' >= last_at + MinInterval
  BY CallAssumption DEF Calls!Call, Calls!Paced, Calls!TypeOK, Calls!SleepFor
<1>3. ASSUME Len(invocations) >= 1 PROVE invocations[Len(invocations)] <= call_now
  BY <1>3 DEF Calls!Paced, Calls!TypeOK
<1>4. ASSUME Len(invocations) >= 2
      PROVE /\ invocations[Len(invocations) - 1] \in Nat
            /\ invocations[Len(invocations) - 1] <= last_at
  BY <1>4 DEF Calls!Paced, Calls!TypeOK, Calls!Call, Calls!Last
<1>5. Calls!Paced'
  BY <1>1, <1>2, <1>3, <1>4, CallAssumption, SMTT(30) DEF Calls!Call, Calls!Paced, Calls!TypeOK, Calls!Last
<1> QED
  BY <1>5 DEF Calls!Call, Calls!EverySecondIsLimited

\* The sleep is over: the new invocation is late enough for the one two before it.
LEMMA InvokePaced ==
  ASSUME Calls!Paced, Calls!EverySecondIsLimited, Calls!Invoke
  PROVE  Calls!Paced' /\ Calls!EverySecondIsLimited'
<1> DEFINE n == Len(invocations)
<1>1. /\ n \in Nat /\ invocations' \in Seq(Nat) /\ Len(invocations') = n + 1
      /\ invocations'[n + 1] = call_now
      /\ \A i \in 1..n : invocations'[i] = invocations[i] /\ invocations[i] \in Nat
  BY DEF Calls!Invoke, Calls!Paced, Calls!TypeOK
<1>2. Calls!Paced'
  <2>1. Calls!TypeOK'
    BY <1>1 DEF Calls!Invoke, Calls!Paced, Calls!TypeOK
  <2>2. Len(invocations') >= 2 => Calls!Last(1)' <= last_at'
    BY <1>1 DEF Calls!Invoke, Calls!Paced, Calls!TypeOK, Calls!Last
  <2>3. \A i \in 1..Len(invocations') : invocations'[i] <= call_now'
    BY <1>1 DEF Calls!Invoke, Calls!Paced, Calls!TypeOK
  <2> QED
    BY <2>1, <2>2, <2>3 DEF Calls!Invoke, Calls!Paced, Calls!TypeOK
<1>3. ASSUME NEW i \in 1..Len(invocations') - 2
      PROVE  invocations'[i + 2] - invocations'[i] >= MinInterval
  <2>1. CASE i + 2 <= n
    BY <2>1, <1>1, SMTT(30) DEF Calls!EverySecondIsLimited
  <2>2. CASE i + 2 = n + 1
    <3>1. n >= 2 /\ i = n - 1
      BY <2>2, <1>1
    <3>2. wake_at >= invocations[n - 1] + MinInterval /\ call_now >= wake_at
      BY <3>1, <1>1 DEF Calls!Invoke, Calls!Paced, Calls!TypeOK, Calls!Last
    <3>3. invocations[n - 1] \in Nat /\ invocations'[i] = invocations[n - 1]
      BY <3>1, <1>1
    <3>4. invocations'[i + 2] = call_now
      BY <3>1, <1>1
    <3>5. call_now \in Nat /\ wake_at \in Nat /\ MinInterval \in Nat
      BY CallAssumption DEF Calls!Paced, Calls!TypeOK, Calls!Invoke
    <3> QED
      BY ONLY <3>2, <3>3, <3>4, <3>5
  <2> QED
    BY <2>1, <2>2, <1>1
<1> QED
  BY <1>2, <1>3 DEF Calls!EverySecondIsLimited

\* Every step keeps the pacing invariant.
LEMMA NextPaced ==
  Calls!Paced /\ Calls!EverySecondIsLimited /\ [Calls!Next]_(Calls!vars) => Calls!Paced' /\ Calls!EverySecondIsLimited'
<1> SUFFICES ASSUME Calls!Paced, Calls!EverySecondIsLimited, [Calls!Next]_(Calls!vars)
             PROVE  Calls!Paced' /\ Calls!EverySecondIsLimited'
  OBVIOUS
<1>1. CASE Calls!Call
  BY <1>1, CallPaced
<1>2. CASE Calls!Invoke
  BY <1>2, InvokePaced
<1>3. CASE Calls!Return
  BY <1>3 DEF Calls!Return, Calls!Paced, Calls!TypeOK, Calls!EverySecondIsLimited, Calls!Last
<1>4. CASE Calls!TimePasses
  BY <1>4 DEF Calls!TimePasses, Calls!Paced, Calls!TypeOK, Calls!EverySecondIsLimited, Calls!Last
<1>5. CASE UNCHANGED Calls!vars
  BY <1>5 DEF Calls!vars, Calls!Paced, Calls!TypeOK, Calls!EverySecondIsLimited, Calls!Last
<1> QED
  BY <1>1, <1>2, <1>3, <1>4, <1>5 DEF Calls!Next

-----------------------------------------------------------------------------
(* The theorems.                                                            *)

\* A step of the composition is a step of one of its parts.
LEMMA TimingStep ==
    ASSUME [TimingNext]_<<part, vars, calls>>
    PROVE  [Next]_vars /\ [Calls!Next]_(Calls!vars)
BY DEF TimingNext, calls, Calls!vars

\* What the supervisor expects is what the worker's last activities announced.
THEOREM ExpectationsAreTrue ==
    ASSUME InitialIsUntimed
    PROVE  TimingSpec => []WatchInv
<1>1. TimingInit => WatchInv
    BY InitWatchInv DEF TimingInit
<1>2. WatchInv /\ [TimingNext]_<<part, vars, calls>> => WatchInv'
    BY NextWatchInv, TimingStep
<1> QED
    BY <1>1, <1>2, PTL DEF TimingSpec

\* A worker that gave no sign for longer than its state or its transition allows is
\* unhealthy as soon as all it sent is recorded, in every machine whose initial state
\* has no timeout.
THEOREM SilenceIsAlwaysNoticed ==
    ASSUME InitialIsUntimed
    PROVE  TimingSpec => []SilenceIsNoticed
<1>1. WatchInv => SilenceIsNoticed
    BY Noticed
<1> QED
    BY <1>1, ExpectationsAreTrue, PTL

\* So is one whose actor stays in a state beyond its StateTimeout.
THEOREM ResidenceIsAlwaysNoticed ==
    ASSUME InitialIsUntimed
    PROVE  TimingSpec => []ActorResidenceIsNoticed
<1>1. WatchInv => ActorResidenceIsNoticed
    BY Noticed
<1> QED
    BY <1>1, ExpectationsAreTrue, PTL

\* One that was told to stop and only beats is unhealthy once a heartbeat's time has
\* passed: heartbeats cannot prolong a shutdown (supervisor.py:240-242).
THEOREM HeartbeatsNeverBuyTime ==
    ASSUME InitialIsUntimed
    PROVE  TimingSpec => []HeartbeatsBuyNoTime
<1>1. WatchInv => HeartbeatsBuyNoTime
    BY Unheeded
<1> QED
    BY <1>1, ExpectationsAreTrue, PTL

\* A worker that keeps its contract with the delays of the queue and of the tick to
\* spare is never found lingering, if no timeout is shorter than those delays.
THEOREM PunctualIsAlwaysHealthy ==
    ASSUME InitialIsUntimed, TimeoutsLeaveRoom
    PROVE  TimingSpec => []PunctualIsHealthy
<1>1. TimingInit => PunctualInv
    BY InitPunctualInv DEF TimingInit
<1>2. PunctualInv /\ [TimingNext]_<<part, vars, calls>> => PunctualInv'
    BY NextPunctualInv, TimingStep
<1>3. PunctualInv => PunctualIsHealthy
    BY DEF PunctualInv
<1> QED
    BY <1>1, <1>2, <1>3, PTL DEF TimingSpec

\* min_interval bounds the rate of an actor to two invocations per interval: every
\* invocation comes at least MinInterval after the last but one.
THEOREM ThrottleHolds == TimingSpec => []EverySecondIsLimited
<1>1. TimingInit => Calls!Paced /\ Calls!EverySecondIsLimited
    BY InitPaced DEF TimingInit
<1>2. Calls!Paced /\ Calls!EverySecondIsLimited /\ [TimingNext]_<<part, vars, calls>>
        => Calls!Paced' /\ Calls!EverySecondIsLimited'
    BY NextPaced, TimingStep
<1>3. Calls!EverySecondIsLimited => EverySecondIsLimited
    BY DEF EverySecondIsLimited
<1> QED
    BY <1>1, <1>2, <1>3, PTL DEF TimingSpec
=============================================================================
