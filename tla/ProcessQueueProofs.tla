------------------------- MODULE ProcessQueueProofs -------------------------
(***************************************************************************)
(* Processes that are killed and restarted at any point of a put or a feed *)
(* still give their supervisor the channel of ActivityChannel, for every   *)
(* set of workers, queue size and quota.                                   *)
(***************************************************************************)
EXTENDS ProcessQueue, FiniteSetTheorems, TLAPS

\* What of an incarnation was written and not taken is in the pipe, in order and
\* once; nothing in the pipe is of an incarnation still to come.
StreamOf(w) ==
    /\ taken[w] <= fed[w] /\ fed[w] <= put[w]
    /\ \A i \in 1..Len(pipe) : pipe[i].worker_name = w =>
            /\ pipe[i].generation <= generation[w]
            /\ pipe[i].generation = generation[w] => taken[w] < pipe[i].n /\ pipe[i].n <= fed[w]
    /\ \A i, j \in 1..Len(pipe) :
            /\ i < j
            /\ pipe[i].worker_name = w /\ pipe[i].generation = generation[w]
            /\ pipe[j].worker_name = w /\ pipe[j].generation = generation[w]
            => pipe[i].n < pipe[j].n
    /\ \A n \in (taken[w] + 1)..fed[w] : \E i \in 1..Len(pipe) :
            pipe[i].worker_name = w /\ pipe[i].generation = generation[w] /\ pipe[i].n = n

Streams == \A w \in Workers : StreamOf(w)

\* A feeder that has the lock has something to write; an exit waited for it.
Feeders ==
    \A w \in Workers :
        /\ IsAlive(w) /\ feeder[w] = "holding" => fed[w] < put[w]
        /\ pc[w] = "exited" => fed[w] = put[w]

\* What the drain took, the evaluator was told, but for what a stop makes unheeded.
Told == \A w \in Workers : \A n \in 1..taken[w] : n \in recorded[w] \/ IsMissable(n)

IInv == TypeOK /\ Streams /\ Feeders /\ Told

-----------------------------------------------------------------------------
(* The invariant. *)

\* What is in the pipe, by position.
LEMMA MessagesInPipe ==
    ASSUME TypeOK
    PROVE  /\ pipe \in Seq(Messages) /\ Len(pipe) \in Nat /\ DOMAIN pipe = 1..Len(pipe)
           /\ \A i \in 1..Len(pipe) : /\ pipe[i] \in Messages /\ pipe[i].n \in Nat
                                      /\ pipe[i].generation \in Nat
                                      /\ pipe[i].worker_name \in Workers
<1>1. pipe \in Seq(Messages)
    BY DEF TypeOK
<1>2. /\ Len(pipe) \in Nat /\ DOMAIN pipe = 1..Len(pipe)
      /\ \A i \in 1..Len(pipe) : pipe[i] \in Messages
    BY <1>1
<1>3. \A a \in Messages : a.n \in Nat /\ a.generation \in Nat /\ a.worker_name \in Workers
    BY DEF Messages
<1> QED BY <1>1, <1>2, <1>3

LEMMA InitIInv == Init => IInv
<1> SUFFICES ASSUME Init PROVE IInv
    OBVIOUS
<1>1. TypeOK
  <2>1. permits \in Nat
      BY QueueAssumption DEF Init
  <2>2. pipe \in Seq(Messages)
      BY DEF Init
  <2>3. /\ generation \in [Workers -> Nat] /\ put \in [Workers -> Nat]
        /\ fed \in [Workers -> Nat] /\ taken \in [Workers -> Nat]
        /\ recorded \in [Workers -> SUBSET Nat] /\ supervisor = "running"
        /\ pc \in [Workers -> {"work", "put", "flush", "exited", "killed"}]
        /\ feeder \in [Workers -> {"idle", "holding", "written"}]
      BY DEF Init
  <2> QED BY <2>1, <2>2, <2>3 DEF Init, TypeOK
<1>2. Streams
    BY DEF Init, Streams, StreamOf
<1>3. Feeders
    BY DEF Init, Feeders
<1>4. Told
    BY DEF Init, Told
<1> QED BY <1>1, <1>2, <1>3, <1>4 DEF IInv

\* A step that touches neither pipe nor feed nor record keeps the streams.
LEMMA StreamsStay ==
    ASSUME IInv, UNCHANGED <<generation, fed, pipe, taken>>,
           \A w \in Workers : put'[w] \in Nat /\ put[w] <= put'[w]
    PROVE  Streams'
<1> SUFFICES ASSUME NEW w \in Workers PROVE StreamOf(w)'
    BY DEF Streams
<1>1. fed[w] \in Nat /\ put[w] \in Nat
    BY DEF IInv, TypeOK
<1> QED BY <1>1, SMTT(30) DEF IInv, Streams, StreamOf

\* So does what was told, in a step that neither drains nor starts the supervisor anew.
LEMMA ToldStays ==
    ASSUME Told, UNCHANGED <<taken, recorded>>, supervisor' = "running" => supervisor = "running"
    PROVE  Told'
BY DEF Told, IsMissable

LEMMA LoopIInv ==
    ASSUME IInv, NEW w \in Workers, Yield(w) \/ LoopEnds(w) \/ Put(w) \/ Exit(w) PROVE IInv'
<1>0. /\ pc \in [Workers -> {"work", "put", "flush", "exited", "killed"}]
      /\ put \in [Workers -> Nat] /\ permits \in Nat
    BY DEF IInv, TypeOK
<1>1. /\ UNCHANGED <<generation, fed, feeder, locked, pipe, supervision, lost>>
      /\ pc' \in [Workers -> {"work", "put", "flush", "exited", "killed"}]
      /\ \A v \in Workers : v # w => pc'[v] = pc[v]
      /\ permits' \in Nat /\ put' \in [Workers -> Nat]
      /\ \A v \in Workers : put[v] <= put'[v]
      /\ IsAlive(w) /\ (pc'[w] = "exited" => fed[w] = put'[w])
  <2>1. CASE Yield(w) \/ LoopEnds(w) \/ Exit(w)
      BY <1>0, <2>1 DEF Yield, LoopEnds, Exit, IsAlive
  <2>2. CASE Put(w)
    <3>1. /\ UNCHANGED <<generation, fed, feeder, locked, pipe, supervision, lost>>
          /\ pc[w] = "put" /\ permits > 0 /\ permits' = permits - 1
          /\ put' = [put EXCEPT ![w] = @ + 1] /\ pc' = [pc EXCEPT ![w] = "work"]
        BY <2>2 DEF Put
    <3>2. put' \in [Workers -> Nat] /\ \A v \in Workers : put[v] <= put'[v]
        BY <1>0, <3>1
    <3> QED BY <1>0, <3>1, <3>2 DEF IsAlive
  <2> QED BY <2>1, <2>2
<1>2. TypeOK'
    BY <1>1 DEF IInv, TypeOK, supervision
<1>3. Streams' /\ Told'
    BY <1>1, StreamsStay, ToldStays DEF supervision, IInv
<1>4. Feeders'
  <2>1. \A v \in Workers : v # w => put'[v] = put[v]
      BY DEF IInv, TypeOK, Yield, LoopEnds, Put, Exit
  <2>2. \A v \in Workers : put[v] \in Nat /\ put'[v] \in Nat /\ fed[v] \in Nat
      BY <1>1 DEF IInv, TypeOK
  <2> QED BY <1>1, <2>1, <2>2 DEF IInv, Feeders, IsAlive
<1> QED BY <1>2, <1>3, <1>4 DEF IInv

LEMMA FeederIInv ==
    ASSUME IInv, NEW w \in Workers, FeedAcquire(w) \/ FeedRelease(w) PROVE IInv'
<1>1. /\ UNCHANGED <<generation, pc, put, fed, permits, pipe, supervision, lost>>
      /\ feeder' \in [Workers -> {"idle", "holding", "written"}] /\ locked' \in BOOLEAN
      /\ \A v \in Workers : v # w => feeder'[v] = feeder[v]
      /\ feeder'[w] = "holding" => fed[w] < put[w]
    BY DEF IInv, TypeOK, FeedAcquire, FeedRelease
<1>2. TypeOK'
    BY <1>1 DEF IInv, TypeOK, supervision
<1>3. Streams' /\ Told'
  <2>1. \A v \in Workers : put'[v] \in Nat /\ put[v] <= put'[v]
      BY <1>1 DEF IInv, TypeOK
  <2> QED BY <1>1, <2>1, StreamsStay, ToldStays DEF supervision, IInv
<1>4. Feeders'
    BY <1>1 DEF IInv, Feeders, IsAlive
<1> QED BY <1>2, <1>3, <1>4 DEF IInv

\* The new last message is the next of its stream.
LEMMA WriteIInv ==
    ASSUME IInv, NEW w \in Workers, FeedWrite(w) PROVE IInv'
<1> DEFINE a == [worker_name |-> w, generation |-> generation[w], n |-> fed[w] + 1]
<1>1. /\ IsAlive(w) /\ feeder[w] = "holding"
      /\ pipe' = Append(pipe, a)
      /\ fed' = [fed EXCEPT ![w] = @ + 1]
      /\ feeder' = [feeder EXCEPT ![w] = "written"]
      /\ UNCHANGED <<generation, pc, put, locked, permits, supervisor, taken, recorded, lost>>
    BY DEF FeedWrite, supervision
<1>2. /\ a \in Messages /\ a.worker_name = w /\ a.generation = generation[w] /\ a.n = fed[w] + 1
      /\ fed[w] \in Nat /\ put[w] \in Nat /\ taken[w] \in Nat
    BY DEF IInv, TypeOK, Messages
<1> HIDE DEF a
<1>3. /\ pipe \in Seq(Messages) /\ pipe' \in Seq(Messages)
      /\ Len(pipe) \in Nat /\ Len(pipe') = Len(pipe) + 1 /\ pipe'[Len(pipe) + 1] = a
      /\ \A i \in 1..Len(pipe) : pipe'[i] = pipe[i]
    BY <1>1, <1>2 DEF IInv, TypeOK
<1>4. /\ fed'[w] = fed[w] + 1 /\ \A v \in Workers : v # w => fed'[v] = fed[v]
      /\ feeder'[w] = "written" /\ \A v \in Workers : v # w => feeder'[v] = feeder[v]
    BY <1>1 DEF IInv, TypeOK
<1>5. fed[w] < put[w]
    BY <1>1 DEF IInv, Feeders
<1>6. TypeOK'
    BY <1>1, <1>3 DEF IInv, TypeOK
<1>7. Feeders'
    BY <1>1, <1>4, <1>5 DEF IInv, Feeders, IsAlive
<1>8. Streams'
  <2> SUFFICES ASSUME NEW v \in Workers PROVE StreamOf(v)'
      BY DEF Streams
  <2>0. StreamOf(v)
      BY DEF IInv, Streams
  <2>1. \A i \in 1..Len(pipe) : pipe[i] \in Messages /\ pipe[i].n \in Nat /\ pipe[i].generation \in Nat
      BY MessagesInPipe DEF IInv
  <2>2. 1..Len(pipe') = 1..Len(pipe) \cup {Len(pipe) + 1} /\ generation[v] \in Nat
      BY <1>3 DEF IInv, TypeOK
  <2>3. CASE v = w
    <3>1. taken'[w] <= fed'[w] /\ fed'[w] <= put'[w]
        BY <1>1, <1>2, <1>4, <1>5, <2>0, <2>3 DEF StreamOf
    <3>2. \A i \in 1..Len(pipe') : pipe'[i].worker_name = w =>
            /\ pipe'[i].generation <= generation'[w]
            /\ pipe'[i].generation = generation'[w]
                    => taken'[w] < pipe'[i].n /\ pipe'[i].n <= fed'[w]
        BY <1>1, <1>2, <1>3, <1>4, <2>0, <2>1, <2>2, <2>3 DEF StreamOf
    <3>3. \A i, j \in 1..Len(pipe') :
            /\ i < j
            /\ pipe'[i].worker_name = w /\ pipe'[i].generation = generation'[w]
            /\ pipe'[j].worker_name = w /\ pipe'[j].generation = generation'[w]
            => pipe'[i].n < pipe'[j].n
        BY <1>1, <1>2, <1>3, <1>4, <2>0, <2>1, <2>2, <2>3 DEF StreamOf
    <3>4. ASSUME NEW n \in (taken'[w] + 1)..fed'[w]
          PROVE  \E i \in 1..Len(pipe') :
            pipe'[i].worker_name = w /\ pipe'[i].generation = generation'[w] /\ pipe'[i].n = n
      <4>1. CASE n = fed[w] + 1
          BY <1>1, <1>2, <1>3, <2>2, <4>1
      <4>2. CASE n # fed[w] + 1
        <5>1. n \in (taken[w] + 1)..fed[w]
            BY <1>1, <1>2, <1>4, <4>2
        <5>2. PICK i \in 1..Len(pipe) :
                pipe[i].worker_name = w /\ pipe[i].generation = generation[w] /\ pipe[i].n = n
            BY <2>0, <2>3, <5>1 DEF StreamOf
        <5> QED BY <1>1, <1>3, <2>2, <5>2
      <4> QED BY <4>1, <4>2
    <3> QED BY <2>3, <3>1, <3>2, <3>3, <3>4 DEF StreamOf
  <2>4. CASE v # w
    <3>1. pipe'[Len(pipe) + 1].worker_name # v
        BY <1>2, <1>3, <2>4
    <3>2. fed'[v] = fed[v] /\ taken' = taken /\ put' = put /\ generation' = generation
        BY <1>1, <1>4, <2>4
    <3>3. \A n \in (taken[v] + 1)..fed[v] : \E i \in 1..Len(pipe') :
            pipe'[i].worker_name = v /\ pipe'[i].generation = generation[v] /\ pipe'[i].n = n
      <4> SUFFICES ASSUME NEW n \in (taken[v] + 1)..fed[v]
                   PROVE  \E i \in 1..Len(pipe') :
                     pipe'[i].worker_name = v /\ pipe'[i].generation = generation[v] /\ pipe'[i].n = n
          OBVIOUS
      <4>1. PICK i \in 1..Len(pipe) :
              pipe[i].worker_name = v /\ pipe[i].generation = generation[v] /\ pipe[i].n = n
          BY <2>0 DEF StreamOf
      <4> QED BY <1>3, <2>2, <4>1
    <3>4. \A i \in 1..Len(pipe') : pipe'[i].worker_name = v =>
            i \in 1..Len(pipe) /\ pipe'[i] = pipe[i]
        BY <1>3, <2>2, <3>1
    <3>5. taken'[v] <= fed'[v] /\ fed'[v] <= put'[v]
        BY <2>0, <3>2 DEF StreamOf
    <3>6. \A i \in 1..Len(pipe') : pipe'[i].worker_name = v =>
            /\ pipe'[i].generation <= generation'[v]
            /\ pipe'[i].generation = generation'[v]
                    => taken'[v] < pipe'[i].n /\ pipe'[i].n <= fed'[v]
        BY <2>0, <3>2, <3>4 DEF StreamOf
    <3>7. \A i, j \in 1..Len(pipe') :
            /\ i < j
            /\ pipe'[i].worker_name = v /\ pipe'[i].generation = generation'[v]
            /\ pipe'[j].worker_name = v /\ pipe'[j].generation = generation'[v]
            => pipe'[i].n < pipe'[j].n
        BY <2>0, <3>2, <3>4 DEF StreamOf
    <3> QED BY <3>2, <3>3, <3>5, <3>6, <3>7 DEF StreamOf
  <2> QED BY <2>3, <2>4
<1>9. Told'
    BY <1>1, ToldStays DEF IInv
<1> QED BY <1>6, <1>7, <1>8, <1>9 DEF IInv

LEMMA KillIInv ==
    ASSUME IInv, NEW w \in Workers, Kill(w) PROVE IInv'
<1>1. /\ pc' = [pc EXCEPT ![w] = "killed"] /\ lost' = lost + (put[w] - fed[w])
      /\ UNCHANGED <<generation, put, fed, feeder, locked, permits, pipe>>
      /\ UNCHANGED <<supervisor, taken, recorded>>
    BY DEF Kill, supervision
<1>2. fed[w] \in Nat /\ put[w] \in Nat /\ fed[w] <= put[w]
    BY DEF IInv, TypeOK, Streams, StreamOf
<1>3. TypeOK'
    BY <1>1, <1>2 DEF IInv, TypeOK
<1>4. Streams' /\ Told'
  <2>1. \A v \in Workers : put'[v] \in Nat /\ put[v] <= put'[v]
      BY <1>1 DEF IInv, TypeOK
  <2> QED BY <1>1, <2>1, StreamsStay, ToldStays DEF IInv
<1>5. Feeders'
  <2>1. pc'[w] = "killed" /\ \A v \in Workers : v # w => pc'[v] = pc[v]
      BY <1>1 DEF IInv, TypeOK
  <2> QED BY <1>1, <2>1 DEF IInv, Feeders, IsAlive
<1> QED BY <1>3, <1>4, <1>5 DEF IInv

\* Nothing in the pipe is of the new generation.
LEMMA RestartIInv ==
    ASSUME IInv, NEW w \in Workers, Restart(w) PROVE IInv'
<1>1. /\ generation' = [generation EXCEPT ![w] = @ + 1]
      /\ pc' = [pc EXCEPT ![w] = "work"]
      /\ put' = [put EXCEPT ![w] = 0] /\ fed' = [fed EXCEPT ![w] = 0]
      /\ feeder' = [feeder EXCEPT ![w] = "idle"]
      /\ taken' = [taken EXCEPT ![w] = 0] /\ recorded' = [recorded EXCEPT ![w] = {}]
      /\ UNCHANGED <<locked, permits, pipe, supervisor, lost>>
    BY DEF Restart
<1>2. /\ generation[w] \in Nat /\ generation'[w] = generation[w] + 1
      /\ pc'[w] = "work" /\ put'[w] = 0 /\ fed'[w] = 0 /\ feeder'[w] = "idle" /\ taken'[w] = 0
      /\ \A v \in Workers : v # w =>
            /\ generation'[v] = generation[v] /\ pc'[v] = pc[v] /\ put'[v] = put[v]
            /\ fed'[v] = fed[v] /\ feeder'[v] = feeder[v] /\ taken'[v] = taken[v]
            /\ recorded'[v] = recorded[v]
    BY <1>1 DEF IInv, TypeOK
<1>3. TypeOK'
    BY <1>1 DEF IInv, TypeOK
<1>4. Feeders'
    BY <1>2 DEF IInv, Feeders, IsAlive
<1>5. Streams'
  <2> SUFFICES ASSUME NEW v \in Workers PROVE StreamOf(v)'
      BY DEF Streams
  <2>0. StreamOf(v) /\ pipe' = pipe
      BY <1>1 DEF IInv, Streams
  <2>1. CASE v = w
    <3>1. \A i \in 1..Len(pipe) : pipe[i].generation \in Nat
        BY MessagesInPipe DEF IInv
    <3>2. \A i \in 1..Len(pipe) : pipe[i].worker_name = w =>
            pipe[i].generation <= generation'[w] /\ pipe[i].generation # generation'[w]
        BY <1>2, <2>0, <2>1, <3>1 DEF StreamOf
    <3> QED BY <1>2, <2>0, <2>1, <3>2 DEF StreamOf
  <2>2. CASE v # w
      BY <1>2, <2>0, <2>2 DEF StreamOf
  <2> QED BY <2>1, <2>2
<1>6. Told'
  <2>1. Told /\ supervisor' = supervisor
      BY <1>1 DEF IInv
  <2> QED BY <1>2, <2>1 DEF Told, IsMissable
<1> QED BY <1>3, <1>4, <1>5, <1>6 DEF IInv

\* The supervisor moves on, never back.
LEMMA StopIInv ==
    ASSUME IInv, StopExecutors \/ Leave PROVE IInv'
<1>1. /\ UNCHANGED <<generation, pc, put, fed, feeder, locked, permits, pipe, taken, recorded, lost>>
      /\ supervisor' \in {"shutdown", "gone"}
    BY DEF StopExecutors, Leave, processes
<1>2. TypeOK'
    BY <1>1 DEF IInv, TypeOK
<1>3. Streams' /\ Told'
  <2>1. \A v \in Workers : put'[v] \in Nat /\ put[v] <= put'[v]
      BY <1>1 DEF IInv, TypeOK
  <2> QED BY <1>1, <2>1, StreamsStay, ToldStays DEF IInv
<1>4. Feeders'
    BY <1>1 DEF IInv, Feeders, IsAlive
<1> QED BY <1>2, <1>3, <1>4 DEF IInv

\* What the drain takes of a current stream is the next it has not taken yet.
LEMMA HeadIsNext ==
    ASSUME IInv, pipe # <<>>, IsCurrent(Head(pipe))
    PROVE  /\ Head(pipe) \in Messages /\ Head(pipe).worker_name \in Workers
           /\ Head(pipe).n = taken[Head(pipe).worker_name] + 1
           /\ Head(pipe).n <= fed[Head(pipe).worker_name]
<1> DEFINE w == Head(pipe).worker_name
<1>0. /\ pipe \in Seq(Messages)
      /\ \A i \in 1..Len(pipe) : /\ pipe[i] \in Messages /\ pipe[i].n \in Nat
                                 /\ pipe[i].worker_name \in Workers
    BY MessagesInPipe DEF IInv
<1>1. Len(pipe) \in Nat /\ Len(pipe) >= 1 /\ Head(pipe) = pipe[1]
    BY <1>0
<1>2. w \in Workers /\ pipe[1].worker_name = w /\ pipe[1].generation = generation[w]
      /\ pipe[1].n \in Nat /\ Head(pipe) \in Messages
    BY <1>0, <1>1 DEF IsCurrent
<1>3. StreamOf(w) /\ taken[w] \in Nat /\ fed[w] \in Nat
    BY <1>2 DEF IInv, Streams, TypeOK
<1>4. taken[w] < pipe[1].n /\ pipe[1].n <= fed[w]
    BY <1>1, <1>2, <1>3 DEF StreamOf
<1> HIDE DEF w
<1>5. PICK i \in 1..Len(pipe) :
        pipe[i].worker_name = w /\ pipe[i].generation = generation[w] /\ pipe[i].n = taken[w] + 1
  <2>1. taken[w] + 1 \in (taken[w] + 1)..fed[w]
      BY <1>2, <1>3, <1>4
  <2> QED BY <1>3, <2>1 DEF StreamOf
<1>6. i = 1 \/ pipe[1].n < pipe[i].n
    BY <1>1, <1>2, <1>3, <1>5, SMTT(30) DEF StreamOf
<1>7. pipe[1].n = taken[w] + 1
    BY <1>2, <1>3, <1>4, <1>5, <1>6
<1> QED BY <1>1, <1>2, <1>4, <1>7 DEF w

LEMMA DrainIInv ==
    ASSUME IInv, DrainOne PROVE IInv'
<1> DEFINE h == Head(pipe)
<1>1. /\ pipe # <<>> /\ pipe' = Tail(pipe) /\ permits' = permits + 1
      /\ taken' = IF IsCurrent(h) THEN [taken EXCEPT ![h.worker_name] = h.n] ELSE taken
      /\ recorded' = IF IsCurrent(h) /\ ~IsUnheeded(h)
                     THEN [recorded EXCEPT ![h.worker_name] = @ \cup {h.n}] ELSE recorded
      /\ UNCHANGED <<generation, pc, put, fed, feeder, locked, supervisor, lost>>
    BY DEF DrainOne, processes
<1>2. /\ pipe \in Seq(Messages) /\ Len(pipe) \in Nat /\ Len(pipe) >= 1 /\ h = pipe[1]
      /\ pipe' \in Seq(Messages) /\ Len(pipe') = Len(pipe) - 1
      /\ \A i \in 1..Len(pipe') : i + 1 \in 1..Len(pipe) /\ pipe'[i] = pipe[i + 1]
      /\ \A i \in 1..Len(pipe) : /\ pipe[i] \in Messages /\ pipe[i].n \in Nat
                                 /\ i # 1 => i - 1 \in 1..Len(pipe') /\ pipe'[i - 1] = pipe[i]
      /\ h \in Messages /\ h.worker_name \in Workers /\ h.n \in Nat
  <2>1. /\ pipe \in Seq(Messages)
        /\ \A i \in 1..Len(pipe) : /\ pipe[i] \in Messages /\ pipe[i].n \in Nat
                                   /\ pipe[i].worker_name \in Workers
      BY MessagesInPipe DEF IInv
  <2>2. Len(pipe) \in Nat /\ Len(pipe) >= 1 /\ h = pipe[1]
      BY <1>1, <2>1
  <2>3. pipe' \in Seq(Messages) /\ Len(pipe') = Len(pipe) - 1
      BY <1>1, <2>1, <2>2
  <2>4. \A i \in 1..Len(pipe') : i + 1 \in 1..Len(pipe) /\ pipe'[i] = pipe[i + 1]
      BY <1>1, <2>1, <2>2, <2>3
  <2>5. \A i \in 1..Len(pipe) : i # 1 => i - 1 \in 1..Len(pipe') /\ pipe'[i - 1] = pipe[i]
      BY <2>2, <2>3, <2>4
  <2>6. h \in Messages /\ h.worker_name \in Workers /\ h.n \in Nat
      BY <2>1, <2>2
  <2> HIDE DEF h
  <2> QED BY <2>1, <2>2, <2>3, <2>4, <2>5, <2>6
<1>3. IsCurrent(h) => h.n = taken[h.worker_name] + 1 /\ h.n <= fed[h.worker_name]
    BY <1>1, HeadIsNext
<1> HIDE DEF h
<1>4. TypeOK'
    BY <1>1, <1>2 DEF IInv, TypeOK
<1>5. Feeders'
    BY <1>1 DEF IInv, Feeders, IsAlive
<1>6. Streams'
  <2> SUFFICES ASSUME NEW v \in Workers PROVE StreamOf(v)'
      BY DEF Streams
  <2>0. /\ StreamOf(v) /\ taken[v] \in Nat /\ fed[v] \in Nat /\ put[v] \in Nat
        /\ generation[v] \in Nat
      BY DEF IInv, Streams, TypeOK
  <2>9. ASSUME NEW i \in 1..Len(pipe'), NEW j \in 1..Len(pipe'), i < j,
               pipe'[i].worker_name = v, pipe'[i].generation = generation[v],
               pipe'[j].worker_name = v, pipe'[j].generation = generation[v]
        PROVE  pipe'[i].n < pipe'[j].n
    <3>1. /\ i + 1 \in 1..Len(pipe) /\ pipe'[i] = pipe[i + 1]
          /\ j + 1 \in 1..Len(pipe) /\ pipe'[j] = pipe[j + 1] /\ i + 1 < j + 1
        BY <1>2, <2>9
    <3>2. \A p, q \in 1..Len(pipe) :
            /\ p < q
            /\ pipe[p].worker_name = v /\ pipe[p].generation = generation[v]
            /\ pipe[q].worker_name = v /\ pipe[q].generation = generation[v]
            => pipe[p].n < pipe[q].n
        BY <2>0 DEF StreamOf
    <3>3. /\ pipe[i + 1].worker_name = v /\ pipe[i + 1].generation = generation[v]
          /\ pipe[j + 1].worker_name = v /\ pipe[j + 1].generation = generation[v]
        BY <2>9, <3>1
    <3>4. pipe[i + 1].n < pipe[j + 1].n
        BY <3>1, <3>2, <3>3
    <3> QED BY <3>1, <3>4
  <2>1. CASE h.worker_name = v /\ h.generation = generation[v]
    <3>1. taken'[v] = taken[v] + 1 /\ h.n = taken[v] + 1 /\ h.n <= fed[v]
        BY <1>1, <1>2, <1>3, <2>1 DEF IsCurrent, IInv, TypeOK
    <3>2. \A i \in 1..Len(pipe') : pipe'[i].worker_name = v =>
            /\ pipe'[i].generation <= generation[v]
            /\ pipe'[i].generation = generation[v]
                    => taken[v] + 1 < pipe'[i].n /\ pipe'[i].n <= fed[v]
      <4> SUFFICES ASSUME NEW i \in 1..Len(pipe'), pipe'[i].worker_name = v
                   PROVE  /\ pipe'[i].generation <= generation[v]
                          /\ pipe'[i].generation = generation[v]
                                => taken[v] + 1 < pipe'[i].n /\ pipe'[i].n <= fed[v]
          OBVIOUS
      <4>1. i + 1 \in 1..Len(pipe) /\ pipe'[i] = pipe[i + 1] /\ 1 < i + 1 /\ 1 \in 1..Len(pipe)
          BY <1>2
      <4>2. /\ pipe[i + 1].generation <= generation[v]
            /\ pipe[i + 1].generation = generation[v] =>
                    pipe[1].n < pipe[i + 1].n /\ pipe[i + 1].n <= fed[v]
          BY <1>2, <2>0, <2>1, <4>1 DEF StreamOf
      <4> QED BY <1>2, <3>1, <4>1, <4>2
    <3>3. \A i, j \in 1..Len(pipe') :
            /\ i < j
            /\ pipe'[i].worker_name = v /\ pipe'[i].generation = generation[v]
            /\ pipe'[j].worker_name = v /\ pipe'[j].generation = generation[v]
            => pipe'[i].n < pipe'[j].n
        BY <2>9
    <3>4. ASSUME NEW n \in (taken[v] + 1 + 1)..fed[v]
          PROVE  \E i \in 1..Len(pipe') :
            pipe'[i].worker_name = v /\ pipe'[i].generation = generation[v] /\ pipe'[i].n = n
      <4>1. n \in (taken[v] + 1)..fed[v] /\ n # h.n
          BY <2>0, <3>1
      <4>2. PICK i \in 1..Len(pipe) :
              pipe[i].worker_name = v /\ pipe[i].generation = generation[v] /\ pipe[i].n = n
          BY <2>0, <4>1 DEF StreamOf
      <4>3. i # 1
          BY <1>2, <4>1, <4>2
      <4> QED BY <1>2, <4>2, <4>3
    <3> QED BY <1>1, <2>0, <3>1, <3>2, <3>3, <3>4 DEF StreamOf
  <2>2. CASE ~(h.worker_name = v /\ h.generation = generation[v])
    <3>1. taken'[v] = taken[v]
        BY <1>1, <1>2, <2>2 DEF IsCurrent, IInv, TypeOK
    <3>2. \A i \in 1..Len(pipe') : pipe'[i].worker_name = v =>
            /\ pipe'[i].generation <= generation[v]
            /\ pipe'[i].generation = generation[v] => taken[v] < pipe'[i].n /\ pipe'[i].n <= fed[v]
      <4>1. \A j \in 1..Len(pipe) : pipe[j].worker_name = v =>
              /\ pipe[j].generation <= generation[v]
              /\ pipe[j].generation = generation[v] => taken[v] < pipe[j].n /\ pipe[j].n <= fed[v]
          BY <2>0 DEF StreamOf
      <4>2. \A i \in 1..Len(pipe') : i + 1 \in 1..Len(pipe) /\ pipe'[i] = pipe[i + 1]
          BY <1>2
      <4> QED BY <4>1, <4>2
    <3>3. \A i, j \in 1..Len(pipe') :
            /\ i < j
            /\ pipe'[i].worker_name = v /\ pipe'[i].generation = generation[v]
            /\ pipe'[j].worker_name = v /\ pipe'[j].generation = generation[v]
            => pipe'[i].n < pipe'[j].n
        BY <2>9
    <3>4. ASSUME NEW n \in (taken[v] + 1)..fed[v]
          PROVE  \E i \in 1..Len(pipe') :
            pipe'[i].worker_name = v /\ pipe'[i].generation = generation[v] /\ pipe'[i].n = n
      <4>1. PICK i \in 1..Len(pipe) :
              pipe[i].worker_name = v /\ pipe[i].generation = generation[v] /\ pipe[i].n = n
          BY <2>0 DEF StreamOf
      <4>2. i # 1
          BY <1>2, <2>2, <4>1
      <4> QED BY <1>2, <4>1, <4>2
    <3> QED BY <1>1, <2>0, <3>1, <3>2, <3>3, <3>4 DEF StreamOf
  <2> QED BY <2>1, <2>2
<1>7. Told'
  <2> SUFFICES ASSUME NEW v \in Workers, NEW n \in 1..taken'[v]
               PROVE  n \in recorded'[v] \/ IsMissable(n)'
      BY DEF Told
  <2>0. /\ taken[v] \in Nat /\ taken \in [Workers -> Nat]
        /\ recorded \in [Workers -> SUBSET Nat]
        /\ \A m \in 1..taken[v] : m \in recorded[v] \/ IsMissable(m)
      BY DEF IInv, TypeOK, Told
  <2>1. recorded[v] \subseteq recorded'[v] /\ (IsMissable(n) => IsMissable(n)')
      BY <1>1, <1>2, <2>0 DEF IsMissable
  <2>2. CASE n \in 1..taken[v]
      BY <2>0, <2>1, <2>2
  <2>3. CASE n \notin 1..taken[v]
    <3>1. IsCurrent(h) /\ h.worker_name = v
        BY <1>1, <1>2, <2>0, <2>3
    <3>2. n = h.n
        BY <1>1, <1>2, <1>3, <2>0, <2>3, <3>1
    <3>3. CASE IsUnheeded(h)
        BY <1>1, <3>2, <3>3 DEF IsUnheeded, IsMissable
    <3>4. CASE ~IsUnheeded(h)
        BY <1>1, <1>2, <2>0, <3>1, <3>2, <3>4
    <3> QED BY <3>3, <3>4
  <2> QED BY <2>2, <2>3
<1> QED BY <1>4, <1>5, <1>6, <1>7 DEF IInv

LEMMA NextIInv == ASSUME IInv, [Next]_vars PROVE IInv'
<1>1. CASE UNCHANGED vars \/ Terminated
  <2>1. /\ UNCHANGED <<generation, pc, put, fed, feeder, locked, permits, pipe, lost>>
        /\ UNCHANGED <<supervisor, taken, recorded>>
      BY <1>1 DEF Terminated, vars, processes, supervision
  <2>2. TypeOK'
      BY <2>1 DEF IInv, TypeOK
  <2>3. Feeders'
      BY <2>1 DEF IInv, Feeders, IsAlive
  <2>4. Streams' /\ Told'
    <3>1. \A w \in Workers : put'[w] \in Nat /\ put[w] <= put'[w]
        BY <2>1 DEF IInv, TypeOK
    <3> QED BY <2>1, <3>1, StreamsStay, ToldStays DEF IInv
  <2> QED BY <2>2, <2>3, <2>4 DEF IInv
<1>2. CASE DrainOne \/ StopExecutors \/ Leave
    BY <1>2, DrainIInv, StopIInv
<1>3. ASSUME NEW w \in Workers,
             \/ Yield(w) \/ LoopEnds(w) \/ Put(w) \/ Exit(w)
             \/ FeedAcquire(w) \/ FeedWrite(w) \/ FeedRelease(w)
             \/ Kill(w) \/ Restart(w)
      PROVE  IInv'
    BY <1>3, LoopIInv, FeederIInv, WriteIInv, KillIInv, RestartIInv
<1> QED BY <1>1, <1>2, <1>3 DEF Next

THEOREM IInvHolds == Spec => []IInv
BY InitIInv, NextIInv, PTL DEF Spec

-----------------------------------------------------------------------------
(* What follows. *)

\* Types.
THEOREM TypesHold == Spec => []TypeOK
BY IInvHolds, PTL DEF IInv

\* The drain finds the rest of every stream, in order and without a gap
\* (execution.py:123-125, supervisor.py:219-244).
THEOREM StreamsAreGapless == Spec => []StreamIsGapless
<1>1. ASSUME IInv PROVE StreamIsGapless
  <2> SUFFICES ASSUME NEW w \in Workers
               PROVE  /\ {pipe[i].n : i \in OfCurrent(w)} = (taken[w] + 1)..fed[w]
                      /\ \A i, j \in OfCurrent(w) : i < j => pipe[i].n < pipe[j].n
      BY DEF StreamIsGapless
  <2>1. StreamOf(w) /\ taken[w] \in Nat /\ fed[w] \in Nat
      BY <1>1 DEF IInv, Streams, TypeOK
  <2>2. DOMAIN pipe = 1..Len(pipe) /\ \A i \in 1..Len(pipe) : pipe[i].n \in Nat
      BY <1>1, MessagesInPipe DEF IInv
  <2>a. \A i : i \in OfCurrent(w) <=>
            /\ i \in 1..Len(pipe)
            /\ pipe[i].worker_name = w /\ pipe[i].generation = generation[w]
      BY <2>2 DEF OfCurrent, IsCurrent
  <2>3. \A i, j \in OfCurrent(w) : i < j => pipe[i].n < pipe[j].n
      BY <2>1, <2>2, <2>a DEF StreamOf
  <2>4. \A i \in OfCurrent(w) : pipe[i].n \in (taken[w] + 1)..fed[w]
      BY <2>1, <2>2, <2>a DEF StreamOf
  <2>5. \A n \in (taken[w] + 1)..fed[w] : \E i \in OfCurrent(w) : pipe[i].n = n
      BY <2>1, <2>2, <2>a DEF StreamOf
  <2> QED BY <2>3, <2>4, <2>5
<1> QED BY <1>1, IInvHolds, PTL

\* What a process put before it ended on its own is heard, but for heartbeats that were
\* taken after the stop (execution.py:123-125, supervisor.py:240-244).
THEOREM EndsAreHeard == Spec => []EndIsHeard
<1>1. ASSUME IInv PROVE EndIsHeard
  <2> SUFFICES ASSUME NEW w \in Workers, pc[w] = "exited", OfCurrent(w) = {}
               PROVE  \A n \in 1..put[w] : n \in recorded[w] \/ IsMissable(n)
      BY DEF EndIsHeard
  <2>1. /\ StreamOf(w) /\ taken[w] \in Nat /\ fed[w] \in Nat /\ put[w] \in Nat
        /\ fed[w] = put[w]
      BY <1>1 DEF IInv, Streams, TypeOK, Feeders
  <2>2. DOMAIN pipe = 1..Len(pipe)
      BY <1>1 DEF IInv, TypeOK
  <2>3. \A n \in (taken[w] + 1)..fed[w] : FALSE
      BY <2>1, <2>2 DEF StreamOf, OfCurrent, IsCurrent
  <2>4. ~(taken[w] < fed[w])
      BY <2>1, <2>3
  <2>5. taken[w] = put[w]
      BY <2>1, <2>4 DEF StreamOf
  <2> QED BY <1>1, <2>5 DEF IInv, Told
<1> QED BY <1>1, IInvHolds, PTL

-----------------------------------------------------------------------------
(* The refinement of ActivityChannel. *)

\* What the channel sees.
Sent == [w \in Workers |-> IF pc[w] = "killed" THEN fed[w] ELSE put[w]]
Over == {w \in Workers : ~IsAlive(w)}

View == <<generation, Sent, taken, Over>>

Step == Channel!Next \/ UNCHANGED View

\* A step of one worker, as the channel sees it.
LEMMA WorkerSteps ==
    ASSUME IInv, NEW w \in Workers,
           \/ Yield(w) \/ LoopEnds(w) \/ Put(w) \/ Exit(w)
           \/ FeedAcquire(w) \/ FeedWrite(w) \/ FeedRelease(w)
           \/ Kill(w) \/ Restart(w)
    PROVE  Step
<1>0. /\ put \in [Workers -> Nat] /\ fed \in [Workers -> Nat] /\ taken \in [Workers -> Nat]
      /\ generation \in [Workers -> Nat]
      /\ pc \in [Workers -> {"work", "put", "flush", "exited", "killed"}]
      /\ taken[w] <= fed[w] /\ fed[w] <= put[w]
      /\ pc[w] = "exited" => fed[w] = put[w]
    BY DEF IInv, TypeOK, Streams, StreamOf, Feeders
<1>1. CASE Yield(w) \/ LoopEnds(w)
  <2>1. /\ UNCHANGED <<generation, put, fed, taken>>
        /\ pc[w] \notin {"killed", "exited"} /\ pc'[w] \notin {"killed", "exited"}
        /\ pc' \in [Workers -> {"work", "put", "flush", "exited", "killed"}]
        /\ \A v \in Workers : v # w => pc'[v] = pc[v]
      BY <1>0, <1>1 DEF Yield, LoopEnds, supervision
  <2> QED BY <1>0, <2>1 DEF Step, View, Sent, Over, IsAlive
<1>2. CASE FeedAcquire(w) \/ FeedRelease(w)
  <2>1. UNCHANGED <<generation, pc, put, fed, taken>>
      BY <1>2 DEF FeedAcquire, FeedRelease, supervision
  <2> QED BY <2>1 DEF Step, View, Sent, Over, IsAlive
<1>3. CASE FeedWrite(w)
  <2>1. UNCHANGED <<generation, pc, put, taken>> /\ fed' = [fed EXCEPT ![w] = @ + 1]
        /\ pc[w] # "killed"
      BY <1>3 DEF FeedWrite, IsAlive, supervision
  <2>2. Sent' = Sent
      BY <1>0, <2>1 DEF Sent
  <2> QED BY <2>1, <2>2 DEF Step, View, Over, IsAlive
<1>4. CASE Put(w)
  <2>1. /\ pc[w] = "put" /\ pc' = [pc EXCEPT ![w] = "work"]
        /\ put' = [put EXCEPT ![w] = @ + 1] /\ UNCHANGED <<generation, fed, taken>>
      BY <1>4 DEF Put, supervision
  <2>2. Sent' = [Sent EXCEPT ![w] = @ + 1]
      BY <1>0, <2>1 DEF Sent
  <2>3. w \notin Over /\ Over' = Over
      BY <1>0, <2>1 DEF Over, IsAlive
  <2>4. Channel!Send(w)
      BY <2>1, <2>2, <2>3 DEF Channel!Send, Sent, Over
  <2> QED BY <2>4 DEF Step, Channel!Next
<1>5. CASE Exit(w)
  <2>1. /\ pc[w] = "flush" /\ pc' = [pc EXCEPT ![w] = "exited"]
        /\ UNCHANGED <<generation, put, fed, taken>>
      BY <1>5 DEF Exit, supervision
  <2>2. Sent' = Sent
      BY <1>0, <2>1 DEF Sent
  <2>3. w \notin Over /\ Over' = Over \cup {w}
      BY <1>0, <2>1 DEF Over, IsAlive
  <2>4. Channel!End(w)
      BY <2>1, <2>2, <2>3 DEF Channel!End, Sent, Over
  <2> QED BY <2>4 DEF Step, Channel!Next
<1>6. CASE Kill(w)
  <2>1. /\ IsAlive(w) /\ pc' = [pc EXCEPT ![w] = "killed"]
        /\ UNCHANGED <<generation, put, fed, taken>>
      BY <1>6 DEF Kill, supervision
  <2>2. Sent' = [Sent EXCEPT ![w] = fed[w]]
      BY <1>0, <2>1 DEF Sent
  <2>9. fed[w] \in taken[w]..Sent[w]
    <3>1. Sent[w] = put[w]
        BY <2>1 DEF Sent, IsAlive
    <3>2. taken[w] \in Nat /\ fed[w] \in Nat /\ put[w] \in Nat
        BY <1>0
    <3> QED BY <1>0, <3>1, <3>2
  <2>3. w \notin Over /\ Over' = Over \cup {w}
      BY <1>0, <2>1 DEF Over, IsAlive
  <2>4. Channel!Crash(w)
      BY <2>1, <2>2, <2>3, <2>9 DEF Channel!Crash, Sent, Over
  <2> QED BY <2>4 DEF Step, Channel!Next
<1>7. CASE Restart(w)
  <2>1. /\ ~IsAlive(w) /\ pc' = [pc EXCEPT ![w] = "work"]
        /\ generation' = [generation EXCEPT ![w] = @ + 1]
        /\ put' = [put EXCEPT ![w] = 0] /\ fed' = [fed EXCEPT ![w] = 0]
        /\ taken' = [taken EXCEPT ![w] = 0]
      BY <1>7 DEF Restart
  <2>2. Sent' = [Sent EXCEPT ![w] = 0]
      BY <1>0, <2>1 DEF Sent
  <2>3. w \in Over /\ Over' = Over \ {w}
      BY <1>0, <2>1 DEF Over, IsAlive
  <2>4. Channel!Renew(w)
      BY <2>1, <2>2, <2>3 DEF Channel!Renew, Sent, Over
  <2> QED BY <2>4 DEF Step, Channel!Next
<1> QED BY <1>1, <1>2, <1>3, <1>4, <1>5, <1>6, <1>7

\* A drain delivers the next activity, or one nobody waits for.
LEMMA DrainSteps == ASSUME IInv, DrainOne PROVE Step
<1> DEFINE w == Head(pipe).worker_name
<1>1. /\ pipe # <<>> /\ UNCHANGED <<generation, pc, put, fed>>
      /\ taken' = IF IsCurrent(Head(pipe)) THEN [taken EXCEPT ![w] = Head(pipe).n] ELSE taken
    BY DEF DrainOne, processes
<1>2. UNCHANGED <<Sent, Over>>
    BY <1>1 DEF Sent, Over, IsAlive
<1>3. CASE IsCurrent(Head(pipe))
  <2>1. /\ w \in Workers /\ Head(pipe).n = taken[w] + 1 /\ Head(pipe).n <= fed[w]
      BY <1>1, <1>3, HeadIsNext
  <2>2. /\ taken[w] \in Nat /\ fed[w] \in Nat /\ put[w] \in Nat /\ fed[w] <= put[w]
        /\ taken \in [Workers -> Nat]
      BY <2>1 DEF IInv, TypeOK, Streams, StreamOf
  <2>3. taken[w] < Sent[w]
      BY <2>1, <2>2 DEF Sent
  <2>4. taken' = [taken EXCEPT ![w] = @ + 1]
      BY <1>1, <1>3, <2>1, <2>2
  <2>5. Channel!Deliver(w)
      BY <1>1, <1>2, <2>3, <2>4 DEF Channel!Deliver, Sent, Over
  <2> QED BY <2>1, <2>5 DEF Step, Channel!Next
<1>4. CASE ~IsCurrent(Head(pipe))
    BY <1>1, <1>2, <1>4 DEF Step, View
<1> QED BY <1>3, <1>4

LEMMA InitMapped == Init => Channel!Init
<1> SUFFICES ASSUME Init PROVE Channel!Init
    OBVIOUS
<1>1. Sent = [w \in Workers |-> 0] /\ Over = {}
    BY DEF Init, Sent, Over, IsAlive
<1> QED BY <1>1 DEF Init, Channel!Init, Sent, Over

\* Process executors and their queue implement ActivityChannel: SIGKILL costs an
\* incarnation its last activities at most (execution.py:118-125).
THEOREM ImplementsChannel == Spec => ChannelSpec
<1>1. Step => [Channel!Next]_Channel!vars
    BY DEF Step, View, Sent, Over, Channel!vars
<1>2. ASSUME IInv, [Next]_vars PROVE Step
  <2>1. CASE UNCHANGED vars \/ Terminated \/ StopExecutors \/ Leave
    <3>1. UNCHANGED <<generation, pc, put, fed, taken>>
        BY <2>1 DEF Terminated, StopExecutors, Leave, vars, processes, supervision
    <3> QED BY <3>1 DEF Step, View, Sent, Over, IsAlive
  <2> QED BY <1>2, <2>1, WorkerSteps, DrainSteps DEF Next
<1> QED BY <1>1, <1>2, InitMapped, IInvHolds, PTL DEF Spec, ChannelSpec, Channel!Spec
-----------------------------------------------------------------------------
(* Permits. *)

\* A process puts no more than it yields.
Bounded == \A w \in Workers : put[w] <= MaxPuts /\ (pc[w] = "put" => put[w] < MaxPuts)

Metered == Bounded /\ PermitsAreAccounted

\* The buffer of w's process, and that of the others.
InBuffer(w) == {w} \X ((fed[w] + 1)..put[w])

LEMMA BufferIsFinite ==
    ASSUME IInv, Bounded
    PROVE  /\ IsFiniteSet(Buffered) /\ Cardinality(Buffered) \in Nat
           /\ \A w \in Workers : \A n : <<w, n>> \in Buffered
                  <=> IsAlive(w) /\ n \in (fed[w] + 1)..put[w]
<1>0. IsFiniteSet(1..MaxPuts)
  <2>1. 1 \in Int /\ MaxPuts \in Int
      BY BoundAssumption
  <2> QED BY ONLY <2>1, FS_Interval
<1>1. IsFiniteSet(Workers \X (1..MaxPuts))
    BY <1>0, WorkersAssumption, FS_Product
<1>2. Buffered \subseteq Workers \X (1..MaxPuts)
    BY DEF Buffered
<1>3. IsFiniteSet(Buffered)
    BY <1>1, <1>2, FS_Subset
<1>4. ASSUME NEW w \in Workers, NEW n
      PROVE  <<w, n>> \in Buffered <=> IsAlive(w) /\ n \in (fed[w] + 1)..put[w]
  <2>1. fed[w] \in Nat /\ put[w] \in Nat /\ put[w] <= MaxPuts
      BY DEF IInv, TypeOK, Bounded
  <2> QED BY <2>1, BoundAssumption DEF Buffered
<1> QED BY <1>3, <1>4, FS_CardinalityType

\* The buffers that a step leaves.
LEMMA BuffersAfter ==
    ASSUME IInv', Bounded', NEW w \in Workers, NEW n
    PROVE  <<w, n>> \in Buffered' <=> IsAlive(w)' /\ n \in (fed'[w] + 1)..put'[w]
<1>1. fed'[w] \in Nat /\ put'[w] \in Nat /\ put'[w] <= MaxPuts
    BY DEF IInv, TypeOK, Bounded
<1> QED BY <1>1, BoundAssumption DEF Buffered

\* Sets of pairs of a worker and a number are equal if they hold the same pairs.
LEMMA BufferedPairs ==
    /\ \A a \in Buffered : \E w \in Workers, n \in 1..MaxPuts : a = <<w, n>>
    /\ \A a \in Buffered' : \E w \in Workers, n \in 1..MaxPuts : a = <<w, n>>
BY DEF Buffered

\* The number of activities in a buffer.
LEMMA BufferCount ==
    ASSUME NEW w, NEW a \in Nat, NEW b \in Nat, a <= b
    PROVE  IsFiniteSet({w} \X ((a + 1)..b)) /\ Cardinality({w} \X ((a + 1)..b)) = b - a
<1>1. IsFiniteSet((a + 1)..b) /\ Cardinality((a + 1)..b) = b - a
  <2>1. a + 1 \in Int /\ b \in Int
      OBVIOUS
  <2>2. /\ IsFiniteSet((a + 1)..b)
        /\ Cardinality((a + 1)..b) = IF a + 1 > b THEN 0 ELSE b - (a + 1) + 1
      BY <2>1, FS_Interval
  <2> QED BY <2>2
<1>2. IsFiniteSet({w}) /\ Cardinality({w}) = 1
    BY FS_Singleton
<1>3. /\ IsFiniteSet({w} \X ((a + 1)..b))
      /\ Cardinality({w} \X ((a + 1)..b)) = Cardinality({w}) * Cardinality((a + 1)..b)
    BY <1>1, <1>2, FS_Product
<1> QED BY <1>1, <1>2, <1>3

\* A step that moves neither permits nor buffers.
LEMMA MeteredStays ==
    ASSUME IInv, IInv', Metered, Bounded', UNCHANGED <<permits, pipe, lost>>,
           \A w \in Workers : \A n :
               (IsAlive(w)' /\ n \in (fed'[w] + 1)..put'[w])
                   <=> (IsAlive(w) /\ n \in (fed[w] + 1)..put[w])
    PROVE  Metered'
<1>1. \A w \in Workers : \A n : <<w, n>> \in Buffered' <=> <<w, n>> \in Buffered
    BY BufferIsFinite, BuffersAfter DEF Metered
<1>2. Buffered' = Buffered
  <2>1. ASSUME NEW a \in Buffered PROVE a \in Buffered'
    <3>1. PICK w \in Workers, n \in 1..MaxPuts : a = <<w, n>>
        BY <2>1, BufferedPairs
    <3> QED BY <1>1, <2>1, <3>1
  <2>2. ASSUME NEW a \in Buffered' PROVE a \in Buffered
    <3>1. PICK w \in Workers, n \in 1..MaxPuts : a = <<w, n>>
        BY <2>2, BufferedPairs
    <3> QED BY <1>1, <2>2, <3>1
  <2> QED BY <2>1, <2>2
<1> QED BY <1>2 DEF Metered, PermitsAreAccounted

LEMMA StillMetered ==
    ASSUME IInv, IInv', Metered, NEW w \in Workers,
           \/ Yield(w) \/ LoopEnds(w) \/ Exit(w)
           \/ FeedAcquire(w) \/ FeedRelease(w) \/ Restart(w)
    PROVE  Metered'
<1>0. /\ pc \in [Workers -> {"work", "put", "flush", "exited", "killed"}]
      /\ put \in [Workers -> Nat] /\ fed \in [Workers -> Nat]
    BY DEF IInv, TypeOK
<1>1. CASE Yield(w) \/ LoopEnds(w) \/ Exit(w)
  <2>1. /\ UNCHANGED <<permits, pipe, lost, put, fed>>
        /\ \A v \in Workers : v # w => pc'[v] = pc[v]
        /\ pc[w] \in {"work", "flush"}
        /\ \/ pc'[w] = "put" /\ put[w] < MaxPuts
           \/ pc'[w] = "flush"
           \/ pc'[w] = "exited" /\ fed[w] = put[w]
      BY <1>0, <1>1 DEF Yield, LoopEnds, Exit
  <2>2. Bounded'
      BY <2>1 DEF Metered, Bounded
  <2>3. ASSUME NEW v \in Workers, NEW n
        PROVE  (IsAlive(v)' /\ n \in (fed'[v] + 1)..put'[v])
                   <=> (IsAlive(v) /\ n \in (fed[v] + 1)..put[v])
    <3>1. CASE v = w
        BY <1>0, <2>1, <3>1 DEF IsAlive
    <3>2. CASE v # w
        BY <2>1, <3>2 DEF IsAlive
    <3> QED BY <3>1, <3>2
  <2> QED BY <2>1, <2>2, <2>3, MeteredStays
<1>2. CASE FeedAcquire(w) \/ FeedRelease(w)
  <2>1. UNCHANGED <<permits, pipe, lost, put, fed, pc>>
      BY <1>2 DEF FeedAcquire, FeedRelease
  <2>2. Bounded'
      BY <2>1 DEF Metered, Bounded
  <2> QED BY <2>1, <2>2, MeteredStays DEF IsAlive
<1>3. CASE Restart(w)
  <2>1. /\ UNCHANGED <<permits, pipe, lost>> /\ ~IsAlive(w)
        /\ put'[w] = 0 /\ fed'[w] = 0 /\ pc'[w] = "work"
        /\ \A v \in Workers : v # w => put'[v] = put[v] /\ fed'[v] = fed[v] /\ pc'[v] = pc[v]
      BY <1>0, <1>3 DEF Restart
  <2>2. Bounded'
      BY <2>1, BoundAssumption DEF Metered, Bounded
  <2>3. ASSUME NEW v \in Workers, NEW n
        PROVE  (IsAlive(v)' /\ n \in (fed'[v] + 1)..put'[v])
                   <=> (IsAlive(v) /\ n \in (fed[v] + 1)..put[v])
    <3>1. CASE v = w
        BY <2>1, <3>1
    <3>2. CASE v # w
        BY <2>1, <3>2 DEF IsAlive
    <3> QED BY <3>1, <3>2
  <2> QED BY <2>1, <2>2, <2>3, MeteredStays
<1> QED BY <1>1, <1>2, <1>3

\* A permit goes into the buffer with its activity ...
LEMMA PutMetered ==
    ASSUME IInv, IInv', Metered, NEW w \in Workers, Put(w)
    PROVE  Metered'
<1>1. /\ UNCHANGED <<fed, pipe, lost>>
      /\ pc[w] = "put" /\ permits' = permits - 1 /\ permits \in Nat /\ lost \in Nat
      /\ put[w] \in Nat /\ fed[w] \in Nat /\ fed[w] <= put[w]
      /\ put'[w] = put[w] + 1 /\ pc'[w] = "work"
      /\ \A v \in Workers : v # w => put'[v] = put[v] /\ pc'[v] = pc[v]
    BY DEF Put, IInv, TypeOK, Streams, StreamOf
<1>2. Bounded'
  <2>1. put[w] < MaxPuts /\ MaxPuts \in Nat
      BY <1>1, BoundAssumption DEF Metered, Bounded
  <2> QED BY <1>1, <2>1 DEF Metered, Bounded
<1> DEFINE new == <<w, put[w] + 1>>
<1>3. ASSUME NEW v \in Workers, NEW n
      PROVE  <<v, n>> \in Buffered' <=> <<v, n>> \in Buffered \cup {new}
  <2>1. <<v, n>> \in Buffered' <=> IsAlive(v)' /\ n \in (fed'[v] + 1)..put'[v]
      BY <1>2, BuffersAfter
  <2>2. <<v, n>> \in Buffered <=> IsAlive(v) /\ n \in (fed[v] + 1)..put[v]
      BY BufferIsFinite DEF Metered
  <2>3. CASE v = w
      BY <1>1, <2>1, <2>2, <2>3 DEF IsAlive
  <2>4. CASE v # w
      BY <1>1, <2>1, <2>2, <2>4 DEF IsAlive
  <2> QED BY <2>3, <2>4
<1>4. Buffered' = Buffered \cup {new}
    BY <1>3, BufferedPairs
<1>5. new \notin Buffered
    BY <1>1, BufferIsFinite DEF Metered
<1>6. Cardinality(Buffered') = Cardinality(Buffered) + 1 /\ Cardinality(Buffered) \in Nat
    BY <1>4, <1>5, BufferIsFinite, FS_AddElement DEF Metered
<1> QED BY <1>1, <1>2, <1>6, MessagesInPipe DEF Metered, PermitsAreAccounted, IInv

\* ... goes with it into the pipe ...
LEMMA WriteMetered ==
    ASSUME IInv, IInv', Metered, NEW w \in Workers, FeedWrite(w)
    PROVE  Metered'
<1>1. /\ UNCHANGED <<put, pc, permits, lost>> /\ permits \in Nat /\ lost \in Nat
      /\ IsAlive(w) /\ Len(pipe') = Len(pipe) + 1 /\ Len(pipe) \in Nat
      /\ put[w] \in Nat /\ fed[w] \in Nat /\ fed[w] < put[w]
      /\ fed'[w] = fed[w] + 1
      /\ \A v \in Workers : v # w => fed'[v] = fed[v]
    BY DEF FeedWrite, IInv, TypeOK, Feeders
<1>2. Bounded'
    BY <1>1 DEF Metered, Bounded
<1> DEFINE old == <<w, fed[w] + 1>>
<1>3. ASSUME NEW v \in Workers, NEW n
      PROVE  <<v, n>> \in Buffered' <=> <<v, n>> \in Buffered \ {old}
  <2>1. <<v, n>> \in Buffered' <=> IsAlive(v)' /\ n \in (fed'[v] + 1)..put'[v]
      BY <1>2, BuffersAfter
  <2>2. <<v, n>> \in Buffered <=> IsAlive(v) /\ n \in (fed[v] + 1)..put[v]
      BY BufferIsFinite DEF Metered
  <2>3. CASE v = w
      BY <1>1, <2>1, <2>2, <2>3 DEF IsAlive
  <2>4. CASE v # w
      BY <1>1, <2>1, <2>2, <2>4 DEF IsAlive
  <2> QED BY <2>3, <2>4
<1>4. Buffered' = Buffered \ {old}
    BY <1>3, BufferedPairs
<1>5. old \in Buffered
    BY <1>1, BufferIsFinite DEF Metered
<1>6. Cardinality(Buffered') = Cardinality(Buffered) - 1 /\ Cardinality(Buffered) \in Nat
    BY <1>4, <1>5, BufferIsFinite, FS_RemoveElement DEF Metered
<1> QED BY <1>1, <1>2, <1>6 DEF Metered, PermitsAreAccounted

\* ... or is lost with it when the process is killed ...
LEMMA KillMetered ==
    ASSUME IInv, IInv', Metered, NEW w \in Workers, Kill(w)
    PROVE  Metered'
<1>1. /\ UNCHANGED <<put, fed, permits, pipe>> /\ permits \in Nat /\ lost \in Nat
      /\ Len(pipe) \in Nat /\ IsAlive(w) /\ pc'[w] = "killed"
      /\ put[w] \in Nat /\ fed[w] \in Nat /\ fed[w] <= put[w]
      /\ lost' = lost + (put[w] - fed[w])
      /\ \A v \in Workers : v # w => pc'[v] = pc[v]
    BY DEF Kill, IInv, TypeOK, Streams, StreamOf
<1>2. Bounded'
    BY <1>1 DEF Metered, Bounded
<1>3. ASSUME NEW v \in Workers, NEW n
      PROVE  <<v, n>> \in Buffered' <=> <<v, n>> \in Buffered \ InBuffer(w)
  <2>1. <<v, n>> \in Buffered' <=> IsAlive(v)' /\ n \in (fed'[v] + 1)..put'[v]
      BY <1>2, BuffersAfter
  <2>2. <<v, n>> \in Buffered <=> IsAlive(v) /\ n \in (fed[v] + 1)..put[v]
      BY BufferIsFinite DEF Metered
  <2>3. CASE v = w
      BY <1>1, <2>1, <2>2, <2>3 DEF IsAlive, InBuffer
  <2>4. CASE v # w
      BY <1>1, <2>1, <2>2, <2>4 DEF IsAlive, InBuffer
  <2> QED BY <2>3, <2>4
<1>4. Buffered' = Buffered \ InBuffer(w)
    BY <1>3, BufferedPairs
<1>5. InBuffer(w) \subseteq Buffered
    BY <1>1, BufferIsFinite DEF Metered, InBuffer
<1>6. Cardinality(InBuffer(w)) = put[w] - fed[w]
    BY <1>1, BufferCount DEF InBuffer
<1>7. /\ Cardinality(Buffered') = Cardinality(Buffered) - (put[w] - fed[w])
      /\ Cardinality(Buffered) \in Nat
  <2>1. Buffered \cap InBuffer(w) = InBuffer(w)
      BY <1>5
  <2>2. IsFiniteSet(Buffered) /\ Cardinality(Buffered) \in Nat
      BY BufferIsFinite DEF Metered
  <2>3. Cardinality(Buffered \ InBuffer(w)) =
            Cardinality(Buffered) - Cardinality(Buffered \cap InBuffer(w))
      BY <2>2, FS_Difference
  <2> QED BY <1>4, <1>6, <2>1, <2>2, <2>3
<1> QED BY <1>1, <1>2, <1>7 DEF Metered, PermitsAreAccounted

\* ... and is back once the supervisor takes the activity from the pipe.
LEMMA DrainMetered ==
    ASSUME IInv, Metered, DrainOne
    PROVE  Metered'
<1>1. /\ UNCHANGED <<put, fed, pc, lost>> /\ permits' = permits + 1 /\ permits \in Nat
      /\ Len(pipe) \in Nat /\ Len(pipe') = Len(pipe) - 1
    BY DEF DrainOne, processes, IInv, TypeOK
<1>2. Bounded'
    BY <1>1 DEF Metered, Bounded
<1>3. Buffered' = Buffered
    BY <1>1 DEF Buffered, IsAlive
<1>4. Cardinality(Buffered) \in Nat /\ lost \in Nat
    BY BufferIsFinite DEF Metered, IInv, TypeOK
<1> QED BY <1>1, <1>2, <1>3, <1>4 DEF Metered, PermitsAreAccounted

\* Neither a stop nor the supervisor's end touches a permit.
LEMMA StopMetered ==
    ASSUME Metered, UNCHANGED vars \/ Terminated \/ StopExecutors \/ Leave PROVE Metered'
<1>1. UNCHANGED <<pc, put, fed, permits, pipe, lost>>
    BY DEF Terminated, StopExecutors, Leave, vars, processes
<1> QED BY <1>1 DEF Metered, Bounded, PermitsAreAccounted, Buffered, IsAlive

LEMMA InitMetered == Init => Metered
<1> SUFFICES ASSUME Init PROVE Metered
    OBVIOUS
<1>1. Bounded
    BY BoundAssumption DEF Init, Bounded
<1>2. Buffered = {}
    BY DEF Init, Buffered
<1>3. Cardinality(Buffered) = 0
    BY <1>2, FS_EmptySet
<1> QED BY <1>1, <1>3, QueueAssumption DEF Init, Metered, PermitsAreAccounted

LEMMA NextMetered == ASSUME IInv, Metered, [Next]_vars PROVE Metered'
<1>0. IInv'
    BY NextIInv
<1> QED BY <1>0, StopMetered, StillMetered, PutMetered, WriteMetered, KillMetered, DrainMetered
        DEF Next

\* For every number of workers, kills and restarts: no permit of the queue's semaphore
\* is made or mislaid; the capacity shrinks by exactly what killed processes had put
\* and not yet fed.
THEOREM PermitsStayAccounted == Spec => []PermitsAreAccounted
<1>1. Metered => PermitsAreAccounted
    BY DEF Metered
<1> QED BY <1>1, InitMetered, NextMetered, IInvHolds, PTL DEF Spec
=============================================================================
