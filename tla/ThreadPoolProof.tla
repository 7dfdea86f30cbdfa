---------------------------- MODULE ThreadPoolProof ----------------------------
(***************************************************************************)
(* Proofs about the pool and the queue it is built on.  About a queue with *)
(* any number of calling and consuming threads: type correctness, in-order *)
(* hand-over, the absence of lost wake-ups, and that every step is a step  *)
(* of the closable channel.  About the pool with any number of workers and *)
(* tasks, however many of them never return: every accepted task is in one *)
(* place, and the destructor returns only when all have run to their end.  *)
(***************************************************************************)
EXTENDS ThreadPool, SequenceLemmas

------------------------------------------------------------------------------
(* The queue *)

\* Cardinalities of sets of threads are natural numbers.
LEMMA ThreadSetsFinite ==
  ASSUME NEW S, IsFiniteSet(S), NEW T \in SUBSET S
  PROVE  IsFiniteSet(T) /\ Cardinality(T) \in Nat
  BY FS_Subset, FS_CardinalityType

\* Type correctness: no operation of the queue puts its state, or the place of a
\* thread in enqueue(), stop() or pop(), outside its type.
THEOREM QueueTypeOK == SafeSpec => []TypeOK
<1>1. Init => TypeOK
  <2>1. <<>> \in Seq(Items)
    OBVIOUS
  <2> QED
    BY <2>1, Zenon DEF Init, TypeOK, CallerState, PopperState
<1>2. TypeOK /\ [Next]_queueVars => TypeOK'
  <2> SUFFICES ASSUME TypeOK, [Next]_queueVars PROVE TypeOK'
    OBVIOUS
  <2> USE DEF TypeOK, CallerState, PopperState
  <2>1. ASSUME NEW t \in Callers, CallerStep(t) PROVE TypeOK'
    <3>1. ASSUME NEW v \in Items, Enqueue(t, v) PROVE TypeOK'
      BY <3>1 DEF Enqueue
    <3>2. CASE EnqueueThrows(t)
      BY <3>2 DEF EnqueueThrows
    <3>3. CASE NotifyOne(t)
      BY <3>3 DEF NotifyOne, Wake, Sleeping
    <3>4. CASE Stop(t)
      BY <3>4 DEF Stop
    <3>5. CASE NotifyAll(t)
      BY <3>5 DEF NotifyAll, Wake, Sleeping
    <3> QED
      BY <2>1, <3>1, <3>2, <3>3, <3>4, <3>5 DEF CallerStep, Notify
  <2>2. ASSUME NEW c \in Consumers, ConsumerStep(c) PROVE TypeOK'
    <3>1. CASE PopTake(c)
      <4>1. Head(queue_) \in Items /\ Tail(queue_) \in Seq(Items)
        BY <3>1, HeadTailProperties DEF PopTake
      <4> QED
        BY <3>1, <4>1 DEF PopTake
    <3>2. CASE CallPop(c) \/ PopNull(c) \/ PopSleep(c) \/ SpuriousWake(c)
      BY <3>2 DEF CallPop, PopNull, PopSleep, SpuriousWake, Wake
    <3> QED
      BY <2>2, <3>1, <3>2 DEF ConsumerStep, Pop
  <2>3. CASE UNCHANGED queueVars
    BY <2>3 DEF queueVars
  <2> QED
    BY <2>1, <2>2, <2>3 DEF Next
<1> QED
  BY <1>1, <1>2, PTL DEF SafeSpec

\* The hand-over is in order and complete: what enqueue() accepted is what
\* pop() has returned followed by what is stored.
THEOREM QueueHandsOverInOrder == SafeSpec => []HandedOverInOrder
<1>1. Init => HandedOverInOrder
  BY DEF Init, HandedOverInOrder
<1>2. TypeOK /\ HandedOverInOrder /\ [Next]_queueVars => HandedOverInOrder'
  <2> SUFFICES ASSUME TypeOK, HandedOverInOrder, [Next]_queueVars PROVE HandedOverInOrder'
    OBVIOUS
  <2> USE DEF TypeOK, HandedOverInOrder
  <2>1. ASSUME NEW t \in Callers, NEW v \in Items, Enqueue(t, v) PROVE HandedOverInOrder'
    <3>1. Append(taken \o queue_, v) = (taken \o queue_) \o <<v>>
      BY AppendIsConcat, ConcatProperties
    <3>2. (taken \o queue_) \o <<v>> = taken \o (queue_ \o <<v>>)
      BY ConcatAssociative
    <3>3. queue_ \o <<v>> = Append(queue_, v)
      BY AppendIsConcat
    <3> QED
      BY <2>1, <3>1, <3>2, <3>3 DEF Enqueue
  <2>2. ASSUME NEW c \in Consumers, PopTake(c) PROVE HandedOverInOrder'
    <3>1. queue_ = <<Head(queue_)>> \o Tail(queue_) /\ Tail(queue_) \in Seq(Items) /\ Head(queue_) \in Items
      BY <2>2, HeadTailProperties DEF PopTake
    <3>2. taken \o queue_ = Append(taken, Head(queue_)) \o Tail(queue_)
      BY <3>1, AppendIsConcat, ConcatAssociative
    <3> QED
      BY <2>2, <3>2 DEF PopTake
  <2>3. ASSUME UNCHANGED <<queue_, accepted, taken>> PROVE HandedOverInOrder'
    BY <2>3
  <2> QED
    BY <2>1, <2>2, <2>3 DEF Next, CallerStep, ConsumerStep, EnqueueThrows, Stop, Notify, NotifyOne,
       NotifyAll, CallPop, Pop, PopNull, PopSleep, SpuriousWake, queueVars
<1> QED
  BY <1>1, <1>2, QueueTypeOK, PTL DEF SafeSpec

\* The two counts NoLostWakeup compares are natural numbers.
LEMMA CountsAreNatural ==
  ASSUME TypeOK
  PROVE  /\ IsFiniteSet(Calling("notify_one")) /\ Cardinality(Calling("notify_one")) \in Nat
         /\ IsFiniteSet(Popping) /\ Cardinality(Popping) \in Nat
  BY ThreadSetsFinite, QueueAssumption DEF Calling, Popping

\* No wake-up is lost: the pending notifications and the consumers about to test
\* the predicate always cover the stored values.
THEOREM QueueLosesNoWakeup == SafeSpec => []NoLostWakeup
<1>1. Init => NoLostWakeup
  BY DEF Init, NoLostWakeup, Sleeping
<1>2. TypeOK /\ TypeOK' /\ NoLostWakeup /\ [Next]_queueVars => NoLostWakeup'
  <2> SUFFICES ASSUME TypeOK, TypeOK', NoLostWakeup, [Next]_queueVars, Sleeping' # {}
               PROVE  Len(queue_') <= Cardinality(Calling("notify_one")') + Cardinality(Popping')
    BY DEF NoLostWakeup
  <2> DEFINE N == Calling("notify_one")
             P == Popping
             Covered == Len(queue_) <= Cardinality(N) + Cardinality(P)
  <2>0. /\ IsFiniteSet(N) /\ Cardinality(N) \in Nat /\ IsFiniteSet(P) /\ Cardinality(P) \in Nat
        /\ IsFiniteSet(N') /\ Cardinality(N') \in Nat /\ IsFiniteSet(P') /\ Cardinality(P') \in Nat
        /\ Len(queue_) \in Nat
    <3>1. /\ IsFiniteSet(N) /\ Cardinality(N) \in Nat /\ IsFiniteSet(P) /\ Cardinality(P) \in Nat
      BY CountsAreNatural
    <3>2. N' \in SUBSET Callers /\ P' \in SUBSET Consumers
      BY DEF Calling, Popping
    <3>3. IsFiniteSet(N') /\ Cardinality(N') \in Nat /\ IsFiniteSet(P') /\ Cardinality(P') \in Nat
      BY <3>2, ThreadSetsFinite, QueueAssumption
    <3>4. Len(queue_) \in Nat
      BY LenProperties DEF TypeOK
    <3> QED
      BY <3>1, <3>3, <3>4
  <2>1. ASSUME NEW t \in Callers, NEW v \in Items, Enqueue(t, v) PROVE Covered'
    <3>1. N' = N \cup {t} /\ t \notin N
      BY <2>1 DEF Enqueue, Calling, TypeOK
    <3>2. P' = P /\ Sleeping # {}
      BY <2>1 DEF Enqueue, Popping, Sleeping
    <3>3. Cardinality(N') = Cardinality(N) + 1
      BY <3>1, <2>0, FS_AddElement
    <3>4. Len(queue_') = Len(queue_) + 1
      BY <2>1, AppendProperties DEF Enqueue, TypeOK
    <3>5. Covered
      BY <3>2 DEF NoLostWakeup
    <3> QED
      BY <3>2, <3>3, <3>4, <3>5, <2>0
  <2>2. ASSUME NEW t \in Callers, NEW c \in Sleeping, NotifyOne(t), Wake({c})
        PROVE  Covered'
    <3>1. N' = N \ {t} /\ t \in N
      BY <2>2 DEF NotifyOne, Calling, TypeOK
    <3>2. P' = P \cup {c} /\ c \notin P
      BY <2>2 DEF Wake, Popping, Sleeping, TypeOK
    <3>3. Cardinality(N') = Cardinality(N) - 1 /\ Cardinality(P') = Cardinality(P) + 1
      BY <3>1, <3>2, <2>0, FS_AddElement, FS_RemoveElement
    <3>4. Covered
      BY <2>2 DEF NoLostWakeup
    <3>5. queue_' = queue_
      BY <2>2 DEF NotifyOne
    <3> QED
      BY <3>3, <3>4, <3>5, <2>0
  <2>3. ASSUME NEW t \in Callers, NotifyOne(t), Sleeping = {}, UNCHANGED popper PROVE FALSE
    BY <2>3 DEF Sleeping
  <2>4. ASSUME NEW c \in Consumers, PopTake(c) PROVE Covered'
    <3>1. P' = P \ {c} /\ c \in P /\ N' = N /\ Sleeping # {}
      BY <2>4 DEF PopTake, Popping, Sleeping, Calling, TypeOK
    <3>2. Cardinality(P') = Cardinality(P) - 1
      BY <3>1, <2>0, FS_RemoveElement
    <3>3. Len(queue_') = Len(queue_) - 1
      BY <2>4, HeadTailProperties DEF PopTake, TypeOK
    <3>4. Covered
      BY <3>1 DEF NoLostWakeup
    <3> QED
      BY <3>1, <3>2, <3>3, <3>4, <2>0
  <2>5. ASSUME NEW c \in Consumers, PopSleep(c) \/ PopNull(c) PROVE Covered'
    <3>1. Len(queue_') = 0
      BY <2>5 DEF PopSleep, PopNull
    <3> QED
      BY <3>1, <2>0
  <2>6. ASSUME NEW c \in Consumers, CallPop(c) \/ SpuriousWake(c) PROVE Covered'
    <3>1. P' = P \cup {c} /\ N' = N /\ Sleeping # {} /\ queue_' = queue_
      BY <2>6 DEF CallPop, SpuriousWake, Wake, Popping, Sleeping, Calling, TypeOK
    <3>2. Cardinality(P') >= Cardinality(P)
      BY <3>1, <2>0, FS_AddElement
    <3>3. Covered
      BY <3>1 DEF NoLostWakeup
    <3> QED
      BY <3>1, <3>2, <3>3, <2>0
  <2>7. ASSUME NEW t \in Callers, NotifyAll(t) PROVE FALSE
    BY <2>7 DEF NotifyAll, Wake, Sleeping
  <2>8. ASSUME NEW t \in Callers, EnqueueThrows(t) \/ Stop(t) PROVE Covered'
    <3>1. N' = N /\ P' = P /\ Sleeping # {} /\ queue_' = queue_
      BY <2>8 DEF EnqueueThrows, Stop, Calling, Popping, Sleeping, TypeOK
    <3> QED
      BY <3>1 DEF NoLostWakeup
  <2>9. CASE UNCHANGED queueVars
    <3>1. N' = N /\ P' = P /\ Sleeping # {} /\ queue_' = queue_
      BY <2>9 DEF queueVars, Calling, Popping, Sleeping
    <3> QED
      BY <3>1 DEF NoLostWakeup
  <2> QED
    BY <2>1, <2>2, <2>3, <2>4, <2>5, <2>6, <2>7, <2>8, <2>9
       DEF Next, CallerStep, ConsumerStep, Notify, NotifyOne, Pop
<1> QED
  BY <1>1, <1>2, QueueTypeOK, PTL DEF SafeSpec

\* stop() cannot race past a consumer: one that is asleep on a stopped queue is
\* still to be reached by a notify_all().
THEOREM QueueStopWakesSleepers == SafeSpec => []StopWakesSleepers
<1>1. Init => StopWakesSleepers
  BY DEF Init, StopWakesSleepers
<1>2. TypeOK /\ StopWakesSleepers /\ [Next]_queueVars => StopWakesSleepers'
  <2> SUFFICES ASSUME TypeOK, StopWakesSleepers, [Next]_queueVars, stop_', Sleeping' # {}
               PROVE  Calling("notify_all")' # {}
    BY DEF StopWakesSleepers
  <2>1. ASSUME NEW t \in Callers, Stop(t) PROVE Calling("notify_all")' # {}
    <3>1. t \in Calling("notify_all")'
      BY <2>1 DEF Stop, Calling, TypeOK
    <3> QED
      BY <3>1
  <2>2. ASSUME NEW t \in Callers, NotifyAll(t) PROVE FALSE
    BY <2>2 DEF NotifyAll, Wake, Sleeping
  <2>3. ASSUME NEW c \in Consumers, PopSleep(c) PROVE FALSE
    BY <2>3 DEF PopSleep
  <2>4. ASSUME NEW t \in Callers, (\E v \in Items : Enqueue(t, v)) \/ EnqueueThrows(t) \/ NotifyOne(t)
        PROVE  Calling("notify_all")' # {}
    <3>1. stop_' = stop_ /\ Sleeping' \subseteq Sleeping
      BY <2>4 DEF Enqueue, EnqueueThrows, NotifyOne, Wake, Sleeping
    <3>2. Calling("notify_all") # {}
      BY <3>1 DEF StopWakesSleepers
    <3>3. Calling("notify_all") \subseteq Calling("notify_all")'
      BY <2>4 DEF Enqueue, EnqueueThrows, NotifyOne, Calling, TypeOK
    <3> QED
      BY <3>2, <3>3
  <2>5. ASSUME NEW c \in Consumers, CallPop(c) \/ PopTake(c) \/ PopNull(c) \/ SpuriousWake(c)
        PROVE  Calling("notify_all")' # {}
    <3>1. stop_' = stop_
      BY <2>5 DEF CallPop, PopTake, PopNull, SpuriousWake
    <3>2. Sleeping' \subseteq Sleeping
      BY <2>5 DEF CallPop, PopTake, PopNull, SpuriousWake, Wake, Sleeping, TypeOK
    <3>3. Calling("notify_all")' = Calling("notify_all")
      BY <2>5 DEF CallPop, PopTake, PopNull, SpuriousWake, Wake, Calling
    <3> QED
      BY <3>1, <3>2, <3>3 DEF StopWakesSleepers
  <2>6. CASE UNCHANGED queueVars
    BY <2>6 DEF queueVars, StopWakesSleepers, Sleeping, Calling
  <2> QED
    BY <2>1, <2>2, <2>3, <2>4, <2>5, <2>6 DEF Next, CallerStep, ConsumerStep, Notify, Pop
<1> QED
  BY <1>1, <1>2, QueueTypeOK, PTL DEF SafeSpec

\* A null result of pop() is final: the queue is stopped, drained, and stays so.
THEOREM QueueNullMeansDrained == SafeSpec => []NullMeansDrained
<1>1. Init => NullMeansDrained
  BY DEF Init, NullMeansDrained
<1>2. TypeOK /\ NullMeansDrained /\ [Next]_queueVars => NullMeansDrained'
  <2> SUFFICES ASSUME TypeOK, NullMeansDrained, [Next]_queueVars
               PROVE  NullMeansDrained'
    OBVIOUS
  <2> USE DEF TypeOK, NullMeansDrained
  <2>1. ASSUME NEW t \in Callers, CallerStep(t) PROVE NullMeansDrained'
    <3>1. ASSUME NEW v \in Items, Enqueue(t, v) PROVE NullMeansDrained'
      BY <3>1 DEF Enqueue
    <3>2. CASE EnqueueThrows(t) \/ Stop(t)
      BY <3>2 DEF EnqueueThrows, Stop
    <3>3. CASE NotifyOne(t)
      BY <3>3 DEF NotifyOne, Wake, Sleeping
    <3>4. CASE NotifyAll(t)
      BY <3>4 DEF NotifyAll, Wake, Sleeping
    <3> QED
      BY <2>1, <3>1, <3>2, <3>3, <3>4 DEF CallerStep, Notify
  <2>2. ASSUME NEW c \in Consumers, ConsumerStep(c) PROVE NullMeansDrained'
    <3>1. CASE PopTake(c)
      BY <3>1 DEF PopTake
    <3>2. CASE PopNull(c)
      BY <3>2 DEF PopNull
    <3>3. CASE CallPop(c) \/ PopSleep(c) \/ SpuriousWake(c)
      BY <3>3 DEF CallPop, PopSleep, SpuriousWake, Wake
    <3> QED
      BY <2>2, <3>1, <3>2, <3>3 DEF ConsumerStep, Pop
  <2>3. CASE UNCHANGED queueVars
    BY <2>3 DEF queueVars
  <2> QED
    BY <2>1, <2>2, <2>3 DEF Next
<1> QED
  BY <1>1, <1>2, QueueTypeOK, PTL DEF SafeSpec

\* Every step of the queue is a step of the closable channel or leaves the
\* channel's view of it unchanged.
THEOREM QueueImplementsChannel == SafeSpec => Channel!SafeSpec
<1>1. Init => Channel!Init
  BY DEF Init, Channel!Init
<1>2. TypeOK /\ HandedOverInOrder /\ [Next]_queueVars => [Channel!Next]_Channel!vars
  <2> SUFFICES ASSUME TypeOK, HandedOverInOrder, [Next]_queueVars
               PROVE  [Channel!Next]_Channel!vars
    OBVIOUS
  <2>1. ASSUME NEW t \in Callers, NEW v \in Items, Enqueue(t, v) PROVE Channel!Send(v)
    <3>1. Len(accepted) = Len(taken) + Len(queue_)
      BY ConcatProperties DEF TypeOK, HandedOverInOrder
    <3> QED
      BY <2>1, <3>1 DEF Enqueue, Channel!Send
  <2>2. ASSUME NEW c \in Consumers, PopTake(c) PROVE Channel!Receive
    BY <2>2 DEF PopTake, Channel!Receive
  <2>3. ASSUME NEW t \in Callers, Stop(t) PROVE Channel!Close
    BY <2>3, Zenon DEF Stop, Channel!Close
  <2>4. ASSUME UNCHANGED <<queue_, stop_, taken>> PROVE UNCHANGED Channel!vars
    BY <2>4 DEF Channel!vars
  <2> QED
    BY <2>1, <2>2, <2>3, <2>4 DEF Next, CallerStep, ConsumerStep, EnqueueThrows, Notify, NotifyOne,
       NotifyAll, CallPop, Pop, PopNull, PopSleep, SpuriousWake, queueVars, Channel!Next
<1> QED
  BY <1>1, <1>2, QueueTypeOK, QueueHandsOverInOrder, PTL DEF SafeSpec, Channel!SafeSpec

------------------------------------------------------------------------------
(* The pool *)

PoolTypeOK ==
  /\ queue_ \in Seq(Tasks) /\ accepted \in Seq(Tasks) /\ stop_ \in BOOLEAN
  /\ popper \in [Workers -> {"out", "in", "asleep", "null"}]
  /\ running \in [Workers -> Tasks \cup {NoTask}]
  /\ finished \subseteq Tasks
  /\ joined \in 0 .. THREAD_COUNT

\* No task is queued twice.
QueuedOnce == \A i, j \in DOMAIN queue_ : queue_[i] = queue_[j] => i = j

\* A worker inside pop() runs nothing, and one that has left it for good, because the
\* queue was stopped, leaves nothing behind in the queue.
Idle ==
  /\ \A w \in Workers : popper[w] # "out" => running[w] = NoTask
  /\ \A w \in Workers : popper[w] = "null" => stop_ /\ queue_ = <<>>

\* The owner stops the queue before it joins the workers, each once it has left pop().
Joining ==
  /\ phase \in {"constructing", "serving"} => ~stop_ /\ joined = 0
  /\ \A w \in Workers : w <= joined => popper[w] = "null"
  /\ phase = "destroyed" => joined = THREAD_COUNT
  /\ phase = "joining" => joined < THREAD_COUNT

Ordered == PoolTypeOK /\ QueuedOnce /\ Idle /\ Joining /\ TaskHasOnePlace

------------------------------------------------------------------------------
\* What a queue holds after a push and after a pop.
LEMMA PushAdds ==
  ASSUME NEW S, NEW s \in Seq(S), NEW e \in S
  PROVE  {Append(s, e)[i] : i \in DOMAIN Append(s, e)} = {s[i] : i \in DOMAIN s} \cup {e}
<1> DEFINE u == Append(s, e)
<1>1. \A i \in DOMAIN s : i \in DOMAIN u /\ u[i] = s[i]
  BY AppendElements
<1>2. Len(s) + 1 \in DOMAIN u /\ u[Len(s) + 1] = e
  BY AppendElements, LenProperties
<1>3. \A i \in DOMAIN u : (i \in DOMAIN s /\ u[i] = s[i]) \/ u[i] = e
  BY AppendElements, <1>1
<1> QED
  BY <1>1, <1>2, <1>3

\* Taking the head leaves the other elements, still without repetition.
LEMMA PopRemoves ==
  ASSUME NEW S, NEW s \in Seq(S), s # <<>>, \A i, j \in DOMAIN s : s[i] = s[j] => i = j
  PROVE  /\ Head(s) \in {s[i] : i \in DOMAIN s}
         /\ {Tail(s)[i] : i \in DOMAIN Tail(s)} = {s[i] : i \in DOMAIN s} \ {Head(s)}
         /\ \A i, j \in DOMAIN Tail(s) : Tail(s)[i] = Tail(s)[j] => i = j
<1>1. /\ 1 \in DOMAIN s /\ s[1] = Head(s) /\ DOMAIN s = 1 .. Len(s) /\ Len(s) \in Nat \ {0}
      /\ DOMAIN Tail(s) = 1 .. Len(s) - 1
      /\ \A i \in DOMAIN Tail(s) : i + 1 \in DOMAIN s /\ Tail(s)[i] = s[i + 1]
  BY TailElements
<1>2. \A i \in DOMAIN s : i # 1 => i - 1 \in DOMAIN Tail(s) /\ Tail(s)[i - 1] = s[i] /\ s[i] # Head(s)
  BY <1>1
<1>3. \A i \in DOMAIN Tail(s) : Tail(s)[i] # Head(s)
  BY <1>1
<1>4. \A i \in DOMAIN Tail(s) : i + 1 \in DOMAIN s /\ s[i + 1] = Tail(s)[i]
  BY <1>1
<1>5. {Tail(s)[i] : i \in DOMAIN Tail(s)} \subseteq {s[i] : i \in DOMAIN s} \ {Head(s)}
  BY <1>3, <1>4
<1>6. {s[i] : i \in DOMAIN s} \ {Head(s)} \subseteq {Tail(s)[i] : i \in DOMAIN Tail(s)}
  <2> SUFFICES ASSUME NEW i \in DOMAIN s, s[i] # Head(s)
               PROVE  s[i] \in {Tail(s)[k] : k \in DOMAIN Tail(s)}
    OBVIOUS
  <2>1. i - 1 \in DOMAIN Tail(s) /\ Tail(s)[i - 1] = s[i]
    BY <1>1, <1>2
  <2> QED
    BY <2>1
<1>7. \A i, j \in DOMAIN Tail(s) : Tail(s)[i] = Tail(s)[j] => i = j
  <2> SUFFICES ASSUME NEW i \in DOMAIN Tail(s), NEW j \in DOMAIN Tail(s), Tail(s)[i] = Tail(s)[j]
               PROVE  i = j
    OBVIOUS
  <2>1. i + 1 = j + 1
    BY <1>4
  <2> QED
    BY <1>1, <2>1
<1>8. Head(s) \in {s[i] : i \in DOMAIN s}
  BY <1>1
<1> QED
  BY <1>5, <1>6, <1>7, <1>8

\* Steps that touch neither the tasks nor the joining keep the order.
TasksStay ==
  /\ UNCHANGED <<queue_, accepted, stop_, running, finished, joined>>
  /\ UNCHANGED phase \/ (phase' = "serving" /\ phase = "constructing")
PoppersMove ==
  /\ popper' \in [Workers -> {"out", "in", "asleep", "null"}]
  /\ \A w \in Workers :
       /\ popper[w] = "null" => popper'[w] = "null"
       /\ popper'[w] = "null" => popper[w] = "null" \/ (stop_ /\ queue_ = <<>>)
       /\ popper'[w] # "out" => popper[w] # "out" \/ running[w] = NoTask

\* Such steps preserve the invariant.
LEMMA OthersKeepOrder ==
  ASSUME Ordered, TasksStay, PoppersMove
  PROVE  Ordered'
<1>1. PoolTypeOK' /\ QueuedOnce' /\ Idle' /\ Joining'
  BY DEF Ordered, PoolTypeOK, QueuedOnce, Idle, Joining, TasksStay, PoppersMove
<1>2. TaskHasOnePlace'
  BY DEF Ordered, TaskHasOnePlace, Accepted, Queued, Running, TasksStay
<1> QED
  BY <1>1, <1>2 DEF Ordered

\* The pool has its types, queues a task once and joins workers in order, always.
LEMMA PoolIsOrdered == PoolSafeSpec => []Ordered
<1>1. PoolInit => Ordered
  <2> SUFFICES ASSUME PoolInit PROVE Ordered
    OBVIOUS
  <2>1. /\ queue_ = <<>> /\ accepted = <<>> /\ stop_ = FALSE /\ popper = [w \in Workers |-> "out"]
        /\ running = [w \in Workers |-> NoTask] /\ finished = {} /\ joined = 0 /\ phase = "constructing"
    BY PoolAssumption DEF PoolInit, Init
  <2>2. PoolTypeOK /\ QueuedOnce
    <3>1. <<>> \in Seq(Tasks) /\ DOMAIN << >> = {}
      BY EmptySeq
    <3>2. 0 \in 0 .. THREAD_COUNT
      BY PoolAssumption
    <3> QED
      BY <2>1, <3>1, <3>2 DEF PoolTypeOK, QueuedOnce
  <2>3. Idle /\ Joining
    BY <2>1, PoolAssumption DEF Idle, Joining, Workers
  <2>4. TaskHasOnePlace
    <3>1. DOMAIN << >> = {}
      BY EmptySeq
    <3> QED
      BY <2>1, <3>1 DEF TaskHasOnePlace, Accepted, Queued, Running
  <2> QED
    BY <2>2, <2>3, <2>4 DEF Ordered
<1>2. Ordered /\ [PoolNext]_vars => Ordered'
  <2> SUFFICES ASSUME Ordered, [PoolNext]_vars PROVE Ordered'
    OBVIOUS
  <2>0. PoolTypeOK /\ QueuedOnce /\ Idle /\ Joining /\ TaskHasOnePlace
    BY DEF Ordered
  <2>1. CASE UNCHANGED vars \/ StartThread
    <3>1. TasksStay /\ UNCHANGED popper
      BY <2>1 DEF vars, queueVars, poolVars, StartThread, TasksStay
    <3>2. PoppersMove
      BY <2>0, <3>1 DEF PoolTypeOK, PoppersMove
    <3> QED
      BY <3>1, <3>2, OthersKeepOrder
  <2>2. CASE Shutdown
    <3>1. /\ phase = "serving" /\ phase' = "joining" /\ stop_' = TRUE
          /\ UNCHANGED <<queue_, popper, accepted, running, finished, joined>>
      BY <2>2 DEF Shutdown, Stop
    <3> QED
      <4>1. PoolTypeOK' /\ QueuedOnce'
        BY <2>0, <3>1 DEF PoolTypeOK, QueuedOnce
      <4>2. Idle' /\ Joining'
        BY <2>0, <3>1, PoolAssumption DEF Idle, Joining
      <4>3. TaskHasOnePlace'
        BY <2>0, <3>1 DEF TaskHasOnePlace, Accepted, Queued, Running
      <4> QED
        BY <4>1, <4>2, <4>3 DEF Ordered
  <2>3. CASE MainNotifies
    <3>1. TasksStay /\ (UNCHANGED popper \/ \E S \in SUBSET Sleeping : Wake(S))
      BY <2>3 DEF MainNotifies, Notify, NotifyOne, NotifyAll, poolVars, TasksStay
    <3>2. PoppersMove
      <4>1. CASE UNCHANGED popper
        BY <2>0, <4>1 DEF PoolTypeOK, PoppersMove
      <4>2. CASE \E S \in SUBSET Sleeping : Wake(S)
        BY <2>0, <4>2, PoolAssumption DEF PoolTypeOK, Sleeping, Wake, PoppersMove
      <4> QED
        BY <3>1, <4>1, <4>2
    <3> QED
      BY <3>1, <3>2, OthersKeepOrder
  <2>4. CASE JoinAll
    <3>1. /\ phase = "joining" /\ popper[joined + 1] = "null" /\ joined' = joined + 1
          /\ phase' = (IF joined' = THREAD_COUNT THEN "destroyed" ELSE "joining")
          /\ UNCHANGED <<queue_, stop_, popper, accepted, running, finished>>
      BY <2>4 DEF JoinAll, queueVars
    <3>2. joined' \in 0 .. THREAD_COUNT
      BY <2>0, <3>1, PoolAssumption DEF PoolTypeOK, Joining
    <3>3. PoolTypeOK' /\ QueuedOnce' /\ Idle'
      BY <2>0, <3>1, <3>2 DEF PoolTypeOK, QueuedOnce, Idle
    <3>4. Joining'
      BY <2>0, <3>1, <3>2, PoolAssumption DEF PoolTypeOK, Joining, Workers
    <3>5. TaskHasOnePlace'
      BY <2>0, <3>1 DEF TaskHasOnePlace, Accepted, Queued, Running
    <3> QED
      BY <3>3, <3>4, <3>5 DEF Ordered
  <2>5. ASSUME NEW task \in Tasks, EnqueueConnection(task)
        PROVE  Ordered'
    <3>1. /\ task \notin Accepted /\ phase = "serving" /\ ~stop_
          /\ queue_' = Append(queue_, task) /\ accepted' = Append(accepted, task)
          /\ UNCHANGED <<stop_, popper, running, finished, joined, phase>>
      BY <2>5 DEF EnqueueConnection, Accepted, Enqueue, poolVars
    <3>2. Queued' = Queued \cup {task} /\ Accepted' = Accepted \cup {task} /\ Running' = Running
      <4>1. queue_ \in Seq(Tasks) /\ accepted \in Seq(Tasks)
        BY <2>0 DEF PoolTypeOK
      <4>2. {Append(queue_, task)[i] : i \in DOMAIN Append(queue_, task)} = Queued \cup {task}
        BY <4>1, PushAdds DEF Queued
      <4>3. /\ \A i \in DOMAIN accepted : i \in DOMAIN accepted' /\ accepted'[i] = accepted[i]
            /\ \E i \in DOMAIN accepted' : accepted'[i] = task
            /\ \A i \in DOMAIN accepted' : i \in DOMAIN accepted \/ accepted'[i] = task
        BY <3>1, <4>1, AppendElements, LenProperties
      <4>4. Accepted' = Accepted \cup {task}
        BY <4>3 DEF Accepted
      <4> QED
        BY <3>1, <4>2, <4>4 DEF Queued, Running
    <3>3. PoolTypeOK' /\ Idle' /\ Joining'
      BY <2>0, <3>1, AppendElements DEF PoolTypeOK, Idle, Joining
    <3>4. QueuedOnce'
      <4>1. task \notin Queued
        BY <2>0, <3>1 DEF TaskHasOnePlace
      <4> QED
        BY <2>0, <3>1, <4>1, AppendElements, Elements DEF PoolTypeOK, QueuedOnce, Queued
    <3>5. TaskHasOnePlace'
      BY <2>0, <3>1, <3>2 DEF TaskHasOnePlace
    <3> QED
      BY <3>3, <3>4, <3>5 DEF Ordered
  <2>6. ASSUME NEW w \in Workers, TakeTask(w)
        PROVE  Ordered'
    <3>1. /\ popper[w] = "in" /\ queue_ # <<>> /\ queue_' = Tail(queue_)
          /\ popper' = [popper EXCEPT ![w] = "out"] /\ running' = [running EXCEPT ![w] = Head(queue_)]
          /\ UNCHANGED <<stop_, accepted, finished, joined, phase>>
      BY <2>6 DEF TakeTask, PopTake
    <3>2. Head(queue_) \in Queued /\ Queued' = Queued \ {Head(queue_)} /\ QueuedOnce'
      <4>1. queue_ \in Seq(Tasks) /\ \A i, j \in DOMAIN queue_ : queue_[i] = queue_[j] => i = j
        BY <2>0 DEF PoolTypeOK, QueuedOnce
      <4>2. /\ Head(queue_) \in Queued
            /\ {Tail(queue_)[i] : i \in DOMAIN Tail(queue_)} = Queued \ {Head(queue_)}
            /\ \A i, j \in DOMAIN Tail(queue_) : Tail(queue_)[i] = Tail(queue_)[j] => i = j
        BY <3>1, <4>1, PopRemoves DEF Queued
      <4> QED
        BY <3>1, <4>2 DEF Queued, QueuedOnce
    <3>3. running[w] = NoTask /\ Head(queue_) \in Tasks /\ Tail(queue_) \in Seq(Tasks)
      BY <2>0, <3>1, TailElements DEF PoolTypeOK, Idle
    <3>4. Running' = Running \cup {Head(queue_)}
      BY <2>0, <3>1, <3>3, PoolAssumption DEF PoolTypeOK, Running
    <3>5. PoolTypeOK' /\ Idle' /\ Joining'
      BY <2>0, <3>1, <3>3 DEF PoolTypeOK, Idle, Joining
    <3>6. TaskHasOnePlace'
      <4>1. Accepted' = Accepted /\ finished' = finished
        BY <3>1 DEF Accepted
      <4>2. \A v \in Workers : running[v] # Head(queue_)
        BY <2>0, <3>2, <3>3, PoolAssumption DEF TaskHasOnePlace, Running
      <4> QED
        BY <2>0, <3>1, <3>2, <3>3, <3>4, <4>1, <4>2 DEF TaskHasOnePlace, PoolTypeOK
    <3> QED
      BY <3>2, <3>5, <3>6 DEF Ordered
  <2>7. ASSUME NEW w \in Workers, FinishTask(w)
        PROVE  Ordered'
    <3>1. /\ running[w] \in Tasks /\ finished' = finished \cup {running[w]}
          /\ running' = [running EXCEPT ![w] = NoTask]
          /\ UNCHANGED <<queue_, stop_, popper, accepted, joined, phase>>
      BY <2>7 DEF FinishTask, queueVars
    <3>2. Running' = Running \ {running[w]} /\ running[w] \in Running
      BY <2>0, <3>1, PoolAssumption DEF PoolTypeOK, Running, TaskHasOnePlace
    <3>3. PoolTypeOK' /\ QueuedOnce' /\ Idle' /\ Joining'
      BY <2>0, <3>1 DEF PoolTypeOK, QueuedOnce, Idle, Joining
    <3>4. Accepted' = Accepted /\ Queued' = Queued
      BY <3>1 DEF Accepted, Queued
    <3>5. \A u, v \in Workers : running'[u] = running'[v] => u = v \/ running'[u] = NoTask
      BY <2>0, <3>1 DEF PoolTypeOK, TaskHasOnePlace
    <3>6. TaskHasOnePlace'
      BY <2>0, <3>1, <3>2, <3>4, <3>5 DEF TaskHasOnePlace
    <3> QED
      BY <3>3, <3>6 DEF Ordered
  <2>8. ASSUME NEW w \in Workers, AskForTask(w) \/ WaitOrExit(w)
        PROVE  Ordered'
    <3>1. TasksStay
      BY <2>8 DEF AskForTask, WaitOrExit, CallPop, PopSleep, PopNull, SpuriousWake,
         poolVars, TasksStay
    <3>2. PICK p \in {"in", "asleep", "null"} :
            /\ popper' = [popper EXCEPT ![w] = p]
            /\ popper[w] # "null"
            /\ popper[w] # "out" \/ running[w] = NoTask
            /\ p = "null" => stop_ /\ queue_ = <<>>
      BY <2>0, <2>8, PoolAssumption DEF AskForTask, WaitOrExit, CallPop, PopSleep, PopNull, SpuriousWake,
         Wake, PoolTypeOK, Idle
    <3>3. PoppersMove
      BY <2>0, <3>2 DEF PoolTypeOK, PoppersMove
    <3> QED
      BY <3>1, <3>3, OthersKeepOrder
  <2> QED
    BY <2>1, <2>2, <2>3, <2>4, <2>5, <2>6, <2>7, <2>8 DEF PoolNext, MainStep, WorkerStep
<1> QED
  BY <1>1, <1>2, PTL DEF PoolSafeSpec

------------------------------------------------------------------------------
\* The pool uses its queue as ThreadSafeQueue describes it, with its owner as the only
\* caller and its workers as consumers: every step of the pool is a step of the queue or
\* does not touch it.
THEOREM PoolUsesQueue == PoolSafeSpec => SafeSpec
<1>1. PoolInit => Init
  BY DEF PoolInit
<1>2. [PoolNext]_vars => [Next]_queueVars
  <2> SUFFICES ASSUME [PoolNext]_vars
               PROVE  Next \/ UNCHANGED queueVars
    OBVIOUS
  <2>1. CASE StartThread \/ JoinAll \/ UNCHANGED vars
    BY <2>1 DEF StartThread, JoinAll, vars, queueVars
  <2>2. CASE Shutdown \/ MainNotifies
    BY <2>2, PoolAssumption DEF Shutdown, MainNotifies, Next, CallerStep
  <2>3. ASSUME NEW task \in Tasks, EnqueueConnection(task)
        PROVE  Next
    BY <2>3, PoolAssumption DEF EnqueueConnection, Tasks, Next, CallerStep
  <2>4. ASSUME NEW w \in Workers, AskForTask(w) \/ TakeTask(w) \/ WaitOrExit(w)
        PROVE  Next
    BY <2>4, PoolAssumption DEF AskForTask, TakeTask, WaitOrExit, Next, ConsumerStep, Pop
  <2>5. ASSUME NEW w \in Workers, FinishTask(w)
        PROVE  UNCHANGED queueVars
    BY <2>5 DEF FinishTask, queueVars
  <2> QED
    BY <2>1, <2>2, <2>3, <2>4, <2>5 DEF PoolNext, MainStep, WorkerStep
<1> QED
  BY <1>1, <1>2, PTL DEF PoolSafeSpec, SafeSpec

\* Every accepted task is waiting, being run by one worker, or has returned: none is lost,
\* run twice or run by two.
THEOREM PoolRunsTasksOnce == PoolSafeSpec => []TaskHasOnePlace
<1>1. Ordered => TaskHasOnePlace
  BY DEF Ordered
<1> QED
  BY <1>1, PoolIsOrdered, PTL

\* When the destructor has returned, every task accepted before has run to its end.
THEOREM PoolDestructorWaits == PoolSafeSpec => []DestroyedMeansDone
<1>1. Ordered => DestroyedMeansDone
  <2> SUFFICES ASSUME Ordered, phase = "destroyed"
               PROVE  Accepted = finished /\ Running = {}
    BY DEF DestroyedMeansDone
  <2>1. \A w \in Workers : popper[w] = "null"
    BY PoolAssumption DEF Ordered, Joining, Workers
  <2>2. 1 \in Workers
    BY PoolAssumption DEF Workers
  <2>3. queue_ = <<>> /\ Running = {}
    BY <2>1, <2>2 DEF Ordered, Idle, Running
  <2>4. Queued = {}
    BY <2>3 DEF Queued
  <2> QED
    BY <2>3, <2>4 DEF Ordered, TaskHasOnePlace
<1> QED
  BY <1>1, PoolIsOrdered, PTL
================================================================================
