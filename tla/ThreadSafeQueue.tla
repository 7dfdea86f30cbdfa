--------------------------- MODULE ThreadSafeQueue ---------------------------
(***************************************************************************)
(* thread_pool/thread_safe_queue.hpp: the blocking queue that carries the  *)
(* pool's tasks and the messages from an ack reader to the thread that     *)
(* handles them.  A critical section under mtx_ is one action; what the    *)
(* code does after unlocking (cv_.notify_one(), cv_.notify_all()) is an    *)
(* action of its own, so other threads run between the two.                *)
(***************************************************************************)
EXTENDS Naturals, Sequences, FiniteSets

CONSTANTS Items,        \* the values stored (T)
          Callers,      \* threads that call enqueue() and stop()
          Consumers,    \* threads that call pop()
          MaxEnqueues   \* bound on the number of accepted values

ASSUME QueueAssumption ==
  /\ IsFiniteSet(Callers)
  /\ IsFiniteSet(Consumers)
  /\ MaxEnqueues \in Nat

VARIABLES
  queue_,     \* std::queue<T> queue_
  stop_,      \* bool stop_
  caller,     \* caller[t]: where t is in enqueue() or stop()
  popper,     \* popper[c]: where c is in pop()
  accepted,   \* history: values pushed, in order
  taken       \* history: values returned by pop(), in order

queueVars == <<queue_, stop_, caller, popper, accepted, taken>>

CallerState == {"idle", "notify_one", "notify_all", "threw"}
PopperState == {"out", "in", "asleep", "null"}

TypeOK ==
  /\ queue_ \in Seq(Items)
  /\ stop_ \in BOOLEAN
  /\ caller \in [Callers -> CallerState]
  /\ popper \in [Consumers -> PopperState]
  /\ accepted \in Seq(Items)
  /\ taken \in Seq(Items)

Init ==
  /\ queue_ = <<>>
  /\ stop_ = FALSE
  /\ caller = [t \in Callers |-> "idle"]
  /\ popper = [c \in Consumers |-> "out"]
  /\ accepted = <<>>
  /\ taken = <<>>

Calling(state) == {t \in Callers : caller[t] = state}
Sleeping == {c \in Consumers : popper[c] = "asleep"}
Popping == {c \in Consumers : popper[c] = "in"}

\* Variants of the operations below, each with one plausible slip.
Wake_ForgetsOthers(S) == popper' = [c \in S |-> "in"]
Enqueue_SilentPush(t, v) ==
  /\ caller[t] = "idle" /\ ~stop_ /\ Len(accepted) < MaxEnqueues
  /\ queue_' = Append(queue_, v) /\ accepted' = Append(accepted, v)
  /\ UNCHANGED <<stop_, popper, taken, caller>>
Enqueue_PushFront(t, v) ==
  /\ caller[t] = "idle" /\ ~stop_ /\ Len(accepted) < MaxEnqueues
  /\ queue_' = <<v>> \o queue_ /\ accepted' = Append(accepted, v)
  /\ caller' = [caller EXCEPT ![t] = "notify_one"]
  /\ UNCHANGED <<stop_, popper, taken>>
Enqueue_IgnoresStop(t, v) ==
  /\ caller[t] = "idle" /\ Len(accepted) < MaxEnqueues
  /\ queue_' = Append(queue_, v) /\ accepted' = Append(accepted, v)
  /\ caller' = [caller EXCEPT ![t] = "notify_one"]
  /\ UNCHANGED <<stop_, popper, taken>>
PopNull_WithoutDraining(c) ==
  /\ popper[c] = "in" /\ stop_
  /\ popper' = [popper EXCEPT ![c] = "null"]
  /\ UNCHANGED <<queue_, stop_, caller, accepted, taken>>

\* The threads of S leave the wait set and will test the predicate again.
Wake(S) == popper' = [c \in Consumers |-> IF c \in S THEN "in" ELSE popper[c]]

\* stop() calling notify_one() where it calls notify_all().
NotifyAll_WakesOne(t) ==
  /\ caller[t] = "notify_all"
  /\ caller' = [caller EXCEPT ![t] = "idle"]
  /\ (Sleeping = {} /\ UNCHANGED popper) \/ (\E c \in Sleeping : Wake({c}))
  /\ UNCHANGED <<queue_, stop_, accepted, taken>>

\* enqueue(): the push under mtx_; notify_one() is still to come.
Enqueue(t, v) ==
  /\ caller[t] = "idle"
  /\ ~stop_
  /\ Len(accepted) < MaxEnqueues
  /\ queue_' = Append(queue_, v)
  /\ accepted' = Append(accepted, v)
  /\ caller' = [caller EXCEPT ![t] = "notify_one"]
  /\ UNCHANGED <<stop_, popper, taken>>

\* enqueue() on a stopped queue throws; no caller in the repository retries.
EnqueueThrows(t) ==
  /\ caller[t] = "idle"
  /\ stop_
  /\ caller' = [caller EXCEPT ![t] = "threw"]
  /\ UNCHANGED <<queue_, stop_, popper, accepted, taken>>

\* cv_.notify_one(), with mtx_ already released.
NotifyOne(t) ==
  /\ caller[t] = "notify_one"
  /\ caller' = [caller EXCEPT ![t] = "idle"]
  /\ \/ Sleeping = {} /\ UNCHANGED popper
     \/ \E c \in Sleeping : Wake({c})
  /\ UNCHANGED <<queue_, stop_, accepted, taken>>

\* stop(): the flag is set under mtx_; notify_all() is still to come.
Stop(t) ==
  /\ caller[t] = "idle"
  /\ stop_' = TRUE
  /\ caller' = [caller EXCEPT ![t] = "notify_all"]
  /\ UNCHANGED <<queue_, popper, accepted, taken>>

\* cv_.notify_all(), with mtx_ already released.
NotifyAll(t) ==
  /\ caller[t] = "notify_all"
  /\ caller' = [caller EXCEPT ![t] = "idle"]
  /\ Wake(Sleeping)
  /\ UNCHANGED <<queue_, stop_, accepted, taken>>

\* A thread enters pop() and competes for mtx_.
CallPop(c) ==
  /\ popper[c] = "out"
  /\ popper' = [popper EXCEPT ![c] = "in"]
  /\ UNCHANGED <<queue_, stop_, caller, accepted, taken>>

\* The predicate holds because the queue is not empty.
PopTake(c) ==
  /\ popper[c] = "in"
  /\ queue_ # <<>>
  /\ taken' = Append(taken, Head(queue_))
  /\ queue_' = Tail(queue_)
  /\ popper' = [popper EXCEPT ![c] = "out"]
  /\ UNCHANGED <<stop_, caller, accepted>>

\* The predicate holds because the queue is stopped, and nothing is left:
\* std::nullopt, after which no caller of pop() calls it again.
PopNull(c) ==
  /\ popper[c] = "in"
  /\ queue_ = <<>> /\ stop_
  /\ popper' = [popper EXCEPT ![c] = "null"]
  /\ UNCHANGED <<queue_, stop_, caller, accepted, taken>>

\* The predicate is false: cv_.wait releases mtx_ and sleeps, atomically.
PopSleep(c) ==
  /\ popper[c] = "in"
  /\ queue_ = <<>> /\ ~stop_
  /\ popper' = [popper EXCEPT ![c] = "asleep"]
  /\ UNCHANGED <<queue_, stop_, caller, accepted, taken>>

\* A condition variable may wake a waiter for no reason.
SpuriousWake(c) ==
  /\ popper[c] = "asleep"
  /\ Wake({c})
  /\ UNCHANGED <<queue_, stop_, caller, accepted, taken>>

Pop(c) == PopTake(c) \/ PopNull(c) \/ PopSleep(c)
Notify(t) == NotifyOne(t) \/ NotifyAll(t)

CallerStep(t) == (\E v \in Items : Enqueue(t, v)) \/ EnqueueThrows(t) \/ Stop(t) \/ Notify(t)
ConsumerStep(c) == CallPop(c) \/ Pop(c) \/ SpuriousWake(c)

Next == (\E t \in Callers : CallerStep(t)) \/ (\E c \in Consumers : ConsumerStep(c))

SafeSpec == Init /\ [][Next]_queueVars

\* A thread inside enqueue(), stop() or pop() is scheduled, and the loops
\* around pop() (ThreadPool's workers, the sessions' handlers) call it again.
Spec ==
  /\ SafeSpec
  /\ \A t \in Callers : WF_queueVars(Notify(t))
  /\ \A c \in Consumers : WF_queueVars(CallPop(c)) /\ WF_queueVars(Pop(c))
------------------------------------------------------------------------------
\* Every value enqueue() accepted is returned by pop() exactly once, in the
\* order of acceptance, or is still stored: stop() and the null results it
\* causes drop nothing.
HandedOverInOrder == accepted = taken \o queue_

\* Because notify_one() runs after mtx_ is released, a consumer may sleep while
\* the queue holds values, but never more of them than there are wake-ups on
\* their way: a pending notify_one(), or a consumer about to test the predicate.
NoLostWakeup ==
  Sleeping # {} => Len(queue_) <= Cardinality(Calling("notify_one")) + Cardinality(Popping)

\* A consumer asleep on a stopped queue is one that notify_all() will reach.
StopWakesSleepers == stop_ /\ Sleeping # {} => Calling("notify_all") # {}

\* pop() reports the end of the queue only when nothing will ever come out of it.
NullMeansDrained == (\E c \in Consumers : popper[c] = "null") => stop_ /\ queue_ = <<>>

\* stop() ends every consumer: each leaves pop() with a null result.
StopReleasesConsumers == stop_ ~> \A c \in Consumers : popper[c] = "null"

\* The queue implements the closable channel, including that a value waiting
\* in it is eventually received.
Channel == INSTANCE FifoChannel WITH chan <- queue_, closed <- stop_, received <- taken
ImplementsChannel == Channel!Spec
=============================================================================
