------------------------------ MODULE ThreadPool ------------------------------
(***************************************************************************)
(* thread_pool/thread_pool.{hpp,cpp}: THREAD_COUNT workers around one      *)
(* ThreadSafeQueue of tasks.  The module extends that of the queue: its    *)
(* values are the tasks, the thread that owns the pool is the only one of  *)
(* its callers that the pool has, and the workers are its consumers.       *)
(***************************************************************************)
EXTENDS ThreadSafeQueue

CONSTANTS owner,         \* the thread that constructs and destroys the pool
          MaxStuck,      \* bound on the tasks that never return
          THREAD_COUNT,  \* number of workers (defines.hpp: 10)
          NoTask

Tasks == Items
Workers == 1 .. THREAD_COUNT

ASSUME PoolAssumption ==
  /\ owner \in Callers
  /\ THREAD_COUNT \in Nat \ {0} /\ Consumers = Workers
  /\ MaxStuck \in Nat /\ NoTask \notin Tasks

VARIABLES started,   \* number of elements of threads_
          running,   \* running[w]: the task worker w executes
          finished,  \* history: tasks that have returned
          phase,     \* what the owner of the pool is doing
          joined,    \* number of threads already joined
          stuck      \* the tasks that never return: the handler of a client that
                     \* disconnects stays in recv(); chosen once

poolVars == <<started, running, finished, phase, joined, stuck>>
vars == <<queueVars, poolVars>>

PoolInit ==
  /\ Init
  /\ started = 0
  /\ running = [w \in Workers |-> NoTask]
  /\ finished = {}
  /\ phase = "constructing"
  /\ joined = 0
  /\ stuck \in {S \in SUBSET Tasks : Cardinality(S) <= MaxStuck}

\* Variants with one plausible slip each.
JoinAll_WithoutWaiting ==
  /\ phase = "joining" /\ caller[owner] = "idle"
  /\ joined' = THREAD_COUNT /\ phase' = "destroyed"
  /\ UNCHANGED <<queueVars, started, running, finished, stuck>>
TakeTask_Peeks(w) ==
  /\ popper[w] = "in" /\ queue_ # <<>>
  /\ running' = [running EXCEPT ![w] = Head(queue_)]
  /\ popper' = [popper EXCEPT ![w] = "out"]
  /\ UNCHANGED <<queue_, stop_, caller, accepted, taken, started, finished, phase, joined, stuck>>
Shutdown_WithoutStop ==
  /\ phase = "serving" /\ caller[owner] = "idle"
  /\ phase' = "joining"
  /\ UNCHANGED <<queueVars, started, running, finished, joined, stuck>>
TakeTask_ExitsWhenStopped(w) ==
  /\ PopTake(w)
  /\ running' = [running EXCEPT ![w] = IF stop_ THEN NoTask ELSE Head(queue_)]
  /\ UNCHANGED <<started, finished, phase, joined, stuck>>

\* The constructor starts the workers one by one; those already started run.
StartThread ==
  /\ phase = "constructing"
  /\ started' = started + 1
  /\ phase' = IF started' = THREAD_COUNT THEN "serving" ELSE "constructing"
  /\ UNCHANGED <<queueVars, running, finished, joined, stuck>>

\* enqueueConnection(): every task is a new one.
EnqueueConnection(task) ==
  /\ phase = "serving"
  /\ \A i \in DOMAIN accepted : accepted[i] # task
  /\ Enqueue(owner, task)
  /\ UNCHANGED poolVars

\* ~ThreadPool(): shutdown() stops the queue (is_running_ decides nothing),
\* then joinAll() waits for the threads in the order they were started.
Shutdown ==
  /\ phase = "serving"
  /\ Stop(owner)
  /\ phase' = "joining"
  /\ UNCHANGED <<started, running, finished, joined, stuck>>

MainNotifies == Notify(owner) /\ UNCHANGED poolVars

JoinAll ==
  /\ phase = "joining" /\ caller[owner] = "idle"
  /\ popper[joined + 1] = "null"
  /\ joined' = joined + 1
  /\ phase' = IF joined' = THREAD_COUNT THEN "destroyed" ELSE "joining"
  /\ UNCHANGED <<queueVars, started, running, finished, stuck>>

\* The body of a worker: pop() until it returns std::nullopt.
AskForTask(w) ==
  /\ w <= started /\ running[w] = NoTask
  /\ CallPop(w)
  /\ UNCHANGED poolVars

TakeTask(w) ==
  /\ PopTake(w)
  /\ running' = [running EXCEPT ![w] = Head(queue_)]
  /\ UNCHANGED <<started, finished, phase, joined, stuck>>

WaitOrExit(w) ==
  /\ PopSleep(w) \/ PopNull(w) \/ SpuriousWake(w)
  /\ UNCHANGED poolVars

FinishTask(w) ==
  /\ running[w] \in Tasks \ stuck
  /\ finished' = finished \cup {running[w]}
  /\ running' = [running EXCEPT ![w] = NoTask]
  /\ UNCHANGED <<queueVars, started, phase, joined, stuck>>

MainStep == StartThread \/ Shutdown \/ MainNotifies \/ JoinAll \/ \E task \in Tasks : EnqueueConnection(task)
WorkerStep(w) == AskForTask(w) \/ TakeTask(w) \/ WaitOrExit(w) \/ FinishTask(w)

PoolNext == MainStep \/ \E w \in Workers : WorkerStep(w)

PoolSafeSpec == PoolInit /\ [][PoolNext]_vars

\* Threads are scheduled; the owner of the pool is not obliged to enqueue or
\* to destroy it.
PoolSpec ==
  /\ PoolSafeSpec
  /\ WF_vars(StartThread) /\ WF_vars(MainNotifies) /\ WF_vars(JoinAll)
  /\ \A w \in Workers :
       /\ WF_vars(AskForTask(w))
       /\ WF_vars(TakeTask(w))
       /\ WF_vars((PopSleep(w) \/ PopNull(w)) /\ UNCHANGED poolVars)
       /\ WF_vars(FinishTask(w))
------------------------------------------------------------------------------
Queued == {queue_[i] : i \in DOMAIN queue_}
Accepted == {accepted[i] : i \in DOMAIN accepted}
Running == {running[w] : w \in Workers} \ {NoTask}

\* A connection's handler is waiting, executing on one worker, or has returned,
\* and is never executed by two workers nor executed again.
TaskHasOnePlace ==
  /\ Accepted = Queued \cup Running \cup finished
  /\ Queued \cap (Running \cup finished) = {} /\ Running \cap finished = {}
  /\ \A v, w \in Workers : running[v] = running[w] => v = w \/ running[v] = NoTask

\* The destructor returns only when every task accepted before it has run to
\* its end: shutting down never abandons an accepted connection.
DestroyedMeansDone == phase = "destroyed" => Accepted = finished /\ Running = {}

\* With fewer tasks that never return than workers, every other task is run to
\* its end: a handler that hangs costs one worker and nothing else.
EveryTaskFinishes ==
  \A task \in Tasks :
    (task \in Accepted \ stuck /\ Cardinality(stuck) < THREAD_COUNT) ~> (task \in finished)

\* The destructor returns, unless it waits for a worker whose task never does.
DestructorReturns == (phase = "joining") ~> (phase = "destroyed" \/ Running \cap stuck # {})
===============================================================================
