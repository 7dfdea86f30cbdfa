\* Two workers, three tasks at most one of which never returns.
SPECIFICATION PoolSpec
CONSTANTS
  Items = {k1, k2, k3}
  Callers = {main}
  owner = main
  Consumers = {1, 2}
  MaxEnqueues = 3
  MaxStuck = 1
  THREAD_COUNT = 2
  NoTask = NoTask
INVARIANTS TaskHasOnePlace DestroyedMeansDone
PROPERTIES EveryTaskFinishes DestructorReturns
\* A destroyed pool stops, and a stuck task keeps its destructor waiting.
CHECK_DEADLOCK FALSE
