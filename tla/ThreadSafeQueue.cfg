\* Two threads enqueue and stop, three consume, up to three values.
SPECIFICATION Spec
CONSTANTS
  Items = {a, b}
  Callers = {t1, t2}
  Consumers = {c1, c2, c3}
  MaxEnqueues = 3
INVARIANTS TypeOK HandedOverInOrder NoLostWakeup NullMeansDrained
PROPERTIES StopReleasesConsumers ImplementsChannel
\* Once every consumer has its null result and every caller has thrown, nothing is left to do.
CHECK_DEADLOCK FALSE
