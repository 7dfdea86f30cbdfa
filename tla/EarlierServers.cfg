\* Any of the three servers; three clients for two workers, so that one waits in the pool's
\* queue; messages of every type.  All clients have one nickname, so that what is registered
\* for it changes hands.
SPECIFICATION Spec
CONSTANTS
  Labs = {3, 4, 5}
  Conns = {1, 2, 3}
  Fds = {4, 5, 6}
  Names = {}
  EmptyNick = nobody
  THREAD_COUNT = 2
  MaxMsgs = 2
  MaxAccepts = 3
  NoFd = NoFd
  NoConn = NoConn
INVARIANTS
  OnlyEarlyExitsStay
  QueuedOnceInOrder
PROPERTIES
  DepartedIsRemoved
\* Clients may stop, the server may end.
CHECK_DEADLOCK FALSE
