\* One message of any type, dropped or not, and clients without a nickname: all that
\* leaves the registry stale.  A write to a departed client succeeds, throws or signals.
SPECIFICATION Spec
CONSTANTS
  Conns = {c1, c2}
  Fds = {3, 4}
  THREAD_COUNT = 2
  Names = {ann, EmptyNick}
  EmptyNick = EmptyNick
  Types = {"TEXT", "PRIVATE", "PING", "LIST", "HISTORY", "ERROR", "BYE", "OTHER"}
  MaxMsgs = 1
  MaxDrops = 1
  DeadSend = {"sent", "throws", "dies"}
  ClientsAck = TRUE
  EmptyAuth = TRUE
  Malformed = TRUE
  NoFd = NoFd
  NoConn = NoConn
PROPERTY WorkerIsReturned
\* The process may end, and every connection may be over.
CHECK_DEADLOCK FALSE
