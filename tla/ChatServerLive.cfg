\* Two connections and workers; private messages, which hold the registry, and a request,
\* which holds a session until its answer is acknowledged.
SPECIFICATION Spec
CONSTANTS
  Conns = {c1, c2}
  Fds = {3, 4}
  THREAD_COUNT = 2
  Names = {ann, bob}
  EmptyNick = EmptyNick
  Types = {"PRIVATE", "LIST"}
  MaxMsgs = 2
  MaxDrops = 0
  DeadSend = {"throws"}
  ClientsAck = TRUE
  EmptyAuth = FALSE
  Malformed = FALSE
  NoFd = NoFd
  NoConn = NoConn
PROPERTIES RegistryIsReleased HandlingEnds
\* The process may end, and every connection may be over.
CHECK_DEADLOCK FALSE
