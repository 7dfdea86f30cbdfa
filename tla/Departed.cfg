\* A client that leaves while its handler waits for a message.
SPECIFICATION Spec
CONSTANTS
  Conns = {c1, c2}
  Fds = {3, 4}
  THREAD_COUNT = 2
  Names = {ann}
  EmptyNick = EmptyNick
  Types = {"TEXT"}
  MaxMsgs = 1
  MaxDrops = 0
  DeadSend = {"sent"}
  ClientsAck = TRUE
  EmptyAuth = FALSE
  Malformed = FALSE
  NoFd = NoFd
  NoConn = NoConn
PROPERTY DepartedIsRemoved
CHECK_DEADLOCK FALSE
