\* Three connections, two workers and nicknames, two messages that go through the
\* registry.  A write to a departed client succeeds or throws; one that ends the process is
\* left to ChatServerKinds.cfg, since nothing follows it that these invariants could break.
SPECIFICATION SafeSpec
CONSTANTS
  Conns = {c1, c2, c3}
  Fds = {3, 4}
  THREAD_COUNT = 2
  Names = {ann, bob}
  EmptyNick = EmptyNick
  Types = {"TEXT", "PRIVATE"}
  MaxMsgs = 2
  MaxDrops = 0
  DeadSend = {"sent", "throws"}
  ClientsAck = TRUE
  EmptyAuth = FALSE
  Malformed = FALSE
  NoFd = NoFd
  NoConn = NoConn
INVARIANTS TypeOK RegistryHoldsOpenSessions NicknamesLeadHome PrivateOnlyToAddressee AckedIsKept
\* The process may end, and every connection may be over.
SYMMETRY Symmetry
CHECK_DEADLOCK FALSE
