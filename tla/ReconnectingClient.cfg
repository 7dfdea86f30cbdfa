\* Any of the three clients, three stops of the server, five lines typed at the prompt or for a
\* nickname, two texts of others.  With six
\* sockets, no attempt to connect finds them all in use.
SPECIFICATION Spec
CONSTANTS
  Labs = {3, 4, 5}
  MaxSockets = 6
  MaxLines = 5
  MaxStops = 3
  MaxTexts = 2
INVARIANTS
  ReadyMeansAuthenticated
  BoundedDescriptors
PROPERTIES
  SleeperIsWoken
  LossIsRepaired
  QuitEnds
\* Clients and users may stop, the program or the server may end.
CHECK_DEADLOCK FALSE
