\* Three lines typed, up to three PINGs, one stop of the server, one text or line of another
\* kind.  Rtts holds two values, so that neighbours may differ.
SPECIFICATION Spec
CONSTANTS
  MaxSockets = 3
  MaxLines = 3
  MaxPings = 3
  MaxStops = 1
  MaxTexts = 1
  Rtts = {0, 3}
  NoRtt = NoRtt
INVARIANTS
  AbortHasACause
  
  
\* Clients and users may stop, the program or the server may end.
CHECK_DEADLOCK FALSE
