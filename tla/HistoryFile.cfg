\* Two handlers that append and deliver, two readers, and two ends of the process: one may leave
\* a damaged file for the other to meet.
SPECIFICATION Spec
CONSTANTS
  Handlers = {h1, h2}
  Readers = {r1, r2}
  MaxMsgs = 5
  MaxAnswers = 2
  MaxCrashes = 2
  Nobody = Nobody
INVARIANTS
  RecordsAreKept
  AnswerIsConsecutive
  UndisturbedAnswerIsComplete
\* Clients and users may stop, the program or the server may end.
CHECK_DEADLOCK FALSE
