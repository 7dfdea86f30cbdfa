\* Any of the five labs, three messages of the client, two that other handlers write to it.
SPECIFICATION WireSpec
CONSTANTS
  Labs = {1, 2, 3, 4, 5}
  MaxTyped = 3
  MaxTexts = 2
  NoMsg = NoMsg
INVARIANTS
  MessagesArriveWhole
  AnswerFollowsRequest
PROPERTIES
  AnswerComes
\* Clients and users may stop, the program or the server may end.
CHECK_DEADLOCK FALSE
