---------------------------- MODULE MessagingProof ----------------------------
(***************************************************************************)
(* Proofs about messages between a client and its server.                  *)
(*                                                                         *)
(* AckedDelivery (lab 6), for any number of messages, attempts and dropped *)
(* copies: type correctness, that a message reported as delivered was      *)
(* processed, that messages are processed in order, and that every step is *)
(* one of AtLeastOnce or leaves its variables alone.                       *)
(*                                                                         *)
(* Wire (labs 1 to 5), for any number of messages, however send() and      *)
(* recv() cut them: that messages arrive whole, once and in order, that an *)
(* answer is the one to the last request, and that the two sides of lab 2  *)
(* never both wait.                                                        *)
(***************************************************************************)
EXTENDS AckedDelivery, Wire, SequenceLemmas

\* The message being sent and the message being handled are real messages.
InProgress ==
  /\ client = "waiting" => kind \in Kinds /\ offered \in Ids
  /\ worker.step \in {"ack", "reply"} => worker.id \in Ids

\* An ACK anywhere on its way, from the worker about to send it to the set of
\* pending ACKs, is the ACK of a processed message.
AckedWasProcessed ==
  /\ worker.step = "ack" => worker.id \in Processed
  /\ \A i \in DOMAIN toClient : toClient[i].type = "ACK" => toClient[i].id \in Processed
  /\ pendingAcks \subseteq Processed
  /\ DeliveredWasProcessed

\* From the processed messages over the inbox and the socket to the message
\* being sent, ids never decrease.
Ordered ==
  /\ \A i, j \in DOMAIN processed : i <= j => processed[i] <= processed[j]
  /\ \A i, j \in DOMAIN inbox : i <= j => inbox[i].id <= inbox[j].id
  /\ \A i, j \in DOMAIN toServer : i <= j => toServer[i].id <= toServer[j].id
  /\ \A i \in DOMAIN processed, j \in DOMAIN inbox : processed[i] <= inbox[j].id
  /\ \A i \in DOMAIN processed, j \in DOMAIN toServer : processed[i] <= toServer[j].id
  /\ \A i \in DOMAIN inbox, j \in DOMAIN toServer : inbox[i].id <= toServer[j].id
  /\ \A i \in DOMAIN processed : processed[i] <= offered
  /\ \A i \in DOMAIN inbox : inbox[i].id <= offered
  /\ \A i \in DOMAIN toServer : toServer[i].id <= offered

\* Type correctness of both ends of the connection.
THEOREM DeliveryTypeOK == SafeSpec => [](TypeOK /\ InProgress)
<1> USE DeliveryAssumption DEF TypeOK, InProgress, Ids, Requests, Answers, clientVars, serverVars
<1>1. Init => TypeOK /\ InProgress
  BY EmptySeq DEF Init
<1>2. TypeOK /\ InProgress /\ [Next]_vars => (TypeOK /\ InProgress)'
  <2> SUFFICES ASSUME TypeOK, InProgress, [Next]_vars PROVE (TypeOK /\ InProgress)'
    OBVIOUS
  <2>1. ASSUME NEW k \in Kinds, Send(k) PROVE (TypeOK /\ InProgress)'
    <3>1. Request(k, offered') \in Requests
      BY <2>1 DEF Send, Request
    <3>2. Append(toServer, Request(k, offered')) \in Seq(Requests)
      BY <3>1, AppendElements
    <3> QED
      BY <2>1, <3>2 DEF Send
  <2>2. CASE AckArrives
    BY <2>2 DEF AckArrives
  <2>3. CASE Resend
    <3>1. Request(kind, offered) \in Requests
      BY <2>3 DEF Resend, Request
    <3>2. Append(toServer, Request(kind, offered)) \in Seq(Requests)
      BY <3>1, AppendElements
    <3> QED
      BY <2>3, <3>2 DEF Resend
  <2>4. CASE GiveUp
    BY <2>4 DEF GiveUp
  <2>5. CASE ClientReads
    <3>1. Head(toClient) \in Answers /\ Tail(toClient) \in Seq(Answers)
      BY <2>5, TailElements DEF ClientReads
    <3> QED
      BY <2>5, <3>1 DEF ClientReads
  <2>6. CASE ServerReads
    <3>1. Head(toServer) \in Requests /\ Tail(toServer) \in Seq(Requests)
      BY <2>6, TailElements DEF ServerReads
    <3>2. Append(inbox, Head(toServer)) \in Seq(Requests)
      BY <3>1, AppendElements
    <3> QED
      BY <2>6, <3>1, <3>2 DEF ServerReads
  <2>7. CASE Drop
    BY <2>7, TailElements DEF Drop
  <2>8. CASE Handle
    <3>1. Head(inbox) \in Requests /\ Tail(inbox) \in Seq(Requests)
      BY <2>8, TailElements DEF Handle
    <3>2. Request("INFO", Head(inbox).id) \in Answers
      BY <3>1 DEF Request
    <3>3. processed' \in Seq(Ids) /\ toClient' \in Seq(Answers)
      <4>1. Head(inbox).id \in Ids
        BY <3>1
      <4>2. Append(processed, Head(inbox).id) \in Seq(Ids) /\ Append(toClient, Request("INFO", Head(inbox).id)) \in Seq(Answers)
        BY <3>2, <4>1, AppendElements
      <4> QED
        BY <2>8, <4>2 DEF Handle
    <3>4. worker'.id = Head(inbox).id /\ worker'.step \in {"ack", "reply"}
      BY <2>8, <3>1 DEF Handle
    <3>5. worker' \in [step : {"recv", "ack", "reply", "gone"}, id : 0 .. MaxMsgs]
      BY <2>8, <3>1 DEF Handle
    <3>6. inbox' = Tail(inbox) /\ replies' \in 0 .. MAX_ACK_RETRIES
      BY <2>8 DEF Handle
    <3>7. UNCHANGED <<clientVars, toServer, drops>>
      BY <2>8 DEF Handle
    <3> QED
      BY <3>1, <3>3, <3>4, <3>5, <3>6, <3>7
  <2>9. CASE SendAck
    <3>1. Request("ACK", worker.id) \in Answers
      BY <2>9 DEF SendAck, Request
    <3>2. Append(toClient, Request("ACK", worker.id)) \in Seq(Answers)
      BY <3>1, AppendElements
    <3> QED
      BY <2>9, <3>2 DEF SendAck
  <2>10. CASE ReplyTimesOut
    <3>1. Request("INFO", worker.id) \in Answers
      BY <2>10 DEF ReplyTimesOut, Request
    <3>2. Append(toClient, Request("INFO", worker.id)) \in Seq(Answers)
      BY <3>1, AppendElements
    <3>3. CASE replies < MAX_ACK_RETRIES
      <4>1. replies' = replies + 1 /\ toClient' = Append(toClient, Request("INFO", worker.id)) /\ UNCHANGED worker
        BY <2>10, <3>3 DEF ReplyTimesOut
      <4>2. UNCHANGED <<clientVars, toServer, inbox, drops, processed>>
        BY <2>10 DEF ReplyTimesOut
      <4> QED
        BY <3>2, <3>3, <4>1, <4>2
    <3>4. CASE ~(replies < MAX_ACK_RETRIES)
      <4>1. worker' = [step |-> "gone", id |-> 0] /\ UNCHANGED <<replies, toClient>>
        BY <2>10, <3>4 DEF ReplyTimesOut
      <4>2. worker' \in [step : {"recv", "ack", "reply", "gone"}, id : 0 .. MaxMsgs]
        BY <4>1
      <4> QED
        BY <2>10, <4>1, <4>2 DEF ReplyTimesOut
    <3> QED
      BY <3>3, <3>4
  <2>11. CASE UNCHANGED vars
    BY <2>11 DEF vars
  <2> QED
    BY <2>1, <2>2, <2>3, <2>4, <2>5, <2>6, <2>7, <2>8, <2>9, <2>10, <2>11
    DEF Next, ClientStep, ServerStep
<1> QED
  BY <1>1, <1>2, PTL DEF SafeSpec

\* Processing one more message adds its id to the processed ones.
LEMMA ProcessedGrows ==
  ASSUME TypeOK, NEW id \in Ids, processed' = Append(processed, id)
  PROVE  Processed' = Processed \cup {id}
<1>1. processed \in Seq(Ids)
  BY DEF TypeOK
<1>2. DOMAIN processed = 1 .. Len(processed) /\ Len(processed) \in Nat
  BY <1>1, LenProperties
<1> QED
  BY <1>1, <1>2, AppendElements DEF Processed

\* An ACK appended to, or taken from, the bytes on their way to the client leaves
\* only ACKs of processed messages on their way.
LEMMA AnswerSent ==
  ASSUME TypeOK, NEW a \in Answers, NEW P, a.type = "ACK" => a.id \in P,
         \A i \in DOMAIN toClient : toClient[i].type = "ACK" => toClient[i].id \in P,
         toClient' = Append(toClient, a)
  PROVE  \A i \in DOMAIN toClient' : toClient'[i].type = "ACK" => toClient'[i].id \in P
<1>1. toClient \in Seq(Answers)
  BY DEF TypeOK
<1> QED
  BY <1>1, AppendElements

\* However late ACKs arrive and however often messages are sent again, the id of an
\* ACK has been processed from the moment the worker is about to send it.
LEMMA AcksAreTrue == SafeSpec => []AckedWasProcessed
<1>1. Init => AckedWasProcessed
  BY EmptySeq DEF Init, AckedWasProcessed, DeliveredWasProcessed
<1>2. TypeOK /\ InProgress /\ AckedWasProcessed /\ [Next]_vars => AckedWasProcessed'
  <2> SUFFICES ASSUME TypeOK, InProgress, AckedWasProcessed, [Next]_vars PROVE AckedWasProcessed'
    OBVIOUS
  <2> USE DEF AckedWasProcessed, DeliveredWasProcessed, clientVars, serverVars
  <2>1. CASE UNCHANGED vars \/ \E k \in Kinds : Send(k)
    BY <2>1 DEF vars, Send, Processed
  <2>2. CASE AckArrives
    BY <2>2 DEF AckArrives, Processed, TypeOK
  <2>3. CASE Resend \/ ServerReads \/ Drop
    BY <2>3 DEF Resend, ServerReads, Drop, Processed
  <2>4. CASE GiveUp
    BY <2>4 DEF GiveUp, Processed, TypeOK
  <2>5. CASE ClientReads
    <3>1. /\ Head(toClient) = toClient[1] /\ 1 \in DOMAIN toClient
          /\ \A i \in DOMAIN Tail(toClient) : i + 1 \in DOMAIN toClient /\ Tail(toClient)[i] = toClient[i + 1]
      BY <2>5, TailElements DEF ClientReads, TypeOK
    <3>2. \A i \in DOMAIN toClient' : toClient'[i].type = "ACK" => toClient'[i].id \in Processed
      BY <2>5, <3>1 DEF ClientReads
    <3> QED
      BY <2>5, <3>1, <3>2 DEF ClientReads, Processed
  <2>6. CASE Handle
    <3>1. Head(inbox) \in Requests
      BY <2>6, TailElements DEF Handle, TypeOK
    <3>2. Head(inbox).id \in Ids /\ Request("INFO", Head(inbox).id) \in Answers
      BY <3>1 DEF Requests, Answers, Request
    <3>3. Processed' = Processed \cup {Head(inbox).id}
      BY <2>6, <3>2, ProcessedGrows DEF Handle
    <3>4. \A i \in DOMAIN toClient' : toClient'[i].type = "ACK" => toClient'[i].id \in Processed
      <4>1. Request("INFO", Head(inbox).id).type # "ACK"
        BY DEF Request
      <4>2. toClient' = toClient \/ toClient' = Append(toClient, Request("INFO", Head(inbox).id))
        BY <2>6 DEF Handle
      <4> QED
        BY <3>2, <4>1, <4>2, AnswerSent
    <3>5. worker'.id = Head(inbox).id /\ pendingAcks' = pendingAcks /\ verdict' = verdict
      BY <2>6 DEF Handle
    <3> QED
      BY <3>3, <3>4, <3>5
  <2>7. CASE SendAck
    <3>1. worker.id \in Processed /\ Request("ACK", worker.id) \in Answers
      BY <2>7 DEF SendAck, InProgress, Request, Answers
    <3>2. Request("ACK", worker.id).id \in Processed
      BY <3>1 DEF Request
    <3>3. \A i \in DOMAIN toClient' : toClient'[i].type = "ACK" => toClient'[i].id \in Processed
      BY <2>7, <3>1, <3>2, AnswerSent DEF SendAck
    <3> QED
      BY <2>7, <3>3 DEF SendAck, Processed
  <2>8. CASE ReplyTimesOut
    <3>1. Request("INFO", worker.id) \in Answers /\ Request("INFO", worker.id).type # "ACK"
      BY <2>8 DEF ReplyTimesOut, InProgress, Request, Answers
    <3>2. toClient' = toClient \/ toClient' = Append(toClient, Request("INFO", worker.id))
      BY <2>8 DEF ReplyTimesOut
    <3>3. \A i \in DOMAIN toClient' : toClient'[i].type = "ACK" => toClient'[i].id \in Processed
      BY <3>1, <3>2, AnswerSent
    <3>4. worker'.step # "ack" /\ UNCHANGED <<pendingAcks, verdict, processed>>
      BY <2>8 DEF ReplyTimesOut
    <3> QED
      BY <3>3, <3>4 DEF Processed
  <2> QED
    BY <2>1, <2>2, <2>3, <2>4, <2>5, <2>6, <2>7, <2>8 DEF Next, ClientStep, ServerStep
<1> QED
  BY <1>1, <1>2, DeliveryTypeOK, PTL DEF SafeSpec

\* sendMsg() returns normally only for a message the server has processed.
THEOREM DeliveryIsTruthful == SafeSpec => []DeliveredWasProcessed
<1>1. AckedWasProcessed => DeliveredWasProcessed
  BY DEF AckedWasProcessed
<1> QED
  BY <1>1, AcksAreTrue, PTL

\* Whatever is on its way has a number.
LEMMA IdsAreNumbers ==
  ASSUME TypeOK
  PROVE  /\ \A i \in DOMAIN toServer : toServer[i].id \in Ids
         /\ \A i \in DOMAIN inbox : inbox[i].id \in Ids
         /\ \A i \in DOMAIN processed : processed[i] \in Ids
         /\ Ids \subseteq Int /\ offered \in Int
<1>1. \A i \in DOMAIN toServer : toServer[i] \in Requests
  BY Elements DEF TypeOK
<1>2. \A i \in DOMAIN inbox : inbox[i] \in Requests
  BY Elements DEF TypeOK
<1>3. \A i \in DOMAIN processed : processed[i] \in Ids
  BY Elements DEF TypeOK
<1>4. Ids \subseteq Int /\ offered \in Int
  BY DeliveryAssumption DEF TypeOK, Ids
<1> QED
  BY <1>1, <1>2, <1>3, <1>4 DEF Requests

\* The order is kept when the client writes a copy of its latest message.
LEMMA OrderAfterWriting ==
  ASSUME TypeOK, Ordered, NEW r \in Requests, offered' \in Nat,
         r.id = offered', offered <= offered',
         toServer' = Append(toServer, r), UNCHANGED <<inbox, processed>>
  PROVE  Ordered'
<1>1. toServer \in Seq(Requests)
  BY DEF TypeOK
<1>2. /\ DOMAIN toServer' = 1 .. Len(toServer) + 1 /\ DOMAIN toServer = 1 .. Len(toServer) /\ Len(toServer) \in Nat
      /\ toServer'[Len(toServer) + 1] = r
      /\ \A i \in DOMAIN toServer : toServer'[i] = toServer[i]
  BY <1>1, AppendElements, LenProperties
<1>3. /\ \A i \in DOMAIN toServer : toServer[i].id \in Int
      /\ \A i \in DOMAIN inbox : inbox[i].id \in Int
      /\ \A i \in DOMAIN processed : processed[i] \in Int
      /\ offered \in Int
  BY IdsAreNumbers
<1>4. /\ \A i, j \in DOMAIN toServer' : i <= j => toServer'[i].id <= toServer'[j].id
      /\ \A i \in DOMAIN toServer' : toServer'[i].id <= offered'
  BY <1>2, <1>3 DEF Ordered
<1>5. /\ \A i \in DOMAIN processed, j \in DOMAIN toServer' : processed[i] <= toServer'[j].id
      /\ \A i \in DOMAIN inbox, j \in DOMAIN toServer' : inbox[i].id <= toServer'[j].id
      /\ \A i \in DOMAIN processed : processed[i] <= offered'
      /\ \A i \in DOMAIN inbox : inbox[i].id <= offered'
  BY <1>2, <1>3 DEF Ordered
<1> QED
  BY <1>4, <1>5 DEF Ordered

\* Ids never decrease along the way of the messages.
LEMMA OrderedHolds == SafeSpec => []Ordered
<1>1. Init => Ordered
  BY EmptySeq DEF Init, Ordered
<1>2. TypeOK /\ InProgress /\ Ordered /\ [Next]_vars => Ordered'
  <2> SUFFICES ASSUME TypeOK, InProgress, Ordered, [Next]_vars PROVE Ordered'
    OBVIOUS
  <2> USE DEF clientVars, serverVars
  <2>0. /\ \A i \in DOMAIN toServer : toServer[i].id \in Int
        /\ \A i \in DOMAIN inbox : inbox[i].id \in Int
        /\ \A i \in DOMAIN processed : processed[i] \in Int
        /\ offered \in Int
    BY IdsAreNumbers
  <2>1. ASSUME NEW k \in Kinds, Send(k) PROVE Ordered'
    <3>1. offered' = offered + 1 /\ offered' \in Nat /\ offered' \in Ids /\ offered <= offered'
      BY <2>1, DeliveryAssumption DEF Send, TypeOK, Ids
    <3>2. Request(k, offered') \in Requests /\ Request(k, offered').id = offered'
      BY <3>1 DEF Request, Requests
    <3>3. toServer' = Append(toServer, Request(k, offered')) /\ UNCHANGED <<inbox, processed>>
      BY <2>1 DEF Send
    <3> QED
      BY <3>1, <3>2, <3>3, OrderAfterWriting
  <2>2. CASE Resend
    <3>1. offered \in Ids /\ kind \in Kinds /\ offered' = offered /\ offered' \in Nat /\ offered <= offered'
      BY <2>2, DeliveryAssumption DEF Resend, InProgress, TypeOK
    <3>2. Request(kind, offered) \in Requests /\ Request(kind, offered).id = offered'
      BY <3>1 DEF Request, Requests
    <3>3. toServer' = Append(toServer, Request(kind, offered)) /\ UNCHANGED <<inbox, processed>>
      BY <2>2 DEF Resend
    <3> QED
      BY <3>1, <3>2, <3>3, OrderAfterWriting
  <2>3. CASE ServerReads
    <3>1. toServer \in Seq(Requests) /\ toServer # <<>> /\ inbox \in Seq(Requests)
      BY <2>3 DEF ServerReads, TypeOK
    <3>2. /\ Head(toServer) \in Requests /\ toServer[1] = Head(toServer) /\ 1 \in DOMAIN toServer
          /\ Len(toServer) \in Nat /\ DOMAIN toServer = 1 .. Len(toServer)
          /\ DOMAIN Tail(toServer) = 1 .. Len(toServer) - 1
          /\ \A i \in DOMAIN Tail(toServer) : i + 1 \in DOMAIN toServer /\ Tail(toServer)[i] = toServer[i + 1]
      BY <3>1, TailElements
    <3>3. toServer' = Tail(toServer) /\ inbox' = Append(inbox, Head(toServer)) /\ UNCHANGED <<processed, offered>>
      BY <2>3 DEF ServerReads
    <3>4. /\ DOMAIN inbox' = 1 .. Len(inbox) + 1 /\ DOMAIN inbox = 1 .. Len(inbox) /\ Len(inbox) \in Nat
          /\ inbox'[Len(inbox) + 1] = toServer[1]
          /\ \A i \in DOMAIN inbox : inbox'[i] = inbox[i]
      BY <3>1, <3>2, <3>3, AppendElements, LenProperties
    <3>5. \A i, j \in DOMAIN toServer' : i <= j => toServer'[i].id <= toServer'[j].id
      <4> SUFFICES ASSUME NEW i \in DOMAIN toServer', NEW j \in DOMAIN toServer', i <= j
                   PROVE  toServer'[i].id <= toServer'[j].id
        OBVIOUS
      <4>1. i \in 1 .. Len(toServer) - 1 /\ j \in 1 .. Len(toServer) - 1
        BY <3>2, <3>3
      <4>2. i + 1 \in DOMAIN toServer /\ j + 1 \in DOMAIN toServer /\ i + 1 <= j + 1
        BY <3>2, <4>1
      <4>3. toServer'[i] = toServer[i + 1] /\ toServer'[j] = toServer[j + 1]
        BY <3>2, <3>3
      <4>4. toServer[i + 1].id <= toServer[j + 1].id
        BY <4>2 DEF Ordered
      <4> QED
        BY <4>3, <4>4
    <3>6. \A i, j \in DOMAIN inbox' : i <= j => inbox'[i].id <= inbox'[j].id
      BY <2>0, <3>2, <3>4 DEF Ordered
    <3>7. \A i \in DOMAIN inbox', j \in DOMAIN toServer' : inbox'[i].id <= toServer'[j].id
      BY <2>0, <3>2, <3>3, <3>4 DEF Ordered
    <3>8. /\ \A i \in DOMAIN processed', j \in DOMAIN inbox' : processed'[i] <= inbox'[j].id
          /\ \A i \in DOMAIN inbox' : inbox'[i].id <= offered'
      BY <2>0, <3>2, <3>3, <3>4 DEF Ordered
    <3>9. /\ \A i \in DOMAIN processed', j \in DOMAIN toServer' : processed'[i] <= toServer'[j].id
          /\ \A i \in DOMAIN toServer' : toServer'[i].id <= offered'
          /\ \A i, j \in DOMAIN processed' : i <= j => processed'[i] <= processed'[j]
          /\ \A i \in DOMAIN processed' : processed'[i] <= offered'
      BY <3>2, <3>3 DEF Ordered
    <3> QED
      BY <3>5, <3>6, <3>7, <3>8, <3>9 DEF Ordered
  <2>4. CASE Drop \/ Handle
    <3>1. inbox \in Seq(Requests) /\ inbox # <<>> /\ processed \in Seq(Ids)
      BY <2>4 DEF Drop, Handle, TypeOK
    <3>2. /\ Head(inbox) \in Requests /\ inbox[1] = Head(inbox) /\ 1 \in DOMAIN inbox
          /\ Len(inbox) \in Nat /\ DOMAIN inbox = 1 .. Len(inbox)
          /\ DOMAIN Tail(inbox) = 1 .. Len(inbox) - 1
          /\ \A i \in DOMAIN Tail(inbox) : i + 1 \in DOMAIN inbox /\ Tail(inbox)[i] = inbox[i + 1]
      BY <3>1, TailElements
    <3>3. inbox' = Tail(inbox) /\ UNCHANGED <<toServer, offered>>
      BY <2>4 DEF Drop, Handle
    <3>4. /\ \A i, j \in DOMAIN inbox' : i <= j => inbox'[i].id <= inbox'[j].id
          /\ \A i \in DOMAIN inbox', j \in DOMAIN toServer' : inbox'[i].id <= toServer'[j].id
          /\ \A i \in DOMAIN inbox' : inbox'[i].id <= offered'
      BY <3>2, <3>3 DEF Ordered
    <3>5. CASE Drop
      <4>1. processed' = processed
        BY <3>5 DEF Drop
      <4>2. \A i \in DOMAIN processed', j \in DOMAIN inbox' : processed'[i] <= inbox'[j].id
        BY <3>2, <3>3, <4>1 DEF Ordered
      <4> QED
        BY <3>3, <3>4, <4>1, <4>2 DEF Ordered
    <3>6. CASE Handle
      <4>1. Head(inbox).id \in Ids /\ processed' = Append(processed, inbox[1].id)
        BY <3>2, <3>6 DEF Handle, Requests
      <4>2. /\ DOMAIN processed' = 1 .. Len(processed) + 1 /\ DOMAIN processed = 1 .. Len(processed)
            /\ Len(processed) \in Nat /\ processed'[Len(processed) + 1] = inbox[1].id
            /\ \A i \in DOMAIN processed : processed'[i] = processed[i]
        BY <3>1, <3>2, <4>1, AppendElements, LenProperties
      <4>3. \A i, j \in DOMAIN processed' : i <= j => processed'[i] <= processed'[j]
        BY <2>0, <3>2, <4>2 DEF Ordered
      <4>4. \A i \in DOMAIN processed', j \in DOMAIN inbox' : processed'[i] <= inbox'[j].id
        <5> SUFFICES ASSUME NEW i \in DOMAIN processed', NEW j \in DOMAIN inbox'
                     PROVE  processed'[i] <= inbox'[j].id
          OBVIOUS
        <5>1. j + 1 \in DOMAIN inbox /\ inbox'[j] = inbox[j + 1] /\ 1 \in DOMAIN inbox /\ 1 <= j + 1
          BY <3>2, <3>3
        <5>2. inbox[1].id <= inbox[j + 1].id /\ \A n \in DOMAIN processed : processed[n] <= inbox[j + 1].id
          BY <5>1 DEF Ordered
        <5>3. i \in DOMAIN processed \/ i = Len(processed) + 1
          BY <4>2
        <5> QED
          BY <4>2, <5>1, <5>2, <5>3
      <4>5. /\ \A i \in DOMAIN processed', j \in DOMAIN toServer' : processed'[i] <= toServer'[j].id
            /\ \A i \in DOMAIN processed' : processed'[i] <= offered'
        BY <2>0, <3>2, <3>3, <4>2 DEF Ordered
      <4> QED
        BY <3>3, <3>4, <4>3, <4>4, <4>5 DEF Ordered
    <3> QED
      BY <2>4, <3>5, <3>6
  <2>5. CASE UNCHANGED vars \/ AckArrives \/ GiveUp \/ ClientReads \/ SendAck \/ ReplyTimesOut
    <3>1. UNCHANGED <<toServer, inbox, processed, offered>>
      BY <2>5 DEF vars, AckArrives, GiveUp, ClientReads, SendAck, ReplyTimesOut
    <3> QED
      BY <3>1 DEF Ordered
  <2> QED
    BY <2>1, <2>2, <2>3, <2>4, <2>5 DEF Next, ClientStep, ServerStep
<1> QED
  BY <1>1, <1>2, DeliveryTypeOK, PTL DEF SafeSpec

\* The server processes messages in the order the user sent them: neither a
\* retransmission nor a dropped copy lets one message overtake another.
THEOREM DeliveryInOrder == SafeSpec => []HandledInOrder
<1>1. TypeOK /\ Ordered => HandledInOrder
  <2> SUFFICES ASSUME TypeOK, Ordered PROVE HandledInOrder
    OBVIOUS
  <2> DEFINE a == [i \in DOMAIN inbox |-> inbox[i].id]
             b == [i \in DOMAIN toServer |-> toServer[i].id]
             p == Len(processed)
             q == p + Len(inbox)
             path == processed \o (a \o b)
  <2>1. /\ a \in Seq(Ids) /\ Len(a) = Len(inbox) /\ DOMAIN a = 1 .. Len(inbox) /\ DOMAIN inbox = 1 .. Len(inbox)
        /\ Len(inbox) \in Nat
    <3>1. Len(inbox) \in Nat /\ DOMAIN inbox = 1 .. Len(inbox)
      BY Elements DEF TypeOK
    <3>2. \A i \in 1 .. Len(inbox) : inbox[i].id \in Ids
      BY <3>1, IdsAreNumbers
    <3> QED
      BY <3>1, <3>2
  <2>2. /\ b \in Seq(Ids) /\ Len(b) = Len(toServer) /\ DOMAIN b = 1 .. Len(toServer) /\ DOMAIN toServer = 1 .. Len(toServer)
        /\ Len(toServer) \in Nat
    <3>1. Len(toServer) \in Nat /\ DOMAIN toServer = 1 .. Len(toServer)
      BY Elements DEF TypeOK
    <3>2. \A i \in 1 .. Len(toServer) : toServer[i].id \in Ids
      BY <3>1, IdsAreNumbers
    <3> QED
      BY <3>1, <3>2
  <2>3. processed \in Seq(Ids) /\ DOMAIN processed = 1 .. p /\ p \in Nat
    BY LenProperties DEF TypeOK
  <2>4. /\ DOMAIN path = 1 .. q + Len(toServer)
        /\ \A i \in 1 .. p : path[i] = processed[i]
        /\ \A i \in p + 1 .. q : i - p \in DOMAIN inbox /\ path[i] = inbox[i - p].id
        /\ \A i \in q + 1 .. q + Len(toServer) : i - q \in DOMAIN toServer /\ path[i] = toServer[i - q].id
    <3> HIDE DEF a, b
    <3>0. a \in Seq(Ids) /\ b \in Seq(Ids) /\ Len(a) = Len(inbox) /\ Len(b) = Len(toServer)
      BY <2>1, <2>2
    <3>1. a \o b \in Seq(Ids) /\ Len(a \o b) = Len(a) + Len(b)
      BY <3>0, ConcatProperties, Zenon
    <3>2. \A i \in 1 .. Len(inbox) + Len(toServer) : (a \o b)[i] = IF i <= Len(inbox) THEN a[i] ELSE b[i - Len(inbox)]
      <4>1. \A i \in 1 .. Len(a) + Len(b) : (a \o b)[i] = IF i <= Len(a) THEN a[i] ELSE b[i - Len(a)]
        BY <3>0, ConcatProperties, Zenon
      <4> QED
        BY <3>0, <4>1
    <3>3. /\ path \in Seq(Ids) /\ Len(path) = p + (Len(inbox) + Len(toServer))
          /\ \A i \in 1 .. p + (Len(inbox) + Len(toServer)) : path[i] = IF i <= p THEN processed[i] ELSE (a \o b)[i - p]
      <4>1. /\ path \in Seq(Ids) /\ Len(path) = Len(processed) + Len(a \o b)
            /\ \A i \in 1 .. Len(processed) + Len(a \o b) :
                 path[i] = IF i <= Len(processed) THEN processed[i] ELSE (a \o b)[i - Len(processed)]
        <5>1. PICK c \in Seq(Ids) : c = a \o b
          BY <3>1, Zenon
        <5>2. /\ processed \o c \in Seq(Ids) /\ Len(processed \o c) = Len(processed) + Len(c)
              /\ \A i \in 1 .. Len(processed) + Len(c) :
                   (processed \o c)[i] = IF i <= Len(processed) THEN processed[i] ELSE c[i - Len(processed)]
          BY <2>3, ConcatProperties
        <5> QED
          BY <5>1, <5>2, Zenon
      <4> QED
        BY <3>0, <3>1, <4>1
    <3>4. DOMAIN path = 1 .. q + Len(toServer)
      BY <2>1, <2>2, <2>3, <3>3, LenProperties
    <3> HIDE DEF path
    <3>5. \A i \in 1 .. p : path[i] = processed[i]
      BY <2>1, <2>2, <2>3, <3>3
    <3>6. \A i \in p + 1 .. q : i - p \in DOMAIN inbox /\ path[i] = a[i - p]
      <4> SUFFICES ASSUME NEW i \in p + 1 .. q PROVE i - p \in DOMAIN inbox /\ path[i] = a[i - p]
        OBVIOUS
      <4>1. i \in 1 .. p + (Len(inbox) + Len(toServer)) /\ ~(i <= p)
        BY <2>1, <2>2, <2>3
      <4>2. i - p \in 1 .. Len(inbox) + Len(toServer) /\ i - p <= Len(inbox) /\ i - p \in 1 .. Len(inbox)
        BY <2>1, <2>2, <2>3
      <4> QED
        BY <2>1, <3>2, <3>3, <4>1, <4>2
    <3>7. \A i \in q + 1 .. q + Len(toServer) : i - q \in DOMAIN toServer /\ path[i] = b[i - q]
      <4> SUFFICES ASSUME NEW i \in q + 1 .. q + Len(toServer) PROVE i - q \in DOMAIN toServer /\ path[i] = b[i - q]
        OBVIOUS
      <4>1. i \in 1 .. p + (Len(inbox) + Len(toServer)) /\ ~(i <= p)
        BY <2>1, <2>2, <2>3
      <4>2. i - p \in 1 .. Len(inbox) + Len(toServer) /\ ~(i - p <= Len(inbox)) /\ (i - p) - Len(inbox) = i - q
        BY <2>1, <2>2, <2>3
      <4>3. i - q \in 1 .. Len(toServer)
        BY <2>1, <2>2, <2>3
      <4> QED
        BY <2>2, <3>2, <3>3, <4>1, <4>2, <4>3
    <3>8. /\ \A i \in DOMAIN inbox : a[i] = inbox[i].id
          /\ \A i \in DOMAIN toServer : b[i] = toServer[i].id
      BY DEF a, b
    <3> QED
      BY <3>4, <3>5, <3>6, <3>7, <3>8
  <2>5. \A i, j \in DOMAIN path : i <= j => path[i] <= path[j]
    <3> HIDE DEF a, b, path
    <3> SUFFICES ASSUME NEW i \in DOMAIN path, NEW j \in DOMAIN path, i <= j PROVE path[i] <= path[j]
      OBVIOUS
    <3>1. i \in Int /\ j \in Int /\ p \in Int /\ q \in Int /\ p <= q /\ i \in 1 .. q + Len(toServer) /\ j \in 1 .. q + Len(toServer)
      BY <2>1, <2>2, <2>3, <2>4
    <3> HIDE DEF p, q
    <3>2. CASE i <= p
      <4>1. i \in DOMAIN processed /\ path[i] = processed[i]
        BY <2>3, <2>4, <3>1, <3>2
      <4>2. CASE j <= p
        BY <2>3, <2>4, <3>1, <4>1, <4>2 DEF Ordered
      <4>3. CASE p < j /\ j <= q
        BY <2>4, <3>1, <4>1, <4>3 DEF Ordered
      <4>4. CASE q < j
        BY <2>2, <2>4, <3>1, <4>1, <4>4 DEF Ordered
      <4> QED
        BY <3>1, <4>2, <4>3, <4>4
    <3>3. CASE p < i /\ i <= q
      <4>1. i - p \in DOMAIN inbox /\ path[i] = inbox[i - p].id
        BY <2>4, <3>1, <3>3
      <4>2. CASE j <= q
        BY <2>4, <3>1, <3>3, <4>1, <4>2 DEF Ordered
      <4>3. CASE q < j
        <5>1. j - q \in DOMAIN toServer /\ path[j] = toServer[j - q].id
          BY <2>2, <2>4, <3>1, <4>3
        <5> QED
          BY <4>1, <5>1 DEF Ordered
      <4> QED
        BY <3>1, <4>2, <4>3
    <3>4. CASE q < i
      <4>1. i - q \in DOMAIN toServer /\ path[i] = toServer[i - q].id /\ j - q \in DOMAIN toServer /\ path[j] = toServer[j - q].id
        BY <2>2, <2>4, <3>1, <3>4
      <4> QED
        BY <3>1, <4>1 DEF Ordered
    <3> QED
      BY <3>1, <3>2, <3>3, <3>4
  <2> QED
    BY <2>5 DEF HandledInOrder, Pipeline
<1> QED
  BY <1>1, OrderedHolds, DeliveryTypeOK, PTL

------------------------------------------------------------------------------
(* The service *)

Copy(id) == {r \in Requests : r.id = id}
Handled(id) == Cardinality(Places(processed, {id}))
InInbox(id) == Cardinality(Places(inbox, Copy(id)))
OnTheWay(id) == Cardinality(Places(toServer, Copy(id)))

\* A message has at most as many copies, handled or not, as attempts have been made.
CopiesBounded ==
  \A id \in Ids :
    Handled(id) + InInbox(id) + OnTheWay(id) <= IF id = offered THEN attempt ELSE MAX_ACK_RETRIES

\* sendMsg() has come to an end for all messages but the one it waits for.
Concluded == \A id \in Ids : verdict[id] = "none" <=> id > offered \/ (id = offered /\ client = "waiting")

\* Copies can be counted.
LEMMA CopiesAreCounted ==
  ASSUME TypeOK, NEW id
  PROVE  Handled(id) \in Nat /\ InInbox(id) \in Nat /\ OnTheWay(id) \in Nat
  BY PlacesFinite DEF TypeOK, Handled, InInbox, OnTheWay

\* Writing a message to the socket makes one more copy of it.
LEMMA CopyWritten ==
  ASSUME TypeOK, NEW r \in Requests, NEW id, toServer' = Append(toServer, r)
  PROVE  OnTheWay(id)' = IF r.id = id THEN OnTheWay(id) + 1 ELSE OnTheWay(id)
<1>1. r \in Copy(id) <=> r.id = id
  BY DEF Copy
<1> QED
  BY <1>1, PlacesAppend DEF TypeOK, OnTheWay

\* Moving a message from the socket to the inbox makes none.
LEMMA CopyRead ==
  ASSUME TypeOK, NEW id, ServerReads
  PROVE  InInbox(id)' + OnTheWay(id)' = InInbox(id) + OnTheWay(id)
<1>1. /\ toServer \in Seq(Requests) /\ toServer # <<>> /\ inbox \in Seq(Requests)
      /\ toServer' = Tail(toServer) /\ inbox' = Append(inbox, Head(toServer))
  BY DEF TypeOK, ServerReads
<1>2. Head(toServer) \in Requests
  BY <1>1, TailElements
<1>3. InInbox(id) \in Nat /\ OnTheWay(id) \in Nat
  BY CopiesAreCounted
<1>4. CASE Head(toServer) \in Copy(id)
  <2>1. InInbox(id)' = InInbox(id) + 1
    BY <1>1, <1>2, <1>4, PlacesAppend DEF InInbox
  <2>2. OnTheWay(id)' = OnTheWay(id) - 1
    BY <1>1, <1>4, PlacesTail DEF OnTheWay
  <2> QED
    BY <1>3, <2>1, <2>2
<1>5. CASE Head(toServer) \notin Copy(id)
  <2>1. InInbox(id)' = InInbox(id)
    BY <1>1, <1>2, <1>5, PlacesAppend DEF InInbox
  <2>2. OnTheWay(id)' = OnTheWay(id)
    BY <1>1, <1>5, PlacesTail DEF OnTheWay
  <2> QED
    BY <2>1, <2>2
<1> QED
  BY <1>4, <1>5

\* Neither does handling or dropping the first message of the inbox.
LEMMA CopyHandled ==
  ASSUME TypeOK, NEW id \in Ids, Drop \/ Handle
  PROVE  Handled(id)' + InInbox(id)' <= Handled(id) + InInbox(id)
<1>1. inbox \in Seq(Requests) /\ inbox # <<>> /\ inbox' = Tail(inbox) /\ processed \in Seq(Ids)
  BY DEF TypeOK, Drop, Handle
<1>2. Head(inbox) \in Requests /\ Head(inbox).id \in Ids
  <2>1. Head(inbox) \in Requests
    BY <1>1, TailElements
  <2> QED
    BY <2>1 DEF Requests
<1>3. Handled(id) \in Nat /\ InInbox(id) \in Nat
  BY CopiesAreCounted
<1>4. Head(inbox) \in Copy(id) <=> Head(inbox).id = id
  BY <1>2 DEF Copy
<1>5. InInbox(id)' = IF Head(inbox).id = id THEN InInbox(id) - 1 ELSE InInbox(id)
  BY <1>1, <1>4, PlacesTail DEF InInbox
<1>6. CASE Drop
  <2>1. Handled(id)' = Handled(id)
    BY <1>6 DEF Drop, Handled
  <2> QED
    BY <1>3, <1>5, <2>1
<1>7. CASE Handle
  <2>1. processed' = Append(processed, Head(inbox).id)
    BY <1>7 DEF Handle
  <2>2. Handled(id)' = IF Head(inbox).id = id THEN Handled(id) + 1 ELSE Handled(id)
    BY <1>1, <1>2, <2>1, PlacesAppend DEF Handled
  <2> QED
    BY <1>3, <1>5, <2>2
<1> QED
  BY <1>6, <1>7

\* A message that has not been sent has no copies.
LEMMA NoCopyAhead ==
  ASSUME TypeOK, Ordered, NEW id \in Ids, id > offered
  PROVE  Handled(id) = 0 /\ InInbox(id) = 0 /\ OnTheWay(id) = 0
<1>1. id \in Int /\ offered \in Int
  BY IdsAreNumbers
<1>2. \A i \in DOMAIN processed : processed[i] # id
  BY <1>1 DEF Ordered
<1>3. \A i \in DOMAIN inbox : inbox[i].id # id
  BY <1>1 DEF Ordered
<1>4. \A i \in DOMAIN toServer : toServer[i].id # id
  BY <1>1 DEF Ordered
<1>5. /\ Places(processed, {id}) = {} /\ Places(inbox, Copy(id)) = {} /\ Places(toServer, Copy(id)) = {}
  BY <1>2, <1>3, <1>4 DEF Places, Copy
<1> QED
  BY <1>5, FS_EmptySet DEF Handled, InInbox, OnTheWay

\* No message gets more copies than attempts, and sendMsg() reports on each in its turn.
LEMMA CopiesStayBounded == SafeSpec => [](CopiesBounded /\ Concluded)
<1>1. Init => CopiesBounded /\ Concluded
  <2> SUFFICES ASSUME Init PROVE CopiesBounded /\ Concluded
    OBVIOUS
  <2>1. processed = <<>> /\ inbox = <<>> /\ toServer = <<>> /\ offered = 0 /\ client = "ready"
        /\ verdict = [id \in Ids |-> "none"]
    BY DEF Init
  <2>2. \A id \in Ids : Handled(id) = 0 /\ InInbox(id) = 0 /\ OnTheWay(id) = 0 /\ id > offered
    BY <2>1, FS_EmptySet, DeliveryAssumption DEF Handled, InInbox, OnTheWay, Places, Ids
  <2> QED
    BY <2>1, <2>2, DeliveryAssumption DEF CopiesBounded, Concluded, Ids
<1>2. TypeOK /\ InProgress /\ Ordered /\ CopiesBounded /\ Concluded /\ [Next]_vars
        => CopiesBounded' /\ Concluded'
  <2> SUFFICES ASSUME TypeOK, InProgress, Ordered, CopiesBounded, Concluded, [Next]_vars
               PROVE  CopiesBounded' /\ Concluded'
    OBVIOUS
  <2>0. /\ \A id \in Ids : Handled(id) \in Nat /\ InInbox(id) \in Nat /\ OnTheWay(id) \in Nat
        /\ Ids \subseteq Nat /\ offered \in Nat /\ attempt \in Nat /\ attempt <= MAX_ACK_RETRIES
        /\ MAX_ACK_RETRIES \in Nat \ {0}
    BY CopiesAreCounted, DeliveryAssumption DEF TypeOK, Ids
  <2>1. ASSUME NEW k \in Kinds, Send(k) PROVE CopiesBounded' /\ Concluded'
    <3>1. offered' = offered + 1 /\ offered' \in Ids /\ attempt' = 1
          /\ client = "ready" /\ client' = "waiting" /\ UNCHANGED <<verdict, inbox, processed>>
      BY <2>0, <2>1, DeliveryAssumption DEF Send, Ids, serverVars
    <3>2. Request(k, offered') \in Requests /\ Request(k, offered').id = offered'
      BY <3>1 DEF Request, Requests
    <3>3. toServer' = Append(toServer, Request(k, offered'))
      BY <2>1 DEF Send
    <3>4. ASSUME NEW id \in Ids
          PROVE  /\ Handled(id)' = Handled(id) /\ InInbox(id)' = InInbox(id)
                 /\ OnTheWay(id)' = IF offered' = id THEN OnTheWay(id) + 1 ELSE OnTheWay(id)
      BY <3>1, <3>2, <3>3, CopyWritten DEF Handled, InInbox
    <3>5. ASSUME NEW id \in Ids
          PROVE  Handled(id)' + InInbox(id)' + OnTheWay(id)'
                   <= IF id = offered' THEN attempt' ELSE MAX_ACK_RETRIES
      <4>1. CASE id = offered'
        <5>1. Handled(id) = 0 /\ InInbox(id) = 0 /\ OnTheWay(id) = 0
          BY <2>0, <3>1, <4>1, NoCopyAhead
        <5> QED
          BY <3>1, <3>4, <4>1, <5>1
      <4>2. CASE id # offered'
        <5>1. Handled(id) + InInbox(id) + OnTheWay(id) <= MAX_ACK_RETRIES
          BY <2>0 DEF CopiesBounded
        <5> QED
          BY <3>4, <4>2, <5>1
      <4> QED
        BY <4>1, <4>2
    <3>6. CopiesBounded'
      BY <3>5 DEF CopiesBounded
    <3>7. Concluded'
      BY <2>0, <3>1 DEF Concluded
    <3> QED
      BY <3>6, <3>7
  <2>2. CASE Resend
    <3>1. /\ offered \in Ids /\ kind \in Kinds /\ attempt' = attempt + 1
          /\ UNCHANGED <<offered, client, verdict, inbox, processed>>
      BY <2>2 DEF Resend, InProgress, serverVars
    <3>2. Request(kind, offered) \in Requests /\ Request(kind, offered).id = offered
      BY <3>1 DEF Request, Requests
    <3>3. toServer' = Append(toServer, Request(kind, offered))
      BY <2>2 DEF Resend
    <3>4. ASSUME NEW id \in Ids
          PROVE  Handled(id)' + InInbox(id)' + OnTheWay(id)'
                   <= IF id = offered' THEN attempt' ELSE MAX_ACK_RETRIES
      <4>1. /\ Handled(id)' = Handled(id) /\ InInbox(id)' = InInbox(id)
            /\ OnTheWay(id)' = IF offered = id THEN OnTheWay(id) + 1 ELSE OnTheWay(id)
        BY <3>1, <3>2, <3>3, CopyWritten DEF Handled, InInbox
      <4>2. Handled(id) + InInbox(id) + OnTheWay(id) <= IF id = offered THEN attempt ELSE MAX_ACK_RETRIES
        BY DEF CopiesBounded
      <4>3. CASE id = offered
        BY <2>0, <3>1, <4>1, <4>2, <4>3
      <4>4. CASE id # offered
        BY <3>1, <4>1, <4>2, <4>4
      <4> QED
        BY <4>3, <4>4
    <3> QED
      BY <3>1, <3>4 DEF CopiesBounded, Concluded
  <2>3. CASE AckArrives \/ GiveUp
    <3>1. /\ client = "waiting" /\ client' # "waiting" /\ offered \in Ids
          /\ \E v \in {"delivered", "failed"} : verdict' = [verdict EXCEPT ![offered] = v]
          /\ UNCHANGED <<offered, attempt, toServer, inbox, processed>>
      BY <2>3 DEF AckArrives, GiveUp, InProgress, serverVars
    <3>2. Concluded'
      BY <2>0, <3>1 DEF Concluded, TypeOK
    <3> QED
      BY <3>1, <3>2 DEF CopiesBounded, Handled, InInbox, OnTheWay
  <2>4. CASE ServerReads
    <3>1. UNCHANGED <<offered, client, attempt, verdict, processed>>
      BY <2>4 DEF ServerReads, clientVars
    <3>2. ASSUME NEW id \in Ids
          PROVE  Handled(id)' + InInbox(id)' + OnTheWay(id)' = Handled(id) + InInbox(id) + OnTheWay(id)
      <4>1. Handled(id)' = Handled(id)
        BY <3>1 DEF Handled
      <4>2. InInbox(id)' + OnTheWay(id)' = InInbox(id) + OnTheWay(id)
        BY <2>4, CopyRead
      <4>3. InInbox(id)' \in Nat /\ OnTheWay(id)' \in Nat
        <5>1. Head(toServer) \in Requests /\ Tail(toServer) \in Seq(Requests)
          BY <2>4, TailElements DEF ServerReads, TypeOK
        <5>2. toServer' \in Seq(Requests) /\ inbox' \in Seq(Requests)
          BY <2>4, <5>1, AppendElements DEF ServerReads, TypeOK
        <5> QED
          BY <5>2, PlacesFinite DEF InInbox, OnTheWay
      <4> QED
        BY <2>0, <4>1, <4>2, <4>3
    <3> QED
      BY <3>1, <3>2 DEF CopiesBounded, Concluded
  <2>5. CASE Drop \/ Handle
    <3>1. UNCHANGED <<offered, client, attempt, verdict, toServer>>
      BY <2>5 DEF Drop, Handle, clientVars
    <3>2. ASSUME NEW id \in Ids
          PROVE  Handled(id)' + InInbox(id)' + OnTheWay(id)' <= IF id = offered THEN attempt ELSE MAX_ACK_RETRIES
      <4>1. OnTheWay(id)' = OnTheWay(id)
        BY <3>1 DEF OnTheWay
      <4>2. Handled(id)' + InInbox(id)' <= Handled(id) + InInbox(id)
        BY <2>5, CopyHandled
      <4>3. Handled(id)' \in Nat /\ InInbox(id)' \in Nat
        <5>1. processed' \in Seq(Ids) /\ inbox' \in Seq(Requests)
          <6>1. /\ inbox \in Seq(Requests) /\ inbox # <<>> /\ inbox' = Tail(inbox) /\ processed \in Seq(Ids)
                /\ processed' \in {processed, Append(processed, Head(inbox).id)}
            BY <2>5 DEF Drop, Handle, TypeOK
          <6>2. Head(inbox) \in Requests /\ Tail(inbox) \in Seq(Requests)
            BY <6>1, TailElements
          <6>3. Append(processed, Head(inbox).id) \in Seq(Ids)
            BY <6>1, <6>2, AppendElements DEF Requests
          <6> QED
            BY <6>1, <6>2, <6>3
        <5> QED
          BY <5>1, PlacesFinite DEF Handled, InInbox
      <4>4. Handled(id) + InInbox(id) + OnTheWay(id) <= IF id = offered THEN attempt ELSE MAX_ACK_RETRIES
        BY DEF CopiesBounded
      <4> QED
        BY <2>0, <4>1, <4>2, <4>3, <4>4
    <3> QED
      BY <3>1, <3>2 DEF CopiesBounded, Concluded
  <2>6. CASE UNCHANGED vars \/ ClientReads \/ SendAck \/ ReplyTimesOut
    <3>1. UNCHANGED <<offered, client, attempt, verdict, toServer, inbox, processed>>
      BY <2>6 DEF vars, clientVars, serverVars, ClientReads, SendAck, ReplyTimesOut
    <3> QED
      BY <3>1 DEF CopiesBounded, Concluded, Handled, InInbox, OnTheWay
  <2> QED
    BY <2>1, <2>2, <2>3, <2>4, <2>5, <2>6 DEF Next, ClientStep, ServerStep
<1> QED
  BY <1>1, <1>2, DeliveryTypeOK, OrderedHolds, PTL DEF SafeSpec

\* sendMsg(), with its retries and whatever the emulator drops, is an at-least-once
\* service: messages are processed in the order they were offered, at most once per
\* attempt, and reported as delivered only if processed.
THEOREM DeliveryImplementsAtLeastOnce == SafeSpec => Service!SafeSpec
<1>1. Init => Service!Init
  BY DEF Init, Service!Init, Ids
<1>2. TypeOK /\ InProgress /\ AckedWasProcessed /\ Ordered /\ CopiesBounded /\ Concluded /\ [Next]_vars
        => [Service!Next]_Service!vars
  <2> SUFFICES ASSUME TypeOK, InProgress, AckedWasProcessed, Ordered, CopiesBounded, Concluded, [Next]_vars
               PROVE  [Service!Next]_Service!vars
    OBVIOUS
  <2>0. Ids \subseteq Nat /\ offered \in Nat
    BY DeliveryAssumption DEF TypeOK, Ids
  <2>1. ASSUME NEW k \in Kinds, Send(k) PROVE Service!Offer
    <3>1. client = "ready" /\ offered < MaxMsgs /\ offered' = offered + 1 /\ UNCHANGED <<processed, verdict>>
      BY <2>1 DEF Send, serverVars
    <3>2. offered = 0 \/ offered \in Ids
      BY <3>1, DeliveryAssumption DEF TypeOK, Ids
    <3>3. offered = 0 \/ verdict[offered] # "none"
      BY <2>0, <3>1, <3>2 DEF Concluded
    <3> QED
      BY <3>1, <3>3 DEF Service!Offer
  <2>2. CASE Handle
    <3> DEFINE id == Head(inbox).id
    <3>1. /\ inbox \in Seq(Requests) /\ inbox # <<>> /\ processed' = Append(processed, id)
          /\ UNCHANGED <<offered, verdict>>
      BY <2>2 DEF Handle, TypeOK, clientVars
    <3>2. Head(inbox) \in Requests /\ 1 \in DOMAIN inbox /\ inbox[1] = Head(inbox)
      BY <3>1, TailElements
    <3>3. id \in Ids /\ id <= offered /\ \A i \in DOMAIN processed : processed[i] <= id
      BY <3>2 DEF Ordered, Requests
    <3>4. InInbox(id) # 0
      <4>1. 1 \in Places(inbox, Copy(id))
        BY <3>2 DEF Places, Copy
      <4> QED
        BY <3>1, <4>1, PlacesFinite DEF InInbox
    <3>5. Handled(id) + InInbox(id) + OnTheWay(id) <= MAX_ACK_RETRIES
      <4>1. Handled(id) + InInbox(id) + OnTheWay(id) <= IF id = offered THEN attempt ELSE MAX_ACK_RETRIES
        BY <3>3 DEF CopiesBounded
      <4>2. attempt \in Nat /\ attempt <= MAX_ACK_RETRIES /\ MAX_ACK_RETRIES \in Nat
        BY DeliveryAssumption DEF TypeOK
      <4>3. Handled(id) \in Nat /\ InInbox(id) \in Nat /\ OnTheWay(id) \in Nat
        BY CopiesAreCounted
      <4> QED
        BY <4>1, <4>2, <4>3
    <3>6. Handled(id) < MAX_ACK_RETRIES
      <4>1. Handled(id) \in Nat /\ InInbox(id) \in Nat /\ OnTheWay(id) \in Nat
        BY CopiesAreCounted
      <4> QED
        BY <3>4, <3>5, <4>1, DeliveryAssumption
    <3>7. Cardinality(Service!Copies(id)) < MAX_ACK_RETRIES
      <4>1. Service!Copies(id) = Places(processed, {id})
        BY DEF Service!Copies, Places
      <4> QED
        BY <3>6, <4>1, Zenon DEF Handled
    <3>8. Service!Cardinality(Service!Copies(id)) = Cardinality(Service!Copies(id))
      BY Zenon DEF Service!Cardinality, Cardinality
    <3> HIDE DEF id
    <3>9. Service!Process(id)
      BY <3>1, <3>3, <3>7, <3>8 DEF Service!Process
    <3> QED
      BY <3>3, <3>9 DEF Service!Next, Ids
  <2>3. CASE AckArrives
    <3>1. /\ offered \in Ids /\ verdict[offered] = "none" /\ offered \in Processed
          /\ verdict' = [verdict EXCEPT ![offered] = "delivered"] /\ UNCHANGED <<offered, processed>>
      BY <2>0, <2>3 DEF AckArrives, InProgress, Concluded, AckedWasProcessed, serverVars
    <3>2. Service!Copies(offered) # {}
      BY <3>1 DEF Service!Copies, Processed
    <3>3. Service!Conclude(offered)
      BY <3>1, <3>2 DEF Service!Conclude
    <3> QED
      BY <3>1, <3>3 DEF Service!Next, Ids
  <2>4. CASE GiveUp
    <3>1. /\ offered \in Ids /\ verdict[offered] = "none"
          /\ verdict' = [verdict EXCEPT ![offered] = "failed"] /\ UNCHANGED <<offered, processed>>
      BY <2>0, <2>4 DEF GiveUp, InProgress, Concluded, serverVars
    <3>2. Service!Conclude(offered)
      BY <3>1 DEF Service!Conclude
    <3> QED
      BY <3>1, <3>2 DEF Service!Next, Ids
  <2>5. CASE UNCHANGED vars \/ Resend \/ ClientReads \/ ServerReads \/ Drop \/ SendAck \/ ReplyTimesOut
    <3>1. UNCHANGED <<offered, processed, verdict>>
      BY <2>5 DEF vars, clientVars, serverVars, Resend, ClientReads, ServerReads, Drop, SendAck, ReplyTimesOut
    <3> QED
      BY <3>1 DEF Service!vars
  <2> QED
    BY <2>1, <2>2, <2>3, <2>4, <2>5 DEF Next, ClientStep, ServerStep, Service!Next
<1> QED
  BY <1>1, <1>2, DeliveryTypeOK, AcksAreTrue, OrderedHolds, CopiesStayBounded, PTL DEF SafeSpec, Service!SafeSpec

------------------------------------------------------------------------------
(* Wire: what is proved of it *)

\* A part of a message of M, and a direction in which messages of M are sent.
Pieces(M) == M \X (1 .. 3)
Directions(M) ==
  [wire : Seq(Pieces(M)), tx : Seq(Pieces(M)), handler : BOOLEAN, got : Seq(Pieces(M)),
   msg : M \cup {NoMsg}, sent : Seq(M), received : Seq(M), lost : BOOLEAN]

\* What clients send and what servers send.
Asked == [type : {"HELLO", "TEXT", "PING"}, id : Nat]
Told == [type : {"WELCOME", "TEXT", "PONG", "ECHO"}, id : Nat]

WireTypeOK ==
  /\ lab \in Labs
  /\ clientMain \in {"hello", "prompt", "await", "closed"}
  /\ up \in Directions(Asked) /\ down \in Directions(Told)
  /\ typed \in Nat /\ texts \in Nat
  /\ short \in BOOLEAN

\* The parts that have been sent and are not yet part of a received message: what
\* recvMsg() has read, what is on the way, what send() has not yet taken.
Behind(s, t) == s \o t
Whole(d) == Behind(Behind(d.got, d.wire), d.tx)

\* The parts w are those of the messages of s behind the first r, in order.
Spells(w, r, s) ==
  /\ Len(w) = 3 * (Len(s) - r)
  /\ \A k \in 1 .. Len(s) - r, j \in 1 .. 3 : w[3 * (k - 1) + j] = <<s[r + k], j>>

\* p are the first parts of message m.
PartsOf(p, m) == Len(p) \in 1 .. 3 /\ \A j \in 1 .. Len(p) : p[j] = <<m, j>>

\* The messages f begin with g.
Begins(g, f) == Len(g) <= Len(f) /\ \A i \in 1 .. Len(g) : g[i] = f[i]

\* The boundaries of messages are where the reader takes them to be.
Framed(d) ==
  /\ ~d.lost /\ Begins(d.received, d.sent)
  /\ d.msg # NoMsg => Len(d.received) # 0 /\ d.msg = d.received[Len(d.received)]
  /\ lab = 1 => /\ d.got = <<>>
                /\ Whole(d) # <<>> => /\ Len(d.sent) = Len(d.received) + 1
                                      /\ Whole(d) = <<<<d.sent[Len(d.sent)], 1>>>>
  /\ lab # 1 => /\ Spells(Whole(d), Len(d.received), d.sent)
                /\ Len(d.got) <= (IF lab = 5 THEN 2 ELSE 0)

\* The messages of a direction that their reader has dealt with, a direction that is
\* empty, one whose messages have all been received.
Done(d) == Len(d.received) - (IF d.msg = NoMsg THEN 0 ELSE 1)
Silent(d) == Whole(d) = <<>> /\ d.msg = NoMsg
Caught(d) == Len(d.received) = Len(d.sent)

FramedOK == ~short => Framed(up) /\ Framed(down)

\* Labs 1 and 2, in program l with directions u to the server and d to the client.
\* Of the first n messages the server has still to handle none that has an answer.
Answered(l, u, n) == \A i \in Done(u) + 1 .. n : l = 2 /\ u.sent[i].type = "TEXT"

\* Nobody waits for an answer, or the client waits for the one to the last message it has
\* sent, which is still to come, on its way, or read.
Idle(l, u, d) == Silent(d) /\ Caught(d) /\ Answered(l, u, Len(u.sent))
Waiting(l, u, d) ==
  /\ Len(u.sent) # 0 /\ Answered(l, u, Len(u.sent) - 1)
  /\ Done(u) < Len(u.sent) => Silent(d) /\ Caught(d)
  /\ \/ Caught(d)
     \/ /\ Len(d.sent) = Len(d.received) + 1 /\ d.msg = NoMsg
        /\ d.sent[Len(d.sent)].id = u.sent[Len(u.sent)].id
  /\ d.msg # NoMsg => d.msg.id = u.sent[Len(u.sent)].id
  /\ l = 2 => /\ u.sent[Len(u.sent)].type # "TEXT"
              /\ Done(u) < Len(u.sent) \/ ~Caught(d) \/ d.msg # NoMsg
TextsShown(l, u, s) ==
  l = 2 => \A i \in 1 .. Done(u) : u.sent[i].type = "TEXT" => u.sent[i].id \in s

\* The client is at c and the server has shown s.
Talk(l, c, u, d, s) ==
  /\ c = "await" => Waiting(l, u, d)
  /\ c # "await" => Idle(l, u, d)
  /\ TextsShown(l, u, s)
Conversation == lab \in 1 .. 2 /\ ~short => Talk(lab, clientMain, up, down, shown)

WireInv == WireTypeOK /\ FramedOK /\ Conversation

------------------------------------------------------------------------------
(* Parts *)

\* The fields of a direction.
LEMMA Fields ==
  ASSUME NEW M, NEW d \in Directions(M)
  PROVE  /\ d.wire \in Seq(Pieces(M)) /\ d.tx \in Seq(Pieces(M)) /\ d.got \in Seq(Pieces(M))
         /\ d.handler \in BOOLEAN /\ d.lost \in BOOLEAN
         /\ d.msg \in M \cup {NoMsg}
         /\ d.sent \in Seq(M) /\ d.received \in Seq(M)
         /\ Len(d.wire) \in Nat /\ Len(d.tx) \in Nat /\ Len(d.got) \in Nat
         /\ Len(d.sent) \in Nat /\ Len(d.received) \in Nat
<1>1. /\ d.wire \in Seq(Pieces(M)) /\ d.tx \in Seq(Pieces(M)) /\ d.got \in Seq(Pieces(M))
      /\ d.handler \in BOOLEAN /\ d.lost \in BOOLEAN
      /\ d.msg \in M \cup {NoMsg}
      /\ d.sent \in Seq(M) /\ d.received \in Seq(M)
  BY DEF Directions
<1> QED
  BY <1>1, Elements

\* The parts of one message.
LEMMA CutElements ==
  ASSUME WireTypeOK, NEW M, NEW m \in M
  PROVE  /\ Cut(m) \in Seq(Pieces(M)) /\ Len(Cut(m)) = (IF lab = 1 THEN 1 ELSE 3)
         /\ \A i \in 1 .. Len(Cut(m)) : Cut(m)[i] = <<m, i>>
<1>1. Parts \in Nat /\ Parts <= 3 /\ Parts = (IF lab = 1 THEN 1 ELSE 3)
  BY DEF Parts
<1>2. \A i \in 1 .. Parts : <<m, i>> \in Pieces(M)
  BY <1>1 DEF Pieces
<1> QED
  BY <1>1, <1>2 DEF Cut

\* All the parts of a direction.
LEMMA WholeParts ==
  ASSUME NEW M, NEW d \in Directions(M)
  PROVE  Whole(d) \in Seq(Pieces(M)) /\ Len(Whole(d)) \in Nat
<1>1. d.got \in Seq(Pieces(M)) /\ d.wire \in Seq(Pieces(M)) /\ d.tx \in Seq(Pieces(M))
  BY Fields
<1>2. d.got \o d.wire \in Seq(Pieces(M))
  BY <1>1, ConcatProperties
<1>3. Whole(d) \in Seq(Pieces(M))
  BY <1>1, <1>2, ConcatProperties DEF Whole, Behind
<1> QED
  BY <1>3, Elements

\* How many parts a direction has.
LEMMA WholeLength ==
  ASSUME NEW M, NEW d \in Directions(M)
  PROVE  Len(Whole(d)) = Len(d.got) + Len(d.wire) + Len(d.tx)
<1>1. PICK g \in Seq(Pieces(M)), w \in Seq(Pieces(M)), t \in Seq(Pieces(M)) :
        g = d.got /\ w = d.wire /\ t = d.tx
  BY Fields
<1>2. Len((g \o w) \o t) = Len(g) + Len(w) + Len(t)
  <2>1. g \o w \in Seq(Pieces(M)) /\ Len(g \o w) = Len(g) + Len(w)
    BY ConcatProperties
  <2> QED
    BY <2>1, ConcatProperties
<1> QED
  BY <1>1, <1>2 DEF Whole, Behind

\* Parts on the way are parts of the direction.
LEMMA PartsOnTheWay ==
  ASSUME NEW M, NEW d \in Directions(M), d.wire # <<>>
  PROVE  Whole(d) # <<>> /\ Len(d.wire) \in Nat \ {0}
<1>1. /\ Len(d.wire) \in Nat /\ d.wire \in Seq(Pieces(M))
      /\ Len(d.got) \in Nat /\ Len(d.tx) \in Nat
  BY Fields
<1>2. Len(d.wire) # 0
  BY <1>1, EmptySeq
<1>3. Len(Whole(d)) # 0
  <2>1. \A i, k \in Nat : \A j \in Nat \ {0} : i + j + k # 0
    OBVIOUS
  <2>2. Len(d.wire) \in Nat \ {0}
    BY <1>1, <1>2
  <2>3. Len(d.got) + Len(d.wire) + Len(d.tx) # 0
    BY <1>1, <2>1, <2>2, Zenon
  <2> QED
    BY <2>3, WholeLength, Zenon
<1> QED
  BY <1>1, <1>2, <1>3, WholeParts, EmptySeq

\* A sequence of one element.
LEMMA OneElement ==
  ASSUME NEW S, NEW y \in Seq(S), Len(y) = 1
  PROVE  y[1] \in S /\ y = <<y[1]>>
<1>1. y[1] \in S
  BY Elements
<1>2. PICK c \in S : c = y[1]
  BY <1>1
<1>3. <<c>> \in Seq(S) /\ Len(<<c>>) = 1 /\ <<c>>[1] = c
  OBVIOUS
<1>4. y = <<c>>
  BY <1>2, <1>3, SeqEqual
<1> QED
  BY <1>1, <1>2, <1>4

\* Three sequences one behind the other.
LEMMA Grouped ==
  ASSUME NEW S, NEW s \in Seq(S), NEW t \in Seq(S), NEW u \in Seq(S)
  PROVE  Behind(Behind(s, t), u) = Behind(s, Behind(t, u))
  BY ConcatAssociative DEF Behind

\* Elements may be moved between neighbours.
LEMMA Regrouped ==
  ASSUME NEW S, NEW g \in Seq(S), NEW w \in Seq(S), NEW a \in Seq(S), NEW z \in Seq(S)
  PROVE  Behind(Behind(g, Behind(w, a)), z) = Behind(Behind(g, w), Behind(a, z))
<1>1. (g \o w) \o a = g \o (w \o a)
  BY ConcatAssociative
<1>2. g \o w \in Seq(S)
  BY ConcatProperties
<1>3. ((g \o w) \o a) \o z = (g \o w) \o (a \o z)
  BY <1>2, ConcatAssociative
<1> QED
  BY <1>1, <1>3 DEF Behind

\* The elements of two sequences one behind the other.
LEMMA Joined ==
  ASSUME NEW S, NEW s \in Seq(S), NEW t \in Seq(S)
  PROVE  /\ s \o t \in Seq(S) /\ Len(s \o t) = Len(s) + Len(t)
         /\ \A i \in 1 .. Len(s) : (s \o t)[i] = s[i]
         /\ \A i \in 1 .. Len(t) : (s \o t)[Len(s) + i] = t[i]
  BY ConcatElements, ConcatProperties, Elements

\* A sequence is what begins it and what is left.
LEMMA CutAt ==
  ASSUME NEW S, NEW s \in Seq(S), NEW k \in 0 .. Len(s)
  PROVE  /\ SubSeq(s, 1, k) \in Seq(S) /\ Len(SubSeq(s, 1, k)) = k
         /\ SubSeq(s, k + 1, Len(s)) \in Seq(S)
         /\ s = SubSeq(s, 1, k) \o SubSeq(s, k + 1, Len(s))
<1>1. Len(s) \in Nat /\ \A i \in 1 .. Len(s) : s[i] \in S
  BY Elements
<1>2. SubSeq(s, 1, k) \in Seq(S) /\ Len(SubSeq(s, 1, k)) = IF 1 <= k THEN k - 1 + 1 ELSE 0
  <2>1. k \in Int /\ \A i \in 1 .. k : s[i] \in S
    BY <1>1
  <2> QED
    BY <2>1, SubSeqProperties
<1>3. SubSeq(s, 1, k) \o SubSeq(s, k + 1, Len(s)) = SubSeq(s, 1, Len(s))
  <2>1. 1 \in 1 .. Len(s) + 1 /\ k \in 1 - 1 .. Len(s) /\ Len(s) \in k .. Len(s)
    BY <1>1
  <2> QED
    BY <2>1, ConcatAdjacentSubSeq
<1>4. Len(SubSeq(s, 1, k)) = k
  BY <1>1, <1>2
<1>5. SubSeq(s, 1, Len(s)) = s
  BY SubSeqFull
<1>6. SubSeq(s, k + 1, Len(s)) \in Seq(S)
  BY DropElements
<1> QED
  BY <1>2, <1>3, <1>4, <1>5, <1>6

\* Parts behind others are those of one message more.
LEMMA SpellsMore ==
  ASSUME NEW M, NEW w \in Seq(Pieces(M)), NEW v \in Seq(Pieces(M)), NEW s \in Seq(M),
         NEW r \in 0 .. Len(s), NEW m \in M,
         Spells(w, r, s), Len(v) = Len(w) + 3,
         \A i \in 1 .. Len(w) : v[i] = w[i],
         \A j \in 1 .. 3 : v[Len(w) + j] = <<m, j>>
  PROVE  Spells(v, r, Append(s, m))
<1> DEFINE n == Len(s) - r
<1>1. Len(s) \in Nat /\ n \in Nat /\ Len(w) = 3 * n
  BY Elements DEF Spells
<1>2. /\ Len(Append(s, m)) = Len(s) + 1 /\ Append(s, m)[Len(s) + 1] = m
      /\ \A i \in 1 .. Len(s) : Append(s, m)[i] = s[i]
  BY AppendElements, Elements
<1>3. Len(v) = 3 * (Len(Append(s, m)) - r)
  BY <1>1, <1>2
<1>4. ASSUME NEW k \in 1 .. Len(Append(s, m)) - r, NEW j \in 1 .. 3
      PROVE  v[3 * (k - 1) + j] = <<Append(s, m)[r + k], j>>
  <2>1. k \in 1 .. n + 1
    BY <1>1, <1>2
  <2>2. CASE k = n + 1
    <3>1. 3 * (k - 1) + j = Len(w) + j /\ r + k = Len(s) + 1
      BY <1>1, <2>2
    <3> QED
      BY <1>2, <3>1
  <2>3. CASE k \in 1 .. n
    <3>1. 3 * (k - 1) + j \in 1 .. Len(w) /\ r + k \in 1 .. Len(s)
      BY <1>1, <2>3
    <3>2. w[3 * (k - 1) + j] = <<s[r + k], j>>
      BY <2>3 DEF Spells
    <3> QED
      BY <1>2, <3>1, <3>2
  <2> QED
    BY <1>1, <2>1, <2>2, <2>3
<1> QED
  BY <1>3, <1>4 DEF Spells

\* The first parts are those of the next message.
LEMMA SpellsBegins ==
  ASSUME NEW M, NEW w \in Seq(Pieces(M)), NEW s \in Seq(M), NEW r \in 0 .. Len(s),
         Spells(w, r, s), NEW n \in 1 .. 3, n <= Len(w)
  PROVE  r + 1 <= Len(s) /\ \A j \in 1 .. n : w[j] = <<s[r + 1], j>>
<1>1. Len(s) \in Nat /\ Len(w) \in Nat /\ Len(w) = 3 * (Len(s) - r)
  BY Elements DEF Spells
<1>2. r + 1 <= Len(s)
  BY <1>1
<1>3. ASSUME NEW j \in 1 .. n
      PROVE  w[j] = <<s[r + 1], j>>
  <2>1. 1 \in 1 .. Len(s) - r /\ j \in 1 .. 3 /\ 3 * (1 - 1) + j = j
    BY <1>1, <1>2
  <2> QED
    BY <2>1 DEF Spells
<1> QED
  BY <1>2, <1>3

\* Without the first three, the parts are those of one message less.
LEMMA SpellsLess ==
  ASSUME NEW M, NEW w \in Seq(Pieces(M)), NEW v \in Seq(Pieces(M)), NEW s \in Seq(M),
         NEW r \in 0 .. Len(s),
         Spells(w, r, s), Len(w) = Len(v) + 3,
         \A i \in 1 .. Len(v) : v[i] = w[3 + i]
  PROVE  Spells(v, r + 1, s)
<1>1. Len(s) \in Nat /\ Len(v) \in Nat /\ Len(w) = 3 * (Len(s) - r)
  BY Elements DEF Spells
<1>2. r + 1 <= Len(s) /\ Len(v) = 3 * (Len(s) - (r + 1))
  BY <1>1
<1>3. ASSUME NEW k \in 1 .. Len(s) - (r + 1), NEW j \in 1 .. 3
      PROVE  v[3 * (k - 1) + j] = <<s[(r + 1) + k], j>>
  <2>1. /\ 3 * (k - 1) + j \in 1 .. Len(v)
        /\ 3 + (3 * (k - 1) + j) = 3 * ((k + 1) - 1) + j
        /\ k + 1 \in 1 .. Len(s) - r /\ r + (k + 1) = (r + 1) + k
    BY <1>1, <1>2
  <2>2. w[3 * ((k + 1) - 1) + j] = <<s[r + (k + 1)], j>>
    BY <2>1 DEF Spells
  <2> QED
    BY <2>1, <2>2
<1> QED
  BY <1>2, <1>3 DEF Spells

\* Appending to what has been sent keeps what has been received a beginning of it.
LEMMA BeginsAppended ==
  ASSUME NEW M, NEW g \in Seq(M), NEW f \in Seq(M), NEW m \in M, Begins(g, f)
  PROVE  Begins(g, Append(f, m))
<1>1. /\ Len(Append(f, m)) = Len(f) + 1
      /\ \A i \in 1 .. Len(f) : Append(f, m)[i] = f[i]
      /\ Len(f) \in Nat /\ Len(g) \in Nat
  BY AppendElements, AppendProperties, Elements
<1> QED
  BY <1>1 DEF Begins

\* Appending the next message that was sent to those received.
LEMMA BeginsExtended ==
  ASSUME NEW M, NEW g \in Seq(M), NEW f \in Seq(M), Begins(g, f), Len(g) + 1 <= Len(f)
  PROVE  /\ Begins(Append(g, f[Len(g) + 1]), f) /\ f[Len(g) + 1] \in M
         /\ Len(Append(g, f[Len(g) + 1])) = Len(g) + 1
         /\ Append(g, f[Len(g) + 1])[Len(g) + 1] = f[Len(g) + 1]
<1>1. Len(f) \in Nat /\ Len(g) \in Nat /\ \A i \in 1 .. Len(f) : f[i] \in M
  BY Elements
<1>2. f[Len(g) + 1] \in M
  BY <1>1
<1>3. PICK m \in M : m = f[Len(g) + 1]
  BY <1>2
<1>4. /\ Len(Append(g, m)) = Len(g) + 1 /\ Append(g, m)[Len(g) + 1] = m
      /\ \A i \in 1 .. Len(g) : Append(g, m)[i] = g[i]
  BY AppendElements, AppendProperties, Elements
<1>5. \A i \in 1 .. Len(g) + 1 : i \in 1 .. Len(g) \/ i = Len(g) + 1
  BY <1>1
<1> QED
  BY <1>2, <1>3, <1>4, <1>5 DEF Begins

------------------------------------------------------------------------------
(* Directions *)

\* sendMsg() begins when there is nothing left to write.
LEMMA BeganFields ==
  ASSUME WireTypeOK, NEW M, NEW d \in Directions(M), NEW m \in M, NEW h \in BOOLEAN,
         NEW e \in Began(d, m, h)
  PROVE  /\ e \in Directions(M) /\ d.tx = <<>> /\ e.tx = Cut(m) /\ e.sent = Append(d.sent, m)
         /\ e.wire = d.wire /\ e.got = d.got /\ e.msg = d.msg /\ e.received = d.received
         /\ e.lost = d.lost
<1>1. d.tx = <<>> /\ e = [d EXCEPT !.tx = Cut(m), !.handler = h, !.sent = Append(@, m)]
  BY DEF Began
<1>2. Cut(m) \in Seq(Pieces(M)) /\ Append(d.sent, m) \in Seq(M)
  BY Fields, CutElements, AppendElements
<1> QED
  BY <1>1, <1>2 DEF Directions

\* sendMsg() puts the parts of its message behind the others.
LEMMA BeganFramed ==
  ASSUME WireTypeOK, NEW M, NEW d \in Directions(M), Framed(d), NEW m \in M,
         NEW h \in BOOLEAN, NEW e \in Began(d, m, h),
         lab = 1 => Whole(d) = <<>> /\ Caught(d)
  PROVE  Framed(e)
<1>1. /\ d.tx = <<>> /\ e.tx = Cut(m) /\ e.sent = Append(d.sent, m)
      /\ e.wire = d.wire /\ e.got = d.got /\ e.msg = d.msg /\ e.received = d.received
      /\ e.lost = d.lost
  BY BeganFields
<1>2. e \in Directions(M)
  BY BeganFields
<1>3. Whole(e) = Whole(d) \o Cut(m)
  <2>1. d.got \o d.wire \in Seq(Pieces(M))
    BY Fields, ConcatProperties
  <2>2. (d.got \o d.wire) \o <<>> = d.got \o d.wire
    BY <2>1, ConcatEmptySeq
  <2> QED
    BY <1>1, <2>2 DEF Whole, Behind
<1>4. Len(d.sent) \in Nat /\ Len(d.received) \in Nat /\ d.sent \in Seq(M) /\ d.received \in Seq(M)
  BY Fields
<1>5. Begins(e.received, e.sent)
  BY <1>1, <1>4, BeginsAppended DEF Framed
<1>6. Len(e.sent) = Len(d.sent) + 1 /\ e.sent[Len(e.sent)] = m
  BY <1>1, <1>4, AppendProperties
<1>7. CASE lab = 1
  <2>1. Whole(e) = Cut(m) /\ Cut(m) = <<<<m, 1>>>>
    <3>1. Cut(m) \in Seq(Pieces(M)) /\ Whole(d) = <<>>
      BY <1>7, CutElements
    <3>2. Parts = 1
      BY <1>7 DEF Parts
    <3>3. Cut(m) = <<<<m, 1>>>>
      BY <3>2 DEF Cut
    <3> QED
      BY <1>3, <3>1, <3>3, ConcatEmptySeq
  <2> QED
    BY <1>1, <1>2, <1>4, <1>5, <1>6, <1>7, <2>1 DEF Framed, Caught
<1>8. CASE lab # 1
  <2>1. Len(d.received) \in 0 .. Len(d.sent)
    BY <1>4 DEF Framed, Begins
  <2>2. PICK w \in Seq(Pieces(M)), c \in Seq(Pieces(M)) : w = Whole(d) /\ c = Cut(m)
    BY WholeParts, CutElements
  <2>3. Spells(w, Len(d.received), d.sent) /\ Len(c) = 3 /\ \A j \in 1 .. 3 : c[j] = <<m, j>>
    BY <1>8, <2>2, CutElements DEF Framed
  <2>4. /\ w \o c \in Seq(Pieces(M)) /\ Len(w \o c) = Len(w) + Len(c)
        /\ \A i \in 1 .. Len(w) : (w \o c)[i] = w[i]
        /\ \A j \in 1 .. Len(c) : (w \o c)[Len(w) + j] = c[j]
    BY Joined
  <2>5. Spells(Whole(e), Len(d.received), Append(d.sent, m))
    <3>1. PICK v \in Seq(Pieces(M)) : v = w \o c
      BY <2>4, Zenon
    <3>2. /\ Len(v) = Len(w) + Len(c)
          /\ \A i \in 1 .. Len(w) : v[i] = w[i]
          /\ \A j \in 1 .. Len(c) : v[Len(w) + j] = c[j]
      BY <2>4, <3>1, Zenon
    <3>3. v = Whole(e)
      BY <1>3, <2>2, <3>1, Zenon
    <3>4. Len(v) = Len(w) + 3 /\ \A j \in 1 .. 3 : v[Len(w) + j] = <<m, j>>
      BY <2>3, <3>2
    <3> QED
      BY <1>4, <2>1, <2>3, <3>2, <3>3, <3>4, SpellsMore
  <2> QED
    BY <1>1, <1>2, <1>5, <1>8, <2>5 DEF Framed
<1> QED
  BY <1>1, <1>2, <1>7, <1>8

\* send() moves parts onto the way.
LEMMA WrittenFramed ==
  ASSUME NEW M, NEW d \in Directions(M), NEW e \in Written(d)
  PROVE  /\ e \in Directions(M) /\ Whole(e) = Whole(d)
         /\ Framed(d) => Framed(e)
         /\ e.sent = d.sent /\ e.received = d.received /\ e.msg = d.msg
<1>1. PICK k \in 1 .. Len(d.tx) :
        e = [d EXCEPT !.wire = @ \o SubSeq(d.tx, 1, k), !.tx = SubSeq(@, k + 1, Len(@))]
  BY DEF Written
<1>2. PICK g \in Seq(Pieces(M)), w \in Seq(Pieces(M)), t \in Seq(Pieces(M)) :
        g = d.got /\ w = d.wire /\ t = d.tx
  BY Fields
<1>3. k \in 0 .. Len(t)
  BY <1>2, Elements
<1> DEFINE a == SubSeq(t, 1, k)
           z == SubSeq(t, k + 1, Len(t))
<1>4. a \in Seq(Pieces(M)) /\ z \in Seq(Pieces(M)) /\ t = a \o z
  BY <1>3, CutAt
<1>5. /\ e.wire = w \o a /\ e.tx = z /\ e.got = g /\ e.handler = d.handler /\ e.msg = d.msg
      /\ e.sent = d.sent /\ e.received = d.received /\ e.lost = d.lost
  BY <1>1, <1>2 DEF Directions
<1> HIDE DEF a, z
<1>6. w \o a \in Seq(Pieces(M)) /\ g \o w \in Seq(Pieces(M))
  BY <1>4, ConcatProperties
<1>7. e \in Directions(M)
  BY <1>1, <1>2, <1>4, <1>5, <1>6 DEF Directions, a, z
<1>8. Whole(e) = Whole(d)
  <2>1. Behind(Behind(g, Behind(w, a)), z) = Behind(Behind(g, w), Behind(a, z))
    BY <1>4, Regrouped
  <2> QED
    BY <1>2, <1>4, <1>5, <2>1 DEF Whole, Behind
<1> QED
  BY <1>2, <1>5, <1>7, <1>8 DEF Framed

\* What is left on the way when k parts have been taken.
LEMMA RestFields ==
  ASSUME NEW M, NEW d \in Directions(M), NEW k \in 0 .. Len(d.wire)
  PROVE  /\ Rest(d, k) \in Directions(M)
         /\ Rest(d, k).wire \in Seq(Pieces(M))
         /\ Rest(d, k).wire = SubSeq(d.wire, k + 1, Len(d.wire))
         /\ Len(Rest(d, k).wire) = Len(d.wire) - k
         /\ SubSeq(d.wire, 1, k) \in Seq(Pieces(M)) /\ Len(SubSeq(d.wire, 1, k)) = k
         /\ d.wire = Behind(SubSeq(d.wire, 1, k), Rest(d, k).wire)
         /\ Rest(d, k).tx = d.tx /\ Rest(d, k).got = d.got /\ Rest(d, k).msg = d.msg
         /\ Rest(d, k).sent = d.sent /\ Rest(d, k).received = d.received
         /\ Rest(d, k).lost = d.lost
<1>1. PICK w \in Seq(Pieces(M)) : w = d.wire
  BY Fields
<1> DEFINE z == SubSeq(w, k + 1, Len(w))
<1>2. /\ SubSeq(w, 1, k) \in Seq(Pieces(M)) /\ Len(SubSeq(w, 1, k)) = k
      /\ z \in Seq(Pieces(M)) /\ w = SubSeq(w, 1, k) \o z /\ Len(z) = Len(w) - k
  BY <1>1, CutAt, DropElements
<1>3. Rest(d, k) = [d EXCEPT !.wire = z]
  BY <1>1 DEF Rest, Directions
<1> HIDE DEF z
<1>4. [d EXCEPT !.wire = z] \in Directions(M)
  BY <1>2 DEF Directions
<1>5. /\ Rest(d, k).wire = z
      /\ Rest(d, k).tx = d.tx /\ Rest(d, k).got = d.got /\ Rest(d, k).msg = d.msg
      /\ Rest(d, k).sent = d.sent /\ Rest(d, k).received = d.received
      /\ Rest(d, k).lost = d.lost
  BY <1>3 DEF Directions
<1> QED
  BY <1>1, <1>2, <1>3, <1>4, <1>5 DEF Behind, z

\* recvMsg() keeps parts and messages what they are.
LEMMA ReturnedTyped ==
  ASSUME NEW M, NEW d \in Directions(M), NEW p \in Seq(Pieces(M)), Len(p) # 0
  PROVE  Returned(d, p) \in Directions(M)
<1>1. p[1] \in Pieces(M)
  <2>1. 1 \in 1 .. Len(p) /\ \A i \in 1 .. Len(p) : p[i] \in Pieces(M)
    BY Elements
  <2> QED
    BY <2>1
<1>2. p[1][1] \in M
  BY <1>1 DEF Pieces
<1>3. PICK m \in M : m = p[1][1]
  BY <1>2
<1>4. Append(d.received, m) \in Seq(M) /\ <<>> \in Seq(Pieces(M))
  BY Fields, AppendProperties
<1>5. [d EXCEPT !.lost = TRUE] \in Directions(M)
  BY DEF Directions
<1>6. [d EXCEPT !.got = <<>>, !.msg = m, !.received = Append(@, m)] \in Directions(M)
  BY <1>4 DEF Directions
<1> QED
  BY <1>3, <1>5, <1>6 DEF Returned

\* recvMsg() reads when parts are on the way and no message it has returned waits.
LEMMA ReceivedTyped ==
  ASSUME WireTypeOK, NEW M, NEW d \in Directions(M), NEW e \in Received(d)
  PROVE  e \in Directions(M) /\ d.wire # <<>> /\ d.msg = NoMsg
<1>1. d.wire # <<>> /\ d.msg = NoMsg /\ lab \in 1 .. 5
  BY WireAssumption DEF Received, WireTypeOK
<1>2. Len(d.wire) \in Nat \ {0} /\ d.wire \in Seq(Pieces(M)) /\ d.got \in Seq(Pieces(M))
  BY <1>1, Fields, EmptySeq
<1>3. ASSUME NEW k \in 1 .. Len(d.wire)
      PROVE  /\ Rest(d, k) \in Directions(M)
             /\ SubSeq(d.wire, 1, k) \in Seq(Pieces(M)) /\ Len(SubSeq(d.wire, 1, k)) # 0
  <2>1. k \in 0 .. Len(d.wire) /\ k # 0
    BY <1>2
  <2> QED
    BY <2>1, RestFields
<1>4. 1 \in 1 .. Len(d.wire)
  BY <1>2
<1>5. CASE lab = 1
  <2>1. e = Returned(Rest(d, 1), SubSeq(d.wire, 1, 1))
    BY <1>1, <1>5 DEF Received, RecvDatagram
  <2> QED
    BY <1>1, <1>3, <1>4, <2>1, ReturnedTyped
<1>6. CASE lab \in 2 .. 4
  <2>1. e \in RecvStruct(d)
    BY <1>1, <1>6 DEF Received
  <2>2. PICK k \in 1 .. Len(d.wire) :
          e = IF d.got # <<>> THEN [Rest(d, k) EXCEPT !.lost = TRUE]
              ELSE IF k = 1 THEN [Rest(d, k) EXCEPT !.got = SubSeq(d.wire, 1, k)]
              ELSE Returned(Rest(d, k), SubSeq(d.wire, 1, k))
    BY <2>1 DEF RecvStruct
  <2>3. PICK r \in Directions(M), p \in Seq(Pieces(M)) :
          r = Rest(d, k) /\ p = SubSeq(d.wire, 1, k) /\ Len(p) # 0
    BY <1>3
  <2>4. [r EXCEPT !.lost = TRUE] \in Directions(M) /\ [r EXCEPT !.got = p] \in Directions(M)
    BY DEF Directions
  <2> QED
    BY <1>1, <2>2, <2>3, <2>4, ReturnedTyped
<1>7. CASE lab = 5
  <2>1. d.wire[1] \in Pieces(M)
    BY <1>2, <1>4, Elements
  <2>2. PICK p \in Seq(Pieces(M)) : p = Append(d.got, d.wire[1]) /\ Len(p) # 0
    <3>1. PICK x \in Pieces(M), g \in Seq(Pieces(M)) : x = d.wire[1] /\ g = d.got
      BY <1>2, <2>1
    <3>2. Append(g, x) \in Seq(Pieces(M)) /\ Len(Append(g, x)) = Len(g) + 1 /\ Len(g) \in Nat
      BY AppendProperties, Elements
    <3>3. Len(Append(g, x)) # 0
      BY <3>2
    <3> QED
      BY <3>1, <3>2, <3>3
  <2>3. PICK r \in Directions(M) : r = Rest(d, 1)
    BY <1>3, <1>4
  <2>4. e = IF Last(p)[2] = Parts THEN Returned(r, p) ELSE [r EXCEPT !.got = p]
    BY <1>1, <1>7, <2>2, <2>3 DEF Received, RecvLine
  <2>5. [r EXCEPT !.got = p] \in Directions(M)
    BY DEF Directions
  <2> QED
    BY <1>1, <2>2, <2>4, <2>5, ReturnedTyped
<1> QED
  BY <1>1, <1>5, <1>6, <1>7

\* What has been read and then the parts taken off the way come first.
LEMMA ReadFirst ==
  ASSUME NEW M, NEW d \in Directions(M), NEW k \in 0 .. Len(d.wire)
  PROVE  Whole(d) = Behind(Behind(d.got, SubSeq(d.wire, 1, k)), Behind(Rest(d, k).wire, d.tx))
<1>1. PICK g \in Seq(Pieces(M)), y \in Seq(Pieces(M)), z \in Seq(Pieces(M)), t \in Seq(Pieces(M)) :
        g = d.got /\ y = SubSeq(d.wire, 1, k) /\ z = Rest(d, k).wire /\ t = d.tx
  BY Fields, RestFields
<1>2. d.wire = Behind(y, z)
  BY <1>1, RestFields
<1>3. Behind(Behind(g, Behind(y, z)), t) = Behind(Behind(g, y), Behind(z, t))
  BY Regrouped
<1> QED
  BY <1>1, <1>2, <1>3 DEF Whole

\* The parts a recvMsg() has read are those of the next message.
LEMMA PartsRead ==
  ASSUME NEW M, NEW p \in Seq(Pieces(M)), NEW x \in Seq(Pieces(M)), NEW s \in Seq(M),
         NEW r \in 0 .. Len(s), Spells(Behind(p, x), r, s), Len(p) \in 1 .. 3
  PROVE  /\ r + 1 <= Len(s)
         /\ PartsOf(p, s[r + 1])
         /\ Len(p) = 3 => Spells(x, r + 1, s)
<1>1. /\ p \o x \in Seq(Pieces(M)) /\ Len(p \o x) = Len(p) + Len(x)
      /\ \A i \in 1 .. Len(p) : (p \o x)[i] = p[i]
      /\ \A i \in 1 .. Len(x) : (p \o x)[Len(p) + i] = x[i]
  BY Joined
<1>2. PICK w \in Seq(Pieces(M)) :
        /\ w = Behind(p, x) /\ Len(w) = Len(p) + Len(x)
        /\ \A i \in 1 .. Len(p) : w[i] = p[i]
        /\ \A i \in 1 .. Len(x) : w[Len(p) + i] = x[i]
  BY <1>1 DEF Behind
<1>3. PICK n \in 1 .. 3 : n = Len(p)
  OBVIOUS
<1>4. Len(x) \in Nat
  BY Elements
<1>5. Len(w) = n + Len(x)
  BY <1>2, <1>3
<1>6. n <= Len(w)
  BY <1>4, <1>5
<1>7. Spells(w, r, s)
  BY <1>2
<1>8. r + 1 <= Len(s) /\ \A j \in 1 .. n : w[j] = <<s[r + 1], j>>
  BY <1>6, <1>7, SpellsBegins
<1>9. ASSUME n = 3
      PROVE  Spells(x, r + 1, s)
  <2>1. Len(w) = Len(x) + 3 /\ \A i \in 1 .. Len(x) : x[i] = w[3 + i]
    BY <1>2, <1>3, <1>4, <1>5, <1>9
  <2> QED
    BY <1>7, <2>1, SpellsLess
<1>10. PartsOf(p, s[r + 1])
  BY <1>2, <1>3, <1>8 DEF PartsOf
<1> QED
  BY <1>3, <1>8, <1>9, <1>10

\* recvMsg() that has read the parts of one message returns it.
LEMMA ReturnedMessage ==
  ASSUME NEW M, NEW d \in Directions(M), NEW p \in Seq(Pieces(M)), NEW m \in M,
         PartsOf(p, m)
  PROVE  /\ Returned(d, p).got = <<>> /\ Returned(d, p).msg = m
         /\ Returned(d, p).received = Append(d.received, m)
         /\ Returned(d, p).sent = d.sent /\ Returned(d, p).lost = d.lost
         /\ Returned(d, p).wire = d.wire /\ Returned(d, p).tx = d.tx
<1> USE DEF PartsOf
<1>1. p[1] = <<m, 1>> /\ p[1][1] = m /\ p[1][2] = 1
  <2>1. 1 \in 1 .. Len(p)
    OBVIOUS
  <2>2. p[1] = <<m, 1>>
    BY <2>1
  <2> QED
    BY <2>2
<1>2. ~ \E i \in 2 .. 3 : lab # 1 /\ Len(p) >= i /\ p[i] # <<m, i>>
  <2> SUFFICES ASSUME NEW i \in 2 .. 3, Len(p) >= i PROVE p[i] = <<m, i>>
    OBVIOUS
  <2>1. i \in 1 .. Len(p)
    OBVIOUS
  <2> QED
    BY <2>1
<1> QED
  BY <1>1, <1>2 DEF Returned, Directions

\* What recvMsg() returns is the next message, as long as recv() returns whole structs.
LEMMA ReceivedFramed ==
  ASSUME WireTypeOK, NEW M, NoMsg \notin M, NEW d \in Directions(M), Framed(d),
         NEW e \in Received(d), lab \in 2 .. 4 => Len(d.wire) - Len(e.wire) >= 3
  PROVE  /\ Framed(e) /\ e.sent = d.sent /\ Whole(d) # <<>> /\ d.msg = NoMsg
         /\ \/ e.received = d.received /\ e.msg = NoMsg /\ lab = 5
            \/ /\ Len(d.received) + 1 <= Len(d.sent)
               /\ e.msg = d.sent[Len(d.received) + 1] /\ e.msg \in M
               /\ e.received = Append(d.received, e.msg)
<1> DEFINE Taken(n, m) ==
             /\ n <= Len(d.sent) /\ m = d.sent[n]
             /\ e.sent = d.sent /\ e.got = <<>> /\ e.lost = d.lost
             /\ e.msg = m /\ e.received = Append(d.received, m)
<1>1. d.wire # <<>> /\ d.msg = NoMsg /\ lab \in 1 .. 5 /\ e \in Directions(M) /\ ~d.lost
  BY ReceivedTyped, WireAssumption DEF WireTypeOK, Framed
<1>2. /\ Len(d.wire) \in Nat \ {0} /\ d.wire \in Seq(Pieces(M)) /\ d.got \in Seq(Pieces(M))
      /\ Len(d.received) \in Nat /\ Len(d.sent) \in Nat /\ d.received \in Seq(M)
      /\ d.sent \in Seq(M) /\ d.tx \in Seq(Pieces(M))
  BY <1>1, Fields, EmptySeq
<1>3. Len(d.received) \in 0 .. Len(d.sent) /\ Begins(d.received, d.sent)
  BY <1>2 DEF Framed, Begins
<1>4. Whole(d) # <<>>
  BY <1>1, PartsOnTheWay
<1>5. PICK n \in Nat \ {0} : n = Len(d.received) + 1
  BY <1>2
<1>6. ASSUME NEW k \in 1 .. Len(d.wire), NEW p \in Seq(Pieces(M)),
             NEW m \in M, n <= Len(d.sent), m = d.sent[n], PartsOf(p, m),
             e = Returned(Rest(d, k), p)
      PROVE  Taken(n, m) /\ Whole(e) = Behind(Rest(d, k).wire, d.tx)
  <2>1. PICK o \in Directions(M) :
          /\ o = Rest(d, k) /\ o.tx = d.tx /\ o.sent = d.sent /\ o.received = d.received
          /\ o.lost = d.lost
    <3>1. k \in 0 .. Len(d.wire)
      BY <1>2
    <3> QED
      BY <3>1, RestFields
  <2>2. e = Returned(o, p) /\ PartsOf(p, m)
    BY <1>6, <2>1
  <2>3. /\ e.got = <<>> /\ e.msg = m /\ e.received = Append(d.received, m)
        /\ e.sent = d.sent /\ e.lost = d.lost /\ e.wire = o.wire /\ e.tx = d.tx
    BY <2>1, <2>2, ReturnedMessage
  <2>4. o.wire \in Seq(Pieces(M))
    BY Fields
  <2>5. Behind(<<>>, o.wire) = o.wire
    BY <2>4, ConcatEmptySeq DEF Behind
  <2>6. Whole(e) = Behind(o.wire, d.tx)
    BY <2>3, <2>5 DEF Whole
  <2> QED
    BY <1>6, <2>1, <2>3, <2>6
<1>7. ASSUME NEW m \in M, Taken(n, m)
      PROVE  /\ Begins(e.received, e.sent) /\ Len(e.received) = n
             /\ Len(e.received) # 0 /\ e.msg = e.received[Len(e.received)]
  <2>1. /\ Begins(Append(d.received, m), d.sent)
        /\ Len(Append(d.received, m)) = n /\ Append(d.received, m)[n] = m
    BY <1>2, <1>3, <1>5, <1>7, BeginsExtended
  <2> QED
    BY <1>5, <1>7, <2>1
<1>8. ASSUME lab # 1, NEW k \in 1 .. Len(d.wire), NEW p \in Seq(Pieces(M)), Len(p) = 3,
             p = Behind(d.got, SubSeq(d.wire, 1, k)), e = Returned(Rest(d, k), p)
      PROVE  Framed(e) /\ \E m \in M : Taken(n, m)
  <2>1. k \in 0 .. Len(d.wire)
    BY <1>2
  <2>2. PICK z \in Seq(Pieces(M)), u \in Seq(Pieces(M)) : z = Rest(d, k).wire /\ u = d.tx
    BY <1>2, <2>1, RestFields
  <2>3. PICK x \in Seq(Pieces(M)) : x = Behind(z, u)
    BY ConcatProperties DEF Behind
  <2>4. Whole(d) = Behind(p, x)
    BY <1>8, <2>1, <2>2, <2>3, ReadFirst
  <2>5. PICK r \in 0 .. Len(d.sent), s \in Seq(M) : r = Len(d.received) /\ s = d.sent /\ n = r + 1
    BY <1>2, <1>3, <1>5
  <2>6. Spells(Behind(p, x), r, s)
    BY <1>8, <2>4, <2>5 DEF Framed
  <2>7. r + 1 <= Len(s) /\ Spells(x, r + 1, s) /\ PartsOf(p, s[r + 1])
    <3>1. r \in 0 .. Len(s) /\ Len(p) \in 1 .. 3
      BY <1>8, <2>5
    <3> QED
      BY <1>8, <2>6, <3>1, PartsRead
  <2>8. PICK m \in M : m = s[n]
    <3>1. n \in 1 .. Len(s) /\ \A i \in 1 .. Len(s) : s[i] \in M
      BY <2>5, <2>7, Elements
    <3> QED
      BY <3>1
  <2>9. Taken(n, m) /\ Whole(e) = x
    <3>1. n <= Len(d.sent) /\ m = d.sent[n] /\ PartsOf(p, m)
      BY <2>5, <2>7, <2>8
    <3> QED
      BY <1>6, <1>8, <2>2, <2>3, <3>1
  <2>10. Len(e.got) = 0
    BY <2>9, EmptySeq
  <2>11. Begins(e.received, e.sent) /\ Len(e.received) = n
         /\ Len(e.received) # 0 /\ e.msg = e.received[Len(e.received)]
    BY <1>7, <2>9
  <2>12. Spells(Whole(e), Len(e.received), e.sent)
    BY <2>5, <2>7, <2>9, <2>11
  <2>13. ~e.lost
    BY <1>1, <2>9
  <2> HIDE DEF Taken
  <2>14. Framed(e)
    BY <1>1, <1>8, <2>10, <2>11, <2>12, <2>13 DEF Framed
  <2> QED
    BY <2>9, <2>14
<1>9. CASE lab = 1
  <2>1. e = Returned(Rest(d, 1), SubSeq(d.wire, 1, 1))
    BY <1>1, <1>9 DEF Received, RecvDatagram
  <2>2. 1 \in 0 .. Len(d.wire) /\ 1 \in 1 .. Len(d.wire)
    BY <1>2
  <2>3. PICK p \in Seq(Pieces(M)), z \in Seq(Pieces(M)), u \in Seq(Pieces(M)) :
          p = SubSeq(d.wire, 1, 1) /\ Len(p) = 1 /\ z = Rest(d, 1).wire /\ u = d.tx
    <3>1. /\ Rest(d, 1).wire \in Seq(Pieces(M))
          /\ SubSeq(d.wire, 1, 1) \in Seq(Pieces(M)) /\ Len(SubSeq(d.wire, 1, 1)) = 1
      BY <2>2, RestFields
    <3> QED
      BY <1>2, <3>1
  <2>4. PICK x \in Seq(Pieces(M)) : x = Behind(z, u)
    BY ConcatProperties DEF Behind
  <2>5. Behind(d.got, p) = p
    <3>1. d.got = <<>>
      BY <1>9 DEF Framed
    <3> QED
      BY <3>1, ConcatEmptySeq DEF Behind
  <2>6. Whole(d) = Behind(p, x)
    BY <2>2, <2>3, <2>4, <2>5, ReadFirst
  <2>7. Len(d.sent) = n /\ Whole(d) = <<<<d.sent[n], 1>>>>
    BY <1>4, <1>5, <1>9 DEF Framed
  <2>8. PICK m \in M : m = d.sent[n]
    <3>1. n \in 1 .. Len(d.sent) /\ \A i \in 1 .. Len(d.sent) : d.sent[i] \in M
      BY <1>2, <2>7, Elements
    <3> QED
      BY <3>1
  <2>9. x = <<>> /\ PartsOf(p, m)
    <3>1. /\ Len(p \o x) = Len(p) + Len(x)
          /\ \A i \in 1 .. Len(p) : (p \o x)[i] = p[i]
      BY Joined
    <3>2. PICK w \in Seq(Pieces(M)) :
            w = <<<<m, 1>>>> /\ Len(w) = Len(p) + Len(x) /\ \A i \in 1 .. Len(p) : w[i] = p[i]
      BY <2>6, <2>7, <2>8, <3>1, WholeParts DEF Behind
    <3>3. Len(w) = 1 /\ w[1] = <<m, 1>>
      BY <3>2
    <3>4. Len(x) = 0
      <4>1. Len(x) \in Nat /\ 1 = 1 + Len(x)
        BY <2>3, <3>2, <3>3, Elements
      <4> QED
        BY <4>1
    <3>5. p[1] = <<m, 1>>
      BY <2>3, <3>2, <3>3
    <3> QED
      BY <2>3, <3>4, <3>5, EmptySeq DEF PartsOf
  <2>10. Taken(n, m) /\ Whole(e) = <<>>
    <3>1. n <= Len(d.sent)
      BY <2>7
    <3> QED
      BY <1>6, <2>1, <2>2, <2>3, <2>4, <2>8, <2>9, <3>1
  <2>11. Begins(e.received, e.sent) /\ Len(e.received) = n
         /\ Len(e.received) # 0 /\ e.msg = e.received[Len(e.received)]
    BY <1>7, <2>10
  <2>12. ~e.lost /\ e.got = <<>>
    BY <1>1, <2>10
  <2>13. Framed(e)
    BY <1>9, <2>10, <2>11, <2>12 DEF Framed
  <2> QED
    BY <1>1, <1>4, <1>5, <2>10, <2>13
<1>10. CASE lab \in 2 .. 4
  <2>1. e \in RecvStruct(d) /\ d.got = <<>> /\ lab # 1 /\ Parts = 3
    <3>1. Len(d.got) \in Nat /\ Len(d.got) <= 0
      BY <1>2, <1>10, Elements DEF Framed
    <3> QED
      BY <1>1, <1>2, <1>10, <3>1, EmptySeq DEF Received, Parts
  <2>2. PICK k \in (1 .. Parts) \cap (1 .. Len(d.wire)) :
          e = IF k = 1 THEN [Rest(d, k) EXCEPT !.got = SubSeq(d.wire, 1, k)]
              ELSE Returned(Rest(d, k), SubSeq(d.wire, 1, k))
    BY <2>1 DEF RecvStruct
  <2>3. PICK o \in Directions(M), p \in Seq(Pieces(M)) :
          /\ o = Rest(d, k) /\ p = SubSeq(d.wire, 1, k) /\ Len(p) = k
          /\ Len(o.wire) = Len(d.wire) - k
    <3>1. k \in 0 .. Len(d.wire)
      BY <1>2, <2>2
    <3>2. /\ Rest(d, k) \in Directions(M) /\ Len(Rest(d, k).wire) = Len(d.wire) - k
          /\ SubSeq(d.wire, 1, k) \in Seq(Pieces(M)) /\ Len(SubSeq(d.wire, 1, k)) = k
      BY <3>1, RestFields
    <3> QED
      BY <3>2
  <2>4. e.wire = o.wire
    BY <2>2, <2>3 DEF Returned, Directions
  <2>5. k = 3 /\ k # 1
    <3>1. k \in 1 .. 3 /\ Len(d.wire) \in Nat
      BY <1>2, <2>1, <2>2
    <3>2. Len(d.wire) - (Len(d.wire) - k) >= 3
      BY <1>10, <2>3, <2>4
    <3> QED
      BY <3>1, <3>2
  <2>6. Behind(d.got, SubSeq(d.wire, 1, k)) = p
    BY <2>1, <2>3, ConcatEmptySeq DEF Behind
  <2>7. e = Returned(Rest(d, k), p) /\ Len(p) = 3
    BY <2>2, <2>3, <2>5
  <2>8. k \in 1 .. Len(d.wire)
    BY <2>2
  <2>9. Framed(e) /\ \E m \in M : Taken(n, m)
    BY <1>8, <2>1, <2>6, <2>7, <2>8
  <2> QED
    BY <1>1, <1>4, <1>5, <2>9
<1>11. CASE lab = 5
  <2>1. 1 \in 0 .. Len(d.wire) /\ 1 \in 1 .. Len(d.wire)
    BY <1>2
  <2>2. PICK y \in Seq(Pieces(M)), z \in Seq(Pieces(M)), u \in Seq(Pieces(M)),
             o \in Directions(M), g \in Seq(Pieces(M)) :
          /\ y = SubSeq(d.wire, 1, 1) /\ Len(y) = 1 /\ z = o.wire /\ u = d.tx /\ g = d.got
          /\ o = Rest(d, 1) /\ d.wire = Behind(y, z) /\ o.tx = d.tx /\ o.msg = d.msg
          /\ o.sent = d.sent /\ o.received = d.received /\ o.lost = d.lost
    <3>1. /\ Rest(d, 1) \in Directions(M) /\ Rest(d, 1).wire \in Seq(Pieces(M))
          /\ SubSeq(d.wire, 1, 1) \in Seq(Pieces(M)) /\ Len(SubSeq(d.wire, 1, 1)) = 1
          /\ d.wire = Behind(SubSeq(d.wire, 1, 1), Rest(d, 1).wire)
          /\ Rest(d, 1).tx = d.tx /\ Rest(d, 1).msg = d.msg
          /\ Rest(d, 1).sent = d.sent /\ Rest(d, 1).received = d.received
          /\ Rest(d, 1).lost = d.lost
      BY <2>1, RestFields
    <3> QED
      BY <1>2, <3>1
  <2>3. PICK p \in Seq(Pieces(M)) :
          p = Behind(g, y) /\ p = Append(g, d.wire[1]) /\ Len(p) = Len(g) + 1 /\ Len(g) \in Nat
    <3>1. PICK c \in Pieces(M) : c = y[1]
      BY <2>2, OneElement
    <3>2. y = <<c>>
      BY <2>2, <3>1, OneElement
    <3>3. d.wire[1] = c
      <4>1. \A i \in 1 .. Len(y) : (y \o z)[i] = y[i]
        BY Joined
      <4> QED
        BY <2>2, <3>1, <4>1 DEF Behind
    <3>4. /\ Append(g, c) = g \o <<c>> /\ Append(g, c) \in Seq(Pieces(M))
          /\ Len(Append(g, c)) = Len(g) + 1 /\ Len(g) \in Nat
      BY AppendIsConcat, AppendProperties, Elements
    <3> QED
      BY <3>2, <3>3, <3>4 DEF Behind
  <2>4. e = IF Last(p)[2] = 3 THEN Returned(o, p) ELSE [o EXCEPT !.got = p]
    <3>1. Parts = 3
      BY <1>11 DEF Parts
    <3>2. e = IF Last(p)[2] = Parts THEN Returned(o, p) ELSE [o EXCEPT !.got = p]
      <4>1. o = Rest(d, 1) /\ p = Append(d.got, d.wire[1])
        BY <2>2, <2>3
      <4> QED
        BY <1>1, <1>11, <4>1 DEF Received, RecvLine
    <3> QED
      BY <3>1, <3>2
  <2>5. PICK x \in Seq(Pieces(M)) : x = Behind(z, u)
    BY ConcatProperties DEF Behind
  <2>6. Whole(d) = Behind(p, x)
    BY <2>1, <2>2, <2>3, <2>5, ReadFirst
  <2>7. PICK r \in 0 .. Len(d.sent), s \in Seq(M) : r = Len(d.received) /\ s = d.sent
    BY <1>2, <1>3
  <2>8. Spells(Behind(p, x), r, s) /\ Len(p) \in 1 .. 3
    <3>1. Len(g) <= 2
      BY <1>11, <2>2 DEF Framed
    <3>2. Len(p) \in 1 .. 3
      BY <2>3, <3>1
    <3> QED
      BY <1>11, <2>6, <2>7, <3>2 DEF Framed
  <2>9. PartsOf(p, s[r + 1])
    BY <2>7, <2>8, PartsRead
  <2>10. Last(p)[2] = Len(p)
    <3>1. Len(p) \in 1 .. Len(p)
      <4>1. \A i \in 1 .. 3 : i \in 1 .. i
        OBVIOUS
      <4> QED
        BY <2>8, <4>1, Zenon
    <3>2. p[Len(p)] = <<s[r + 1], Len(p)>>
      BY <2>9, <3>1 DEF PartsOf
    <3> QED
      BY <3>2 DEF Last
  <2>11. CASE Len(p) = 3
    <3>1. e = Returned(Rest(d, 1), p) /\ p = Behind(d.got, SubSeq(d.wire, 1, 1))
      BY <2>2, <2>3, <2>4, <2>10, <2>11
    <3>2. Framed(e) /\ \E m \in M : Taken(n, m)
      BY <1>8, <1>11, <2>1, <2>11, <3>1
    <3> QED
      BY <1>1, <1>4, <1>5, <3>2
  <2>12. CASE Len(p) # 3
    <3>1. e = [o EXCEPT !.got = p]
      BY <2>4, <2>10, <2>12
    <3>2. /\ e.got = p /\ e.wire = z /\ e.tx = u /\ e.msg = d.msg
          /\ e.sent = d.sent /\ e.received = d.received /\ e.lost = d.lost
      BY <2>2, <3>1 DEF Directions
    <3>3. Whole(e) = Whole(d)
      <4>1. Behind(Behind(p, z), u) = Behind(p, Behind(z, u))
        BY Grouped
      <4> QED
        BY <2>5, <2>6, <3>2, <4>1 DEF Whole
    <3>4. Len(e.got) <= 2
      <4>1. \A i \in 1 .. 3 : i # 3 => i <= 2
        OBVIOUS
      <4> QED
        BY <2>8, <2>12, <3>2, <4>1, Zenon
    <3>5. Framed(e)
      BY <1>1, <1>11, <3>2, <3>3, <3>4 DEF Framed
    <3> QED
      BY <1>1, <1>4, <1>11, <3>2, <3>5
  <2> QED
    BY <2>11, <2>12
<1> QED
  BY <1>1, <1>9, <1>10, <1>11

\* A lost datagram leaves nothing on the way.
LEMMA LostFramed ==
  ASSUME NEW M, NEW d \in Directions(M), d.wire # <<>>, NEW e, e = [d EXCEPT !.wire = Tail(@)]
  PROVE  /\ e \in Directions(M) /\ Whole(d) # <<>>
         /\ lab = 1 /\ Framed(d) => Framed(e)
         /\ e.sent = d.sent /\ e.received = d.received /\ e.msg = d.msg
<1>1. d.wire \in Seq(Pieces(M)) /\ Len(d.got) \in Nat /\ Len(d.tx) \in Nat
  BY Fields
<1>2. Len(d.wire) \in Nat \ {0} /\ Whole(d) # <<>>
  BY PartsOnTheWay
<1>3. PICK w \in Seq(Pieces(M)) : w = Tail(d.wire) /\ Len(w) = Len(d.wire) - 1
  BY <1>1, HeadTailProperties
<1>4. /\ e \in Directions(M)
      /\ e.wire = w /\ e.tx = d.tx /\ e.got = d.got /\ e.msg = d.msg
      /\ e.sent = d.sent /\ e.received = d.received /\ e.lost = d.lost
  BY <1>3 DEF Directions
<1>5. ASSUME lab = 1, Framed(d)
      PROVE  Framed(e)
  <2>1. Len(Whole(d)) = 1
    <3>1. PICK x : Whole(d) = <<x>>
      BY <1>2, <1>5 DEF Framed
    <3> QED
      BY <3>1
  <2>2. Len(d.got) + Len(d.wire) + Len(d.tx) = 1
    BY <2>1, WholeLength
  <2>3. Len(d.got) + Len(w) + Len(d.tx) = 0
    <3>1. \A i, k \in Nat : \A j \in Nat \ {0} : i + j + k = 1 => i + (j - 1) + k = 0
      OBVIOUS
    <3>2. Len(d.got) + (Len(d.wire) - 1) + Len(d.tx) = 0
      BY <1>1, <1>2, <2>2, <3>1, Zenon
    <3> QED
      BY <1>3, <3>2, Zenon
  <2>4. Len(Whole(e)) = 0
    <3>1. Len(Whole(e)) = Len(e.got) + Len(e.wire) + Len(e.tx)
      BY <1>4, WholeLength
    <3> QED
      BY <1>4, <2>3, <3>1
  <2>5. Whole(e) = <<>>
    BY <1>4, <2>4, WholeParts, EmptySeq
  <2> QED
    BY <1>4, <1>5, <2>5 DEF Framed
<1> QED
  BY <1>2, <1>4, <1>5

\* A message that is dealt with no longer waits.
LEMMA TakenFramed ==
  ASSUME NEW M, NEW d \in Directions(M), NEW e, e = [d EXCEPT !.msg = NoMsg]
  PROVE  /\ e \in Directions(M) /\ Whole(e) = Whole(d) /\ e.msg = NoMsg
         /\ Framed(d) => Framed(e)
         /\ e.sent = d.sent /\ e.received = d.received
<1>1. e \in Directions(M)
  BY DEF Directions
<1>2. /\ e.wire = d.wire /\ e.tx = d.tx /\ e.got = d.got /\ e.msg = NoMsg
      /\ e.sent = d.sent /\ e.received = d.received /\ e.lost = d.lost
  BY DEF Directions
<1>3. Whole(e) = Whole(d)
  BY <1>2 DEF Whole
<1> QED
  BY <1>1, <1>2, <1>3 DEF Framed

------------------------------------------------------------------------------
(* Types *)

\* No message is the absence of one; clients and servers send messages of theirs.
LEMMA WireMessages ==
  /\ NoMsg \notin Asked /\ NoMsg \notin Told
  /\ \A i \in Nat : /\ Message("HELLO", i) \in Asked /\ Message("TEXT", i) \in Asked
                    /\ Message("PING", i) \in Asked /\ Message("TEXT", i) \in Told
  /\ \A m \in Asked : Message(AnswerType(m), m.id) \in Told
<1>1. NoMsg \notin Asked /\ NoMsg \notin Told
  BY WireAssumption DEF Messages, Asked, Told
<1>2. ASSUME NEW m \in Asked
      PROVE  Message(AnswerType(m), m.id) \in Told
  <2>1. m.id \in Nat /\ m.type \in {"HELLO", "TEXT", "PING"}
    BY DEF Asked
  <2>2. AnswerType(m) \in {"WELCOME", "PONG", "ECHO"}
    BY <2>1 DEF AnswerType
  <2> QED
    BY <2>1, <2>2 DEF Message, Told
<1> QED
  BY <1>1, <1>2 DEF Message, Asked, Told

\* The types hold at the start.
LEMMA WireTypeInit == WireInit => WireTypeOK
<1>1. <<>> \in Seq(Pieces(Asked)) /\ <<>> \in Seq(Pieces(Told)) /\ <<>> \in Seq(Asked) /\ <<>> \in Seq(Told)
  OBVIOUS
<1>2. Quiet \in Directions(Asked) /\ Quiet \in Directions(Told)
  BY <1>1 DEF Quiet, Directions
<1> SUFFICES ASSUME WireInit PROVE WireTypeOK
  OBVIOUS
<1>3. lab \in Labs /\ clientMain \in {"hello", "prompt", "await", "closed"}
  BY DEF WireInit
<1>4. up = Quiet /\ down = Quiet /\ typed \in Nat /\ texts \in Nat /\ short \in BOOLEAN
  BY DEF WireInit
<1> QED
  BY <1>2, <1>3, <1>4, Zenon DEF WireTypeOK

\* Clients send what clients send, servers what servers send.
LEMMA WireTypeStep ==
  ASSUME WireTypeOK, WireNext
  PROVE  WireTypeOK'
<1> USE WireTypeOK DEF WireTypeOK
<1>1. CASE ClientWrites
  <2>1. up' \in Directions(Asked)
    BY <1>1, WrittenFramed DEF ClientWrites
  <2> QED
    BY <1>1, <2>1 DEF ClientWrites
<1>2. CASE ServerWrites
  <2>1. down' \in Directions(Told)
    BY <1>2, WrittenFramed DEF ServerWrites
  <2> QED
    BY <1>2, <2>1 DEF ServerWrites
<1>3. CASE WriteFails
  BY <1>3 DEF WriteFails
<1>4. CASE LoseUp
  <2>1. up' \in Directions(Asked)
    BY <1>4, LostFramed DEF LoseUp
  <2> QED
    BY <1>4, <2>1 DEF LoseUp
<1>5. CASE LoseDown
  <2>1. down' \in Directions(Told)
    BY <1>5, LostFramed DEF LoseDown
  <2> QED
    BY <1>5, <2>1 DEF LoseDown
<1>6. CASE ClientRecv
  <2>1. down' \in Directions(Told)
    BY <1>6, ReceivedTyped DEF ClientRecv
  <2>2. short' \in BOOLEAN
    BY <1>6 DEF ClientRecv, Short
  <2> QED
    BY <1>6, <2>1, <2>2 DEF ClientRecv
<1>7. CASE ServerRecv
  <2>1. up' \in Directions(Asked)
    BY <1>7, ReceivedTyped DEF ServerRecv
  <2>2. short' \in BOOLEAN
    BY <1>7 DEF ServerRecv, Short
  <2> QED
    BY <1>7, <2>1, <2>2 DEF ServerRecv
<1>8. CASE ClientHello
  <2>1. up' \in Directions(Asked)
    BY <1>8, WireMessages, BeganFields DEF ClientHello
  <2> QED
    BY <1>8, <2>1 DEF ClientHello
<1>9. CASE TypeText
  <2>1. typed + 1 \in Nat
    OBVIOUS
  <2>2. up' \in Directions(Asked)
    BY <1>9, <2>1, WireMessages, BeganFields DEF TypeText
  <2> QED
    BY <1>9, <2>1, <2>2 DEF TypeText
<1>10. CASE TypePing
  <2>1. typed + 1 \in Nat
    OBVIOUS
  <2>2. up' \in Directions(Asked)
    BY <1>10, <2>1, WireMessages, BeganFields DEF TypePing
  <2> QED
    BY <1>10, <2>1, <2>2 DEF TypePing
<1>11. CASE ClientTakes
  <2>1. down' \in Directions(Told)
    BY <1>11, TakenFramed DEF ClientTakes
  <2> QED
    BY <1>11, <2>1 DEF ClientTakes
<1>12. CASE ClientCloses
  BY <1>12 DEF ClientCloses
<1>13. CASE ServerHandles
  <2>1. up' \in Directions(Asked)
    <3>1. up' = [up EXCEPT !.msg = NoMsg]
      BY <1>13 DEF ServerHandles
    <3> QED
      BY <3>1, TakenFramed
  <2>2. up.msg \in Asked
    BY <1>13, Fields DEF ServerHandles
  <2>3. down' \in Directions(Told)
    <3>1. down' = down \/ down' \in Began(down, Message(AnswerType(up.msg), up.msg.id), TRUE)
      BY <1>13 DEF ServerHandles
    <3>2. PICK m \in Told : m = Message(AnswerType(up.msg), up.msg.id)
      BY <2>2, WireMessages
    <3> QED
      BY <3>1, <3>2, BeganFields
  <2> QED
    BY <1>13, <2>1, <2>3 DEF ServerHandles
<1>14. CASE OtherWrites
  <2>1. texts + 1 \in Nat
    OBVIOUS
  <2>2. down' \in Directions(Told)
    BY <1>14, <2>1, WireMessages, BeganFields DEF OtherWrites
  <2> QED
    BY <1>14, <2>1, <2>2 DEF OtherWrites
<1>15. CASE ServerEnds
  BY <1>15 DEF ServerEnds
<1> QED
  BY <1>1, <1>2, <1>3, <1>4, <1>5, <1>6, <1>7, <1>8, <1>9, <1>10, <1>11, <1>12, <1>13, <1>14,
     <1>15 DEF WireNext, ClientProceeds, ServerProceeds

------------------------------------------------------------------------------
(* Framing *)

\* Received messages have been sent; the one that waits is the first not yet dealt with.
LEMMA DoneMessages ==
  ASSUME NEW M, NEW d \in Directions(M), Framed(d)
  PROVE  /\ Len(d.received) \in Nat /\ Len(d.sent) \in Nat /\ Len(d.received) <= Len(d.sent)
         /\ Done(d) \in Nat
         /\ d.msg = NoMsg => Done(d) = Len(d.received)
         /\ d.msg # NoMsg => /\ Done(d) + 1 = Len(d.received) /\ Done(d) + 1 <= Len(d.sent)
                             /\ d.msg = d.sent[Done(d) + 1]
<1>1. Len(d.received) \in Nat /\ Len(d.sent) \in Nat
  BY Fields
<1>2. Begins(d.received, d.sent)
  BY DEF Framed
<1>3. Len(d.received) <= Len(d.sent)
  BY <1>2 DEF Begins
<1>4. CASE d.msg = NoMsg
  BY <1>1, <1>3, <1>4 DEF Done
<1>5. CASE d.msg # NoMsg
  <2>1. Len(d.received) # 0 /\ d.msg = d.received[Len(d.received)]
    BY <1>5 DEF Framed
  <2>2. Done(d) = Len(d.received) - 1
    BY <1>5 DEF Done
  <2>3. Done(d) \in Nat /\ Done(d) + 1 = Len(d.received) /\ Done(d) + 1 <= Len(d.sent)
    BY <1>1, <1>3, <2>1, <2>2
  <2>4. Len(d.received) \in 1 .. Len(d.received)
    BY <1>1, <2>1
  <2>5. d.msg = d.sent[Len(d.received)]
    BY <1>2, <2>1, <2>4 DEF Begins
  <2> QED
    BY <1>1, <1>3, <1>5, <2>3, <2>5
<1> QED
  BY <1>4, <1>5

\* When all messages have been received no parts are left.
LEMMA CaughtWhole ==
  ASSUME NEW M, NEW d \in Directions(M), Framed(d), Caught(d)
  PROVE  Whole(d) = <<>>
<1>1. Len(d.received) \in Nat /\ Len(d.sent) = Len(d.received)
  BY Fields DEF Caught
<1>2. CASE lab = 1
  <2>1. Len(d.sent) # Len(d.received) + 1
    BY <1>1
  <2> QED
    BY <1>2, <2>1 DEF Framed
<1>3. CASE lab # 1
  <2>1. Len(Whole(d)) = 3 * (Len(d.sent) - Len(d.received))
    BY <1>3 DEF Framed, Spells
  <2>2. Len(Whole(d)) = 0
    BY <1>1, <2>1
  <2> QED
    BY <2>2, WholeParts, EmptySeq
<1> QED
  BY <1>2, <1>3

\* In lab 1 the client sends and the server answers when nothing is on the way.
LEMMA QuietWhenIdle ==
  ASSUME WireInv, ~short, lab = 1, clientMain # "await"
  PROVE  Whole(up) = <<>> /\ Caught(up)
<1>1. Framed(up) /\ up \in Directions(Asked) /\ Answered(1, up, Len(up.sent))
  BY DEF WireInv, WireTypeOK, FramedOK, Conversation, Talk, Idle
<1>2. /\ Len(up.received) \in Nat /\ Len(up.sent) \in Nat /\ Len(up.received) <= Len(up.sent)
      /\ Done(up) \in Nat
      /\ up.msg = NoMsg => Done(up) = Len(up.received)
      /\ up.msg # NoMsg => Done(up) + 1 = Len(up.received)
  BY <1>1, DoneMessages
<1>3. Done(up) + 1 > Len(up.sent)
  <2>1. Len(up.sent) \notin Done(up) + 1 .. Len(up.sent)
    BY <1>1 DEF Answered
  <2> QED
    BY <1>2, <2>1
<1>4. Len(up.received) = Len(up.sent)
  BY <1>2, <1>3
<1> QED
  BY <1>1, <1>4, CaughtWhole DEF Caught

\* The server of lab 1, and that of lab 2 with a request, handles the last message of a
\* client that waits.
LEMMA QuietWhenAsked ==
  ASSUME WireInv, ~short, lab \in 1 .. 2, up.msg # NoMsg
  PROVE  /\ lab = 1 \/ up.msg.type # "TEXT" => clientMain = "await" /\ Done(up) + 1 = Len(up.sent)
         /\ lab = 1 => Whole(down) = <<>> /\ Caught(down)
<1>1. Framed(up) /\ up \in Directions(Asked)
  BY DEF WireInv, WireTypeOK, FramedOK
<1>2. /\ Len(up.sent) \in Nat /\ Done(up) \in Nat
      /\ Done(up) + 1 <= Len(up.sent) /\ up.msg = up.sent[Done(up) + 1]
  BY <1>1, DoneMessages
<1>3. \A n \in Nat : Done(up) + 1 <= n => Done(up) + 1 \in Done(up) + 1 .. n
  BY <1>2
<1>4. ASSUME lab = 1 \/ up.msg.type # "TEXT"
      PROVE  clientMain = "await" /\ Done(up) + 1 = Len(up.sent)
  <2>1. clientMain = "await"
    <3>1. ~Answered(lab, up, Len(up.sent))
      BY <1>2, <1>3, <1>4 DEF Answered
    <3> QED
      BY <3>1 DEF WireInv, Conversation, Talk, Idle
  <2>2. Answered(lab, up, Len(up.sent) - 1) /\ Len(up.sent) # 0
    BY <2>1 DEF WireInv, Conversation, Talk, Waiting
  <2>3. ~(Done(up) + 1 <= Len(up.sent) - 1)
    <3>1. Len(up.sent) - 1 \in Nat
      BY <1>2, <2>2
    <3> QED
      BY <1>2, <1>3, <1>4, <2>2, <3>1 DEF Answered
  <2> QED
    BY <1>2, <2>1, <2>3
<1>5. ASSUME lab = 1
      PROVE  Whole(down) = <<>> /\ Caught(down)
  <2>1. Done(up) < Len(up.sent) /\ clientMain = "await"
    BY <1>2, <1>4, <1>5
  <2> QED
    BY <2>1 DEF WireInv, Conversation, Talk, Waiting, Silent
<1> QED
  BY <1>4, <1>5

\* As long as no recv() has returned less than a struct, what is read is framed.
LEMMA ReadWhole ==
  ASSUME WireTypeOK, NEW M, NoMsg \notin M, NEW d \in Directions(M), ~short => Framed(d),
         NEW e \in Received(d), Short(d, e), ~short'
  PROVE  /\ ~short /\ Framed(d) /\ Framed(e)
         /\ e.sent = d.sent /\ Whole(d) # <<>> /\ d.msg = NoMsg
         /\ \/ e.received = d.received /\ e.msg = NoMsg /\ lab = 5
            \/ /\ Len(d.received) + 1 <= Len(d.sent)
               /\ e.msg = d.sent[Len(d.received) + 1] /\ e.msg \in M
               /\ e.received = Append(d.received, e.msg)
<1>1. ~short /\ ~(lab \in 2 .. 4 /\ Len(d.wire) - Len(e.wire) < Parts)
  BY DEF Short
<1>2. Len(d.wire) \in Nat /\ Len(e.wire) \in Nat
  BY ReceivedTyped, Fields
<1>3. lab \in 2 .. 4 => Len(d.wire) - Len(e.wire) >= 3
  <2> SUFFICES ASSUME lab \in 2 .. 4 PROVE Len(d.wire) - Len(e.wire) >= 3
    OBVIOUS
  <2>1. Parts = 3
    BY DEF Parts
  <2>2. ~(Len(d.wire) - Len(e.wire) < 3)
    BY <1>1, <2>1, Zenon
  <2>3. \A i, j \in Nat : ~(i - j < 3) => i - j >= 3
    OBVIOUS
  <2> QED
    BY <1>2, <2>2, <2>3, Zenon
<1> QED
  BY <1>1, <1>3, ReceivedFramed

\* The program stays the same, and what recv() has once returned is not undone.
LEMMA WireFlags ==
  ASSUME WireNext, ~short'
  PROVE  lab' = lab /\ ~short
<1>1. lab' = lab
  BY DEF WireNext, ClientProceeds, ServerProceeds, ClientWrites, ClientRecv, ClientTakes,
     ClientHello, ServerWrites, WriteFails, ServerRecv, ServerHandles, ServerEnds, TypeText,
     TypePing, ClientCloses, OtherWrites, LoseUp, LoseDown
<1>2. UNCHANGED short \/ Short(down, down') \/ Short(up, up')
  BY DEF WireNext, ClientProceeds, ServerProceeds, ClientWrites, ClientRecv, ClientTakes,
     ClientHello, ServerWrites, WriteFails, ServerRecv, ServerHandles, ServerEnds, TypeText,
     TypePing, ClientCloses, OtherWrites, LoseUp, LoseDown
<1>3. UNCHANGED short => ~short
  OBVIOUS
<1> QED
  BY <1>1, <1>2, <1>3, Zenon DEF Short

\* Every step leaves the boundaries where the readers take them to be.
LEMMA WireFramedStep ==
  ASSUME WireInv, WireNext
  PROVE  FramedOK'
<1> SUFFICES ASSUME ~short' PROVE (Framed(up) /\ Framed(down))'
  BY DEF FramedOK
<1>1. /\ WireTypeOK /\ up \in Directions(Asked) /\ down \in Directions(Told)
      /\ typed \in Nat /\ texts \in Nat
      /\ ~short => Framed(up) /\ Framed(down)
  BY DEF WireInv, WireTypeOK, FramedOK
<1>2. lab' = lab /\ ~short
  BY WireFlags
<1> SUFFICES Framed(up') /\ Framed(down')
  BY <1>2 DEF Framed
<1>3. Framed(up) /\ Framed(down)
  BY <1>1, <1>2
<1>4. CASE ClientWrites
  <2>1. up' \in Written(up) /\ down' = down
    BY <1>4 DEF ClientWrites
  <2> QED
    BY <1>1, <1>3, <2>1, WrittenFramed
<1>5. CASE ServerWrites
  <2>1. down' \in Written(down) /\ up' = up
    BY <1>5 DEF ServerWrites
  <2> QED
    BY <1>1, <1>3, <2>1, WrittenFramed
<1>6. CASE WriteFails \/ ClientCloses \/ ServerEnds
  BY <1>3, <1>6 DEF WriteFails, ClientCloses, ServerEnds
<1>7. CASE LoseUp
  <2>1. lab = 1 /\ up.wire # <<>> /\ up' = [up EXCEPT !.wire = Tail(@)] /\ down' = down
    BY <1>7 DEF LoseUp
  <2> QED
    BY <1>1, <1>3, <2>1, LostFramed
<1>8. CASE LoseDown
  <2>1. lab = 1 /\ down.wire # <<>> /\ down' = [down EXCEPT !.wire = Tail(@)] /\ up' = up
    BY <1>8 DEF LoseDown
  <2> QED
    BY <1>1, <1>3, <2>1, LostFramed
<1>9. CASE ClientRecv
  <2>1. down' \in Received(down) /\ Short(down, down') /\ up' = up
    BY <1>9 DEF ClientRecv
  <2> QED
    BY <1>1, <1>3, <2>1, WireMessages, ReadWhole
<1>10. CASE ServerRecv
  <2>1. up' \in Received(up) /\ Short(up, up') /\ down' = down
    BY <1>10 DEF ServerRecv
  <2> QED
    BY <1>1, <1>3, <2>1, WireMessages, ReadWhole
<1>11. CASE ClientHello \/ TypeText \/ TypePing
  <2>1. down' = down /\ clientMain # "await"
    BY <1>11 DEF ClientHello, TypeText, TypePing
  <2>2. PICK m \in Asked : up' \in Began(up, m, FALSE)
    <3>1. CASE ClientHello
      BY <3>1, WireMessages DEF ClientHello
    <3>2. CASE TypeText \/ TypePing
      <4>1. typed + 1 \in Nat
        BY <1>1
      <4> QED
        BY <3>2, <4>1, WireMessages DEF TypeText, TypePing
    <3> QED
      BY <1>11, <3>1, <3>2
  <2>3. lab = 1 => Whole(up) = <<>> /\ Caught(up)
    BY <1>2, <2>1, QuietWhenIdle
  <2>4. Framed(up')
    BY <1>1, <1>3, <2>2, <2>3, BeganFramed
  <2> QED
    BY <1>3, <2>1, <2>4
<1>12. CASE ClientTakes
  <2>1. down' = [down EXCEPT !.msg = NoMsg] /\ up' = up
    BY <1>12 DEF ClientTakes
  <2> QED
    BY <1>1, <1>3, <2>1, TakenFramed
<1>13. CASE ServerHandles
  <2>1. /\ up' = [up EXCEPT !.msg = NoMsg] /\ up.msg # NoMsg
        /\ down' = down \/ down' \in Began(down, Message(AnswerType(up.msg), up.msg.id), TRUE)
    BY <1>13 DEF ServerHandles
  <2>2. Framed(up')
    BY <1>1, <1>3, <2>1, TakenFramed
  <2>3. PICK m \in Told : m = Message(AnswerType(up.msg), up.msg.id)
    <3>1. up.msg \in Asked
      BY <1>1, <2>1, Fields
    <3> QED
      BY <3>1, WireMessages
  <2>4. lab = 1 => Whole(down) = <<>> /\ Caught(down)
    BY <1>2, <2>1, QuietWhenAsked
  <2>5. Framed(down')
    BY <1>1, <1>3, <2>1, <2>3, <2>4, BeganFramed
  <2> QED
    BY <2>2, <2>5
<1>14. CASE OtherWrites
  <2>1. /\ lab # 1 /\ up' = up
        /\ down' \in Began(down, Message("TEXT", texts + 1), FALSE)
    <3>1. 1 \notin 3 .. 5
      OBVIOUS
    <3> QED
      BY <1>14, <3>1, Zenon DEF OtherWrites
  <2>2. PICK m \in Told : m = Message("TEXT", texts + 1)
    <3>1. texts + 1 \in Nat
      BY <1>1
    <3> QED
      BY <3>1, WireMessages
  <2> QED
    BY <1>1, <1>3, <2>1, <2>2, BeganFramed
<1> QED
  BY <1>4, <1>5, <1>6, <1>7, <1>8, <1>9, <1>10, <1>11, <1>12, <1>13, <1>14
     DEF WireNext, ClientProceeds, ServerProceeds

------------------------------------------------------------------------------
(* Requests and answers *)

\* Steps that send and deal with nothing.
LEMMA TalkKept ==
  ASSUME NEW l, NEW c, NEW u, NEW d, NEW s, Talk(l, c, u, d, s),
         NEW k, k = "await" <=> c = "await",
         NEW v, v.sent = u.sent, Done(v) = Done(u),
         NEW e, e.sent = d.sent, e.received = d.received, e.msg = d.msg,
         Silent(d) => Silent(e)
  PROVE  Talk(l, k, v, e, s)
<1>1. TextsShown(l, v, s)
  BY DEF Talk, TextsShown
<1>2. \A n : Answered(l, u, n) => Answered(l, v, n)
  BY DEF Answered
<1>3. Caught(d) <=> Caught(e)
  BY DEF Caught
<1>4. Waiting(l, u, d) => Waiting(l, v, e)
  BY <1>2, <1>3 DEF Waiting
<1>5. Idle(l, u, d) => Idle(l, v, e)
  BY <1>2, <1>3 DEF Idle
<1> QED
  BY <1>1, <1>4, <1>5 DEF Talk

\* The client sends a message, and waits for the answer if there will be one.
LEMMA TalkAsked ==
  ASSUME NEW l, NEW c, NEW u, NEW d, NEW s, Talk(l, c, u, d, s), c # "await",
         NEW M, u.sent \in Seq(M), NEW m \in M, Done(u) \in 0 .. Len(u.sent),
         NEW k, k # "await" => l = 2 /\ m.type = "TEXT",
         k = "await" /\ l = 2 => m.type # "TEXT",
         NEW v, v.sent = Append(u.sent, m), Done(v) = Done(u)
  PROVE  Talk(l, k, v, d, s)
<1>1. PICK f \in Seq(M), g \in Seq(M) : f = u.sent /\ g = v.sent /\ g = Append(f, m)
  BY AppendProperties
<1>2. /\ Len(g) = Len(f) + 1 /\ g[Len(f) + 1] = m /\ Len(f) \in Nat
      /\ \A i \in 1 .. Len(f) : g[i] = f[i]
  BY <1>1, AppendProperties, Elements
<1>3. PICK n \in Nat, a \in Nat : n = Len(f) /\ a = Done(u) /\ a = Done(v) /\ a <= n
  BY <1>1, <1>2
<1>4. Idle(l, u, d) /\ TextsShown(l, u, s)
  BY DEF Talk
<1>5. \A i \in a + 1 .. n : l = 2 /\ f[i].type = "TEXT"
  BY <1>1, <1>3, <1>4 DEF Idle, Answered
<1>6. /\ \A i \in a + 1 .. n : i \in 1 .. n
      /\ \A i \in 1 .. a : i \in 1 .. n
      /\ \A i \in a + 1 .. n + 1 : i \in a + 1 .. n \/ i = n + 1
      /\ (n + 1) - 1 = n /\ n + 1 # 0
  <2>1. a <= n
    BY <1>3
  <2> QED
    BY <2>1
<1>7. \A i \in a + 1 .. n : l = 2 /\ g[i].type = "TEXT"
  BY <1>2, <1>3, <1>5, <1>6
<1>8. TextsShown(l, v, s)
  BY <1>1, <1>2, <1>3, <1>4, <1>6 DEF TextsShown
<1>9. CASE k = "await"
  <2>1. Answered(l, v, Len(v.sent) - 1) /\ Len(v.sent) # 0
    BY <1>1, <1>2, <1>3, <1>6, <1>7 DEF Answered
  <2>2. Silent(d) /\ Caught(d) /\ d.msg = NoMsg
    BY <1>4 DEF Idle, Silent
  <2>3. l = 2 => v.sent[Len(v.sent)].type # "TEXT"
    BY <1>1, <1>2, <1>9
  <2>4. Done(v) < Len(v.sent)
    <3>1. a < n + 1
      BY <1>3
    <3> QED
      BY <1>1, <1>2, <1>3, <3>1
  <2> QED
    BY <1>8, <1>9, <2>1, <2>2, <2>3, <2>4 DEF Talk, Waiting
<1>10. CASE k # "await"
  <2>1. \A i \in a + 1 .. n + 1 : l = 2 /\ g[i].type = "TEXT"
    BY <1>2, <1>3, <1>6, <1>7, <1>10
  <2>2. Answered(l, v, Len(v.sent))
    BY <1>1, <1>2, <1>3, <2>1 DEF Answered
  <2> QED
    BY <1>4, <1>8, <1>10, <2>2 DEF Talk, Idle
<1> QED
  BY <1>9, <1>10

\* The server answers the last message, for whose answer the client waits.
LEMMA TalkAnswered ==
  ASSUME NEW l, NEW c, NEW u, NEW d, NEW s, Talk(l, c, u, d, s), c = "await",
         Done(u) \in Nat, Done(u) + 1 = Len(u.sent),
         l = 1 \/ u.sent[Len(u.sent)].type # "TEXT",
         NEW M, d.sent \in Seq(M), NEW m \in M, m.id = u.sent[Len(u.sent)].id,
         NEW v, v.sent = u.sent, Done(v) = Done(u) + 1,
         NEW e, e.sent = Append(d.sent, m), e.received = d.received, e.msg = d.msg
  PROVE  Talk(l, c, v, e, s)
<1>1. PICK n \in Nat : n = Done(u) /\ Len(u.sent) = n + 1 /\ Done(v) = n + 1
  OBVIOUS
<1>2. /\ n < n + 1 /\ ~(n + 1 < n + 1) /\ n + 1 # 0 /\ (n + 1) - 1 = n
      /\ \A i \in 1 .. n + 1 : i \in 1 .. n \/ i = n + 1
      /\ \A i : i \notin (n + 1) + 1 .. n
  OBVIOUS
<1>3. Silent(d) /\ Caught(d) /\ TextsShown(l, u, s)
  BY <1>1, <1>2 DEF Talk, Waiting
<1>4. /\ Len(e.sent) = Len(d.sent) + 1 /\ e.sent[Len(d.sent) + 1] = m
  BY AppendProperties
<1>5. Len(e.sent) = Len(e.received) + 1 /\ e.sent[Len(e.sent)].id = v.sent[Len(v.sent)].id
  BY <1>3, <1>4 DEF Caught
<1>6. Answered(l, v, Len(v.sent) - 1) /\ Len(v.sent) # 0 /\ ~(Done(v) < Len(v.sent))
  BY <1>1, <1>2 DEF Answered
<1>7. e.msg = NoMsg
  BY <1>3 DEF Silent
<1>8. TextsShown(l, v, s)
  BY <1>1, <1>2, <1>3 DEF TextsShown
<1>9. ~Caught(e)
  <2>1. Len(d.sent) + 1 # Len(d.sent) /\ Len(d.sent) = Len(e.received)
    BY <1>3, Elements DEF Caught
  <2> QED
    BY <1>4, <2>1 DEF Caught
<1>10. l = 2 => v.sent[Len(v.sent)].type # "TEXT"
  OBVIOUS
<1> QED
  BY <1>5, <1>6, <1>7, <1>8, <1>9, <1>10 DEF Talk, Waiting

\* The server of lab 2 shows a text.
LEMMA TalkShown ==
  ASSUME NEW c, NEW u, NEW d, NEW s, Talk(2, c, u, d, s),
         Done(u) \in Nat, Len(u.sent) \in Nat, Done(u) + 1 <= Len(u.sent),
         u.sent[Done(u) + 1].type = "TEXT",
         NEW v, v.sent = u.sent, Done(v) = Done(u) + 1
  PROVE  Talk(2, c, v, d, s \cup {u.sent[Done(u) + 1].id})
<1>1. PICK a \in Nat, n \in Nat : a = Done(u) /\ n = Len(u.sent) /\ Done(v) = a + 1
  OBVIOUS
<1>2. /\ a + 1 < n => a < n
      /\ \A k \in Int : \A i \in (a + 1) + 1 .. k : i \in a + 1 .. k
      /\ \A i \in 1 .. a + 1 : i \in 1 .. a \/ i = a + 1
      /\ n \in Int /\ n - 1 \in Int
  OBVIOUS
<1>3. \A k \in Int : Answered(2, u, k) => Answered(2, v, k)
  BY <1>1, <1>2 DEF Answered
<1>4. Waiting(2, u, d) => Waiting(2, v, d)
  <2> SUFFICES ASSUME Waiting(2, u, d) PROVE Waiting(2, v, d)
    OBVIOUS
  <2>1. a + 1 # n
    BY <1>1 DEF Waiting
  <2>2. Done(v) < Len(v.sent)
    <3>1. a + 1 < n
      BY <1>1, <2>1
    <3> QED
      BY <1>1, <3>1
  <2> QED
    BY <1>1, <1>2, <1>3, <2>2 DEF Waiting
<1>5. Idle(2, u, d) => Idle(2, v, d)
  BY <1>1, <1>2, <1>3 DEF Idle
<1>6. TextsShown(2, v, s \cup {u.sent[Done(u) + 1].id})
  <2>1. TextsShown(2, u, s)
    BY DEF Talk
  <2> QED
    BY <1>1, <1>2, <2>1 DEF TextsShown
<1> QED
  BY <1>4, <1>5, <1>6 DEF Talk

\* The client reads the answer it waits for.
LEMMA TalkRead ==
  ASSUME NEW l, NEW c, NEW u, NEW d, NEW s, Talk(l, c, u, d, s), c = "await",
         NEW M, ~Silent(d), d.received \in Seq(M), Len(d.received) + 1 <= Len(d.sent),
         Len(d.sent) \in Nat,
         NEW e, e.sent = d.sent, e.msg \in M, e.msg # NoMsg, e.msg = d.sent[Len(d.received) + 1],
         e.received = Append(d.received, e.msg)
  PROVE  Talk(l, c, u, e, s)
<1>1. Waiting(l, u, d) /\ TextsShown(l, u, s)
  BY DEF Talk
<1>2. Len(d.received) \in Nat /\ Len(e.received) = Len(d.received) + 1
  BY Elements, AppendProperties
<1>3. ~Caught(d)
  BY <1>2 DEF Caught
<1>4. Len(d.sent) = Len(d.received) + 1 /\ d.sent[Len(d.sent)].id = u.sent[Len(u.sent)].id
  BY <1>1, <1>3 DEF Waiting
<1>5. Caught(e) /\ e.msg.id = u.sent[Len(u.sent)].id
  BY <1>2, <1>4 DEF Caught
<1> QED
  BY <1>1, <1>5 DEF Talk, Waiting

\* The client takes the answer, and waits no longer.
LEMMA TalkTaken ==
  ASSUME NEW l, NEW c, NEW u, NEW d, NEW s, Talk(l, c, u, d, s), d.msg # NoMsg,
         Done(u) \in Nat, Len(u.sent) \in Nat,
         NEW e, e.sent = d.sent, e.received = d.received, e.msg = NoMsg,
         Caught(d) => Whole(e) = <<>>
  PROVE  Talk(l, "prompt", u, e, s)
<1>1. Waiting(l, u, d) /\ TextsShown(l, u, s) /\ ~Silent(d)
  BY DEF Talk, Idle, Silent
<1>2. Caught(d) /\ ~(Done(u) < Len(u.sent))
  BY <1>1 DEF Waiting
<1>3. Silent(e) /\ Caught(e)
  BY <1>2 DEF Silent, Caught
<1>4. Answered(l, u, Len(u.sent))
  BY <1>2 DEF Answered
<1> QED
  BY <1>1, <1>3, <1>4 DEF Talk, Idle

\* Every step keeps requests and answers in turn.
LEMMA WireConversationStep ==
  ASSUME WireInv, WireNext
  PROVE  Conversation'
<1> SUFFICES ASSUME lab' \in 1 .. 2, ~short' PROVE Talk(lab', clientMain', up', down', shown')
  BY DEF Conversation
<1>1. lab' = lab /\ ~short /\ lab \in 1 .. 2
  BY WireFlags
<1>2. /\ WireTypeOK /\ up \in Directions(Asked) /\ down \in Directions(Told)
      /\ typed \in Nat /\ Framed(up) /\ Framed(down)
      /\ Talk(lab, clientMain, up, down, shown)
  BY <1>1 DEF WireInv, WireTypeOK, FramedOK, Conversation
<1>3. /\ Len(up.sent) \in Nat /\ Done(up) \in Nat /\ Done(up) <= Len(up.sent)
      /\ up.msg # NoMsg => /\ Done(up) + 1 = Len(up.received) /\ Done(up) + 1 <= Len(up.sent)
                           /\ up.msg = up.sent[Done(up) + 1]
  <2>1. /\ Len(up.received) \in Nat /\ Len(up.sent) \in Nat /\ Len(up.received) <= Len(up.sent)
        /\ Done(up) \in Nat
        /\ up.msg = NoMsg => Done(up) = Len(up.received)
        /\ up.msg # NoMsg => /\ Done(up) + 1 = Len(up.received) /\ Done(up) + 1 <= Len(up.sent)
                             /\ up.msg = up.sent[Done(up) + 1]
    BY <1>2, DoneMessages
  <2> QED
    BY <2>1
<1>4. up.sent \in Seq(Asked) /\ up.received \in Seq(Asked) /\ down.sent \in Seq(Told)
      /\ down.received \in Seq(Told) /\ Len(down.sent) \in Nat
  BY <1>2, Fields
<1>5. CASE ClientWrites
  <2>1. /\ up' \in Written(up)
        /\ clientMain' = clientMain /\ down' = down /\ shown' = shown
    BY <1>5 DEF ClientWrites
  <2>2. up'.sent = up.sent /\ up'.received = up.received /\ up'.msg = up.msg
    BY <1>2, <2>1, WrittenFramed
  <2>3. Done(up') = Done(up)
    BY <2>2 DEF Done
  <2> QED
    BY <1>1, <1>2, <2>1, <2>2, <2>3, TalkKept
<1>6. CASE ServerWrites
  <2>1. /\ down' \in Written(down)
        /\ clientMain' = clientMain /\ up' = up /\ shown' = shown
    BY <1>6 DEF ServerWrites
  <2>2. /\ down'.sent = down.sent /\ down'.received = down.received /\ down'.msg = down.msg
        /\ Whole(down') = Whole(down)
    BY <1>2, <2>1, WrittenFramed
  <2> QED
    BY <1>1, <1>2, <2>1, <2>2, TalkKept DEF Silent
<1>7. CASE WriteFails \/ ClientCloses \/ ServerEnds
  <2>1. up' = up /\ down' = down /\ shown' = shown
    BY <1>7 DEF WriteFails, ClientCloses, ServerEnds
  <2>2. clientMain' = "await" <=> clientMain = "await"
    BY <1>7 DEF WriteFails, ClientCloses, ServerEnds
  <2>3. Talk(lab, clientMain', up, down, shown)
    BY <1>2, <2>2 DEF Talk
  <2> QED
    BY <1>1, <2>1, <2>3
<1>8. CASE LoseUp
  <2>1. clientMain' = clientMain /\ down' = down /\ shown' = shown
    BY <1>8 DEF LoseUp
  <2>2. up'.sent = up.sent /\ up'.received = up.received /\ up'.msg = up.msg
    BY <1>2, <1>8, LostFramed DEF LoseUp
  <2>3. Done(up') = Done(up)
    BY <2>2 DEF Done
  <2> QED
    BY <1>1, <1>2, <2>1, <2>2, <2>3, TalkKept
<1>9. CASE LoseDown
  <2>1. clientMain' = clientMain /\ up' = up /\ shown' = shown
    BY <1>9 DEF LoseDown
  <2>2. /\ down'.sent = down.sent /\ down'.received = down.received /\ down'.msg = down.msg
        /\ ~Silent(down)
    BY <1>2, <1>9, LostFramed DEF LoseDown, Silent
  <2> QED
    BY <1>1, <1>2, <2>1, <2>2, TalkKept
<1>10. CASE ClientRecv
  <2>1. /\ clientMain = "await" /\ down' \in Received(down) /\ Short(down, down')
        /\ clientMain' = clientMain /\ up' = up /\ shown' = shown
    BY <1>1, <1>10 DEF ClientRecv
  <2>2. lab # 5
    BY <1>1
  <2>3. /\ down'.sent = down.sent /\ ~Silent(down)
        /\ Len(down.received) + 1 <= Len(down.sent)
        /\ down'.msg = down.sent[Len(down.received) + 1] /\ down'.msg \in Told
        /\ down'.msg # NoMsg
        /\ down'.received = Append(down.received, down'.msg)
    BY <1>2, <2>1, <2>2, WireMessages, ReadWhole DEF Silent
  <2> QED
    BY <1>1, <1>2, <1>4, <2>1, <2>3, TalkRead
<1>11. CASE ServerRecv
  <2>1. /\ up' \in Received(up) /\ Short(up, up')
        /\ clientMain' = clientMain /\ down' = down /\ shown' = shown
    BY <1>11 DEF ServerRecv
  <2>2. lab # 5
    BY <1>1
  <2>3. /\ up'.sent = up.sent /\ up.msg = NoMsg /\ up'.msg \in Asked /\ up'.msg # NoMsg
        /\ up'.received = Append(up.received, up'.msg)
    BY <1>2, <2>1, <2>2, WireMessages, ReadWhole
  <2>4. Len(up'.received) = Len(up.received) + 1 /\ Len(up.received) \in Nat
    BY <1>4, <2>3, AppendProperties, Elements
  <2>5. Done(up') = Done(up)
    BY <2>3, <2>4 DEF Done
  <2> QED
    BY <1>1, <1>2, <2>1, <2>3, <2>5, TalkKept
<1>12. CASE ClientHello \/ TypeText \/ TypePing
  <2>1. down' = down /\ clientMain # "await" /\ shown' = shown
    BY <1>12 DEF ClientHello, TypeText, TypePing
  <2>2. PICK m \in Asked : /\ up' \in Began(up, m, FALSE)
                           /\ clientMain' # "await" => lab = 2 /\ m.type = "TEXT"
                           /\ clientMain' = "await" /\ lab = 2 => m.type # "TEXT"
    <3>1. CASE ClientHello
      <4>1. Message("HELLO", 0).type # "TEXT"
        BY DEF Message
      <4>2. clientMain' = "await"
        BY <3>1 DEF ClientHello
      <4> QED
        BY <3>1, <4>1, <4>2, WireMessages DEF ClientHello
    <3>2. typed + 1 \in Nat
      BY <1>2
    <3>3. CASE TypeText
      <4>1. Message("TEXT", typed + 1).type = "TEXT"
        BY DEF Message
      <4>2. (clientMain' # "await" => lab = 2) /\ (lab = 2 => clientMain' # "await")
        BY <1>1, <3>3 DEF TypeText
      <4> QED
        BY <3>2, <3>3, <4>1, <4>2, WireMessages DEF TypeText
    <3>4. CASE TypePing
      <4>1. clientMain' = "await" /\ Message("PING", typed + 1).type # "TEXT"
        BY <1>1, <3>4 DEF TypePing, Message
      <4> QED
        BY <3>2, <3>4, <4>1, WireMessages DEF TypePing
    <3> QED
      BY <1>12, <3>1, <3>3, <3>4
  <2>3. up'.sent = Append(up.sent, m) /\ up'.received = up.received /\ up'.msg = up.msg
    <3>1. PICK h \in BOOLEAN : up' \in Began(up, m, h)
      BY <2>2
    <3>2. PICK e \in Began(up, m, h) : e = up'
      BY <3>1
    <3>3. e.sent = Append(up.sent, m) /\ e.received = up.received /\ e.msg = up.msg
      BY <1>2, BeganFields
    <3> QED
      BY <3>2, <3>3
  <2>4. Done(up') = Done(up) /\ Done(up) \in 0 .. Len(up.sent)
    <3>1. Done(up') = Done(up)
      BY <2>3 DEF Done
    <3> QED
      BY <1>3, <3>1
  <2> QED
    BY <1>1, <1>2, <1>4, <2>1, <2>2, <2>3, <2>4, TalkAsked
<1>13. CASE ClientTakes
  <2>1. /\ down.msg # NoMsg /\ down' = [down EXCEPT !.msg = NoMsg]
        /\ clientMain' = "prompt" /\ up' = up /\ shown' = shown
    BY <1>1, <1>13 DEF ClientTakes
  <2>2. /\ down'.sent = down.sent /\ down'.received = down.received /\ down'.msg = NoMsg
        /\ Whole(down') = Whole(down)
    BY <1>2, <2>1, TakenFramed
  <2>3. Caught(down) => Whole(down') = <<>>
    BY <1>2, <2>2, CaughtWhole
  <2> QED
    BY <1>1, <1>2, <1>3, <2>1, <2>2, <2>3, TalkTaken
<1>14. CASE ServerHandles
  <2>1. /\ up' = [up EXCEPT !.msg = NoMsg] /\ up.msg # NoMsg
        /\ clientMain' = clientMain
    BY <1>14 DEF ServerHandles
  <2>2. up'.sent = up.sent /\ up'.received = up.received /\ up'.msg = NoMsg
    BY <1>2, <2>1, TakenFramed
  <2>3. Done(up') = Done(up) + 1
    <3>1. Done(up') = Len(up.received)
      <4>1. Len(up.received) \in Nat
        BY <1>2, Fields
      <4> QED
        BY <2>2, <4>1 DEF Done
    <3> QED
      BY <1>3, <2>1, <3>1
  <2>4. up.msg = up.sent[Done(up) + 1]
    BY <1>3, <2>1
  <2>5. CASE up.msg.type = "TEXT" /\ lab # 1
    <3>1. down' = down /\ shown' = shown \cup {up.msg.id} /\ lab = 2
      BY <1>1, <1>14, <2>5 DEF ServerHandles
    <3> QED
      BY <1>1, <1>2, <1>3, <2>1, <2>2, <2>3, <2>4, <2>5, <3>1, TalkShown
  <2>6. CASE ~(up.msg.type = "TEXT" /\ lab # 1)
    <3>1. /\ down' \in Began(down, Message(AnswerType(up.msg), up.msg.id), TRUE)
          /\ shown' = shown
      BY <1>14, <2>6 DEF ServerHandles
    <3>2. clientMain = "await" /\ Done(up) + 1 = Len(up.sent)
      BY <1>1, <2>1, <2>6, QuietWhenAsked
    <3>3. PICK m \in Told : m = Message(AnswerType(up.msg), up.msg.id)
      <4>1. up.msg \in Asked
        BY <1>2, <2>1, Fields
      <4> QED
        BY <4>1, WireMessages
    <3>4. m.id = up.sent[Len(up.sent)].id /\ (lab = 1 \/ up.sent[Len(up.sent)].type # "TEXT")
      BY <2>4, <2>6, <3>2, <3>3 DEF Message
    <3>5. /\ down'.sent = Append(down.sent, m) /\ down'.received = down.received
          /\ down'.msg = down.msg
      <4>1. PICK h \in BOOLEAN : down' \in Began(down, m, h)
        BY <3>1, <3>3
      <4>2. PICK e \in Began(down, m, h) : e = down'
        BY <4>1
      <4>3. e.sent = Append(down.sent, m) /\ e.received = down.received /\ e.msg = down.msg
        BY <1>2, BeganFields
      <4> QED
        BY <4>2, <4>3
    <3>6. Talk(lab, clientMain, up', down', shown)
      BY <1>2, <1>3, <1>4, <2>2, <2>3, <3>2, <3>4, <3>5, TalkAnswered
    <3> QED
      BY <1>1, <2>1, <3>1, <3>6
  <2> QED
    BY <2>5, <2>6
<1>15. CASE OtherWrites
  <2>1. lab \in 3 .. 5
    BY <1>15 DEF OtherWrites
  <2> QED
    BY <1>1, <2>1
<1> QED
  BY <1>5, <1>6, <1>7, <1>8, <1>9, <1>10, <1>11, <1>12, <1>13, <1>14, <1>15
     DEF WireNext, ClientProceeds, ServerProceeds

------------------------------------------------------------------------------
(* Theorems *)

\* At the start nothing has been sent.
LEMMA WireInvInit == WireInit => WireInv
<1> SUFFICES ASSUME WireInit PROVE WireInv
  OBVIOUS
<1>1. up = Quiet /\ down = Quiet /\ clientMain # "await"
  BY DEF WireInit
<1>2. Quiet.sent = <<>> /\ Quiet.received = <<>> /\ Quiet.msg = NoMsg /\ Quiet.got = <<>>
      /\ ~Quiet.lost /\ Len(<<>>) = 0
  BY DEF Quiet
<1>3. Whole(Quiet) = <<>>
  BY DEF Quiet, Whole, Behind
<1>4. Framed(Quiet)
  <2>1. Begins(<<>>, <<>>) /\ Spells(<<>>, 0, <<>>)
    BY DEF Begins, Spells
  <2> QED
    BY <1>2, <1>3, <2>1 DEF Framed
<1>5. Silent(Quiet) /\ Caught(Quiet) /\ Done(Quiet) = 0
  BY <1>2, <1>3 DEF Silent, Caught, Done
<1>6. Talk(lab, clientMain, up, down, shown)
  BY <1>1, <1>2, <1>5 DEF Talk, Idle, Answered, TextsShown
<1> QED
  BY <1>1, <1>4, <1>6, WireTypeInit DEF WireInv, FramedOK, Conversation

\* The invariant is inductive.
LEMMA WireInvStep == WireInv /\ [WireNext]_wireVars => WireInv'
<1>1. ASSUME WireInv, WireNext
      PROVE  WireInv'
  <2>1. WireTypeOK'
    BY <1>1, WireTypeStep DEF WireInv
  <2> QED
    BY <1>1, <2>1, WireFramedStep, WireConversationStep DEF WireInv
<1>2. ASSUME WireInv, UNCHANGED wireVars
      PROVE  WireInv'
  BY <1>2 DEF wireVars, WireInv, WireTypeOK, FramedOK, Framed, Conversation
<1> QED
  BY <1>1, <1>2

\* It holds in every state that the program can reach.
LEMMA WireInvariant == WireSafeSpec => []WireInv
  BY WireInvInit, WireInvStep, PTL DEF WireSafeSpec

\* Messages arrive whole, once and in the order in which they were sent.
THEOREM WireMessagesArriveWhole == WireSafeSpec => []MessagesArriveWhole
<1>1. WireInv => MessagesArriveWhole
  <2> SUFFICES ASSUME WireInv, ~short, NEW d \in {up, down}
               PROVE  ~d.lost /\ IsPrefix(d.received, d.sent)
    BY DEF MessagesArriveWhole
  <2>1. PICK M : d \in Directions(M)
    BY DEF WireInv, WireTypeOK
  <2>2. ~d.lost /\ Begins(d.received, d.sent)
    BY DEF WireInv, FramedOK, Framed
  <2>3. PICK f \in Seq(M), g \in Seq(M) : f = d.sent /\ g = d.received
    BY <2>1, Fields
  <2>4. IsPrefix(g, f)
    <3>1. Len(g) \in Nat /\ Len(f) \in Nat /\ Len(g) <= Len(f) /\ \A i \in 1 .. Len(g) : g[i] = f[i]
      BY <2>2, <2>3, Elements DEF Begins
    <3>2. SubSeq(g, 1, Len(g)) = SubSeq(f, 1, Len(g))
      BY <3>1
    <3> QED
      BY <3>1, <3>2 DEF IsPrefix
  <2> QED
    BY <2>2, <2>3, <2>4
<1> QED
  BY <1>1, WireInvariant, PTL

\* The answer that a client of labs 1 and 2 waits for is the one to its last message, and
\* the server of lab 2 has shown the texts before it.
THEOREM WireAnswerFollowsRequest == WireSafeSpec => []AnswerFollowsRequest
<1>1. WireInv => AnswerFollowsRequest
  <2> SUFFICES ASSUME WireInv, lab \in 1 .. 2, ~short, down.msg # NoMsg
               PROVE  /\ clientMain = "await" /\ down.msg.id = Last(up.sent).id
                      /\ lab = 2 => \A m \in ToSet(up.sent) : m.type = "TEXT" => m.id \in shown
    BY DEF AnswerFollowsRequest
  <2>1. /\ Talk(lab, clientMain, up, down, shown) /\ ~Silent(down)
        /\ Framed(up) /\ up \in Directions(Asked)
    BY DEF WireInv, WireTypeOK, FramedOK, Conversation, Silent
  <2>2. clientMain = "await" /\ Waiting(lab, up, down)
    BY <2>1 DEF Talk, Idle
  <2>3. ~(Done(up) < Len(up.sent)) /\ down.msg.id = up.sent[Len(up.sent)].id
    BY <2>1, <2>2 DEF Waiting
  <2>4. ASSUME lab = 2, NEW m \in ToSet(up.sent), m.type = "TEXT"
        PROVE  m.id \in shown
    <3>1. Len(up.sent) \in Nat /\ Done(up) \in Nat /\ DOMAIN up.sent = 1 .. Len(up.sent)
      <4>1. up.sent \in Seq(Asked)
        BY <2>1, Fields
      <4> QED
        BY <2>1, <4>1, DoneMessages, Elements
    <3>2. PICK i \in 1 .. Len(up.sent) : m = up.sent[i]
      BY <3>1 DEF ToSet
    <3>3. i \in 1 .. Done(up)
      BY <2>3, <3>1
    <3> QED
      BY <2>1, <2>4, <3>2, <3>3 DEF Talk, TextsShown
  <2> QED
    BY <2>2, <2>3, <2>4 DEF Last
<1> QED
  BY <1>1, WireInvariant, PTL

\* A client of lab 2 that waits has its request or the answer under way.
THEOREM WireNeverBothWait == WireSafeSpec => []NeverBothWait
<1>1. WireInv => NeverBothWait
  <2> SUFFICES ASSUME WireInv, lab = 2, clientMain = "await", ~short,
                      up.msg = NoMsg, down.msg = NoMsg,
                      up.got = <<>>, up.wire = <<>>, up.tx = <<>>,
                      down.got = <<>>, down.wire = <<>>, down.tx = <<>>
               PROVE  FALSE
    BY DEF NeverBothWait
  <2>1. /\ Framed(up) /\ up \in Directions(Asked) /\ Framed(down) /\ down \in Directions(Told)
        /\ Waiting(lab, up, down)
    BY DEF WireInv, WireTypeOK, FramedOK, Conversation, Talk
  <2>2. ASSUME NEW M, NEW d \in Directions(M), Framed(d), d.got = <<>>, d.wire = <<>>, d.tx = <<>>
        PROVE  Caught(d)
    <3>1. Len(Whole(d)) = 0
      <4>1. Len(d.got) = 0 /\ Len(d.wire) = 0 /\ Len(d.tx) = 0
        BY <2>2
      <4>2. Len(Whole(d)) = Len(d.got) + Len(d.wire) + Len(d.tx)
        BY <2>2, WholeLength
      <4> QED
        BY <4>1, <4>2
    <3>2. Len(Whole(d)) = 3 * (Len(d.sent) - Len(d.received))
      <4>1. lab # 1
        OBVIOUS
      <4> QED
        BY <2>2, <4>1 DEF Framed, Spells
    <3>3. Len(d.sent) \in Nat /\ Len(d.received) \in Nat
      BY Fields
    <3>4. \A i, j \in Nat : 3 * (i - j) = 0 => j = i
      OBVIOUS
    <3> QED
      BY <3>1, <3>2, <3>3, <3>4, Zenon DEF Caught
  <2>3. Caught(up) /\ Caught(down)
    BY <2>1, <2>2
  <2>4. Done(up) = Len(up.received) /\ Len(up.received) \in Nat
    BY <2>1, DoneMessages
  <2>5. ~(Done(up) < Len(up.sent))
    BY <2>3, <2>4 DEF Caught
  <2> QED
    BY <2>1, <2>3, <2>5 DEF Waiting
<1> QED
  BY <1>1, WireInvariant, PTL
================================================================================
