---------------------------- MODULE AckedDelivery ----------------------------
(***************************************************************************)
(* One established connection of lab 6 seen from both ends: the client's   *)
(* Messenger::sendMsg() with its three attempts and 2-second waits, the    *)
(* client's and the server's ack reader threads, the server's network      *)
(* emulator, and the loop of the server's worker that processes a message  *)
(* and acknowledges it afterwards, or answers it with a sendMsg() of its   *)
(* own.  TCP keeps the order of both directions; the connection stays up   *)
(* (disconnection is the subject of module ChatServer).                    *)
(***************************************************************************)
EXTENDS Naturals, Sequences, FiniteSets

CONSTANTS MAX_ACK_RETRIES,  \* attempts of one sendMsg() (defines.hpp: 3)
          MaxMsgs,          \* bound on the messages the user sends
          MaxDrops,         \* bound on the messages the emulator drops
          Kinds             \* the kinds the user sends: "TEXT" stands for
                            \* MSG_TEXT and MSG_PRIVATE, then "LIST", "HISTORY"

ASSUME DeliveryAssumption ==
  /\ MAX_ACK_RETRIES \in Nat \ {0} /\ MaxMsgs \in Nat /\ MaxDrops \in Nat
  /\ Kinds \subseteq {"TEXT", "LIST", "HISTORY"}

Ids == 1 .. MaxMsgs
Requests == [type : Kinds, id : Ids]
Answers == [type : {"ACK", "INFO"}, id : Ids]

VARIABLES
  offered,      \* Id_Count of the client: ids 1..offered are used
  client,       \* the client's main thread
  kind,         \* type of the message being sent
  attempt,      \* attempt of the sendMsg() in progress
  pendingAcks,  \* Messenger::_pending_acks of the client
  verdict,      \* how each sendMsg() ended
  toServer,     \* bytes on their way to the server
  toClient,     \* bytes on their way to the client
  inbox,        \* ClientSession::_inbox
  worker,       \* the server's worker: what it does, on which message
  replies,      \* attempts of the reply in progress
  drops,        \* messages the emulator has dropped
  processed     \* history: ids in the order they were handled

clientVars == <<offered, client, kind, attempt, pendingAcks, verdict>>
serverVars == <<inbox, worker, replies, drops, processed>>
vars == <<clientVars, toServer, toClient, serverVars>>

TypeOK ==
  /\ offered \in 0 .. MaxMsgs
  /\ client \in {"ready", "waiting", "stopped"}
  /\ kind \in {"TEXT", "LIST", "HISTORY"}
  /\ attempt \in 0 .. MAX_ACK_RETRIES
  /\ pendingAcks \subseteq Ids
  /\ verdict \in [Ids -> {"none", "delivered", "failed"}]
  /\ toServer \in Seq(Requests)
  /\ toClient \in Seq(Answers)
  /\ inbox \in Seq(Requests)
  /\ worker \in [step : {"recv", "ack", "reply", "gone"}, id : 0 .. MaxMsgs]
  /\ replies \in 0 .. MAX_ACK_RETRIES
  /\ drops \in 0 .. MaxDrops
  /\ processed \in Seq(Ids)

Init ==
  /\ offered = 0
  /\ client = "ready"
  /\ kind = "TEXT"
  /\ attempt = 0
  /\ pendingAcks = {}
  /\ verdict = [id \in Ids |-> "none"]
  /\ toServer = <<>>
  /\ toClient = <<>>
  /\ inbox = <<>>
  /\ worker = [step |-> "recv", id |-> 0]
  /\ replies = 0
  /\ drops = 0
  /\ processed = <<>>

Request(type, id) == [type |-> type, id |-> id]

\* Variants with one plausible slip each.
AckArrives_AnyAck ==
  /\ client = "waiting" /\ pendingAcks # {}
  /\ pendingAcks' = pendingAcks \ {offered}
  /\ verdict' = [verdict EXCEPT ![offered] = "delivered"]
  /\ client' = "ready"
  /\ UNCHANGED <<offered, kind, attempt, toServer, toClient, serverVars>>
Resend_OnceMore ==
  /\ client = "waiting" /\ offered \notin pendingAcks
  /\ attempt <= MAX_ACK_RETRIES
  /\ toServer' = Append(toServer, Request(kind, offered))
  /\ attempt' = attempt + 1
  /\ UNCHANGED <<offered, client, kind, pendingAcks, verdict, toClient, serverVars>>
Resend_Ahead ==
  /\ client = "waiting" /\ offered \notin pendingAcks
  /\ attempt < MAX_ACK_RETRIES
  /\ toServer' = <<Request(kind, offered)>> \o toServer
  /\ attempt' = attempt + 1
  /\ UNCHANGED <<offered, client, kind, pendingAcks, verdict, toClient, serverVars>>
Drop_Acknowledged ==
  /\ worker.step = "recv" /\ inbox # <<>> /\ drops < MaxDrops
  /\ inbox' = Tail(inbox) /\ drops' = drops + 1
  /\ worker' = [step |-> "ack", id |-> Head(inbox).id]
  /\ UNCHANGED <<clientVars, toServer, toClient, replies, processed>>
GiveUp_FirstTimeout ==
  /\ client = "waiting" /\ offered \notin pendingAcks
  /\ verdict' = [verdict EXCEPT ![offered] = "failed"]
  /\ client' = "ready"
  /\ UNCHANGED <<offered, kind, attempt, pendingAcks, toServer, toClient, serverVars>>

\* The user enters a line: the main thread numbers a message, writes it to the
\* socket and waits for its ACK.
Send(k) ==
  /\ client = "ready"
  /\ offered < MaxMsgs
  /\ offered' = offered + 1
  /\ kind' = k
  /\ attempt' = 1
  /\ toServer' = Append(toServer, Request(k, offered'))
  /\ client' = "waiting"
  /\ UNCHANGED <<pendingAcks, verdict, toClient, serverVars>>

\* waitACK() finds the id among the pending ACKs and erases it.
AckArrives ==
  /\ client = "waiting"
  /\ offered \in pendingAcks
  /\ pendingAcks' = pendingAcks \ {offered}
  /\ verdict' = [verdict EXCEPT ![offered] = "delivered"]
  /\ client' = "ready"
  /\ UNCHANGED <<offered, kind, attempt, toServer, toClient, serverVars>>

\* waitACK() times out (how long a message, the emulator's delay or an ACK takes
\* is not bounded by ACK_TIMEOUT_MS) and an attempt is left.
Resend ==
  /\ client = "waiting"
  /\ offered \notin pendingAcks
  /\ attempt < MAX_ACK_RETRIES
  /\ toServer' = Append(toServer, Request(kind, offered))
  /\ attempt' = attempt + 1
  /\ UNCHANGED <<offered, client, kind, pendingAcks, verdict, toClient, serverVars>>

\* The last attempt times out: sendMsg() throws.  Only "/history N" catches the
\* exception where the user can go on; elsewhere it ends the client's main loop.
GiveUp ==
  /\ client = "waiting"
  /\ offered \notin pendingAcks
  /\ attempt = MAX_ACK_RETRIES
  /\ verdict' = [verdict EXCEPT ![offered] = "failed"]
  /\ client' = IF kind = "HISTORY" THEN "ready" ELSE "stopped"
  /\ UNCHANGED <<offered, kind, attempt, pendingAcks, toServer, toClient, serverVars>>

\* The client's ack reader: notifyACK() for an ACK, anything else is shown to
\* the user and never acknowledged.
ClientReads ==
  /\ toClient # <<>>
  /\ toClient' = Tail(toClient)
  /\ pendingAcks' = IF Head(toClient).type = "ACK" THEN pendingAcks \cup {Head(toClient).id} ELSE pendingAcks
  /\ UNCHANGED <<offered, client, kind, attempt, verdict, toServer, serverVars>>

\* The server's ack reader moves a message to _inbox, as long as the session lives.
ServerReads ==
  /\ toServer # <<>> /\ worker.step # "gone"
  /\ inbox' = Append(inbox, Head(toServer))
  /\ toServer' = Tail(toServer)
  /\ UNCHANGED <<clientVars, toClient, worker, replies, drops, processed>>

\* NetEmulator::apply() returns false: the worker goes on with the next message.
Drop ==
  /\ worker.step = "recv" /\ inbox # <<>>
  /\ drops < MaxDrops
  /\ drops' = drops + 1
  /\ inbox' = Tail(inbox)
  /\ UNCHANGED <<clientVars, toServer, toClient, worker, replies, processed>>

\* The worker handles a message: a text is passed on and will be acknowledged;
\* a request is answered by session.send(), which waits for the client's ACK.
Handle ==
  /\ worker.step = "recv" /\ inbox # <<>>
  /\ inbox' = Tail(inbox)
  /\ processed' = Append(processed, Head(inbox).id)
  /\ LET isText == Head(inbox).type = "TEXT" IN
       /\ worker' = [step |-> IF isText THEN "ack" ELSE "reply", id |-> Head(inbox).id]
       /\ replies' = IF isText THEN replies ELSE 1
       /\ toClient' = IF isText THEN toClient ELSE Append(toClient, Request("INFO", Head(inbox).id))
  /\ UNCHANGED <<clientVars, toServer, drops>>

\* sendAckFor(), after the message has been processed.
SendAck ==
  /\ worker.step = "ack"
  /\ toClient' = Append(toClient, Request("ACK", worker.id))
  /\ worker' = [step |-> "recv", id |-> 0]
  /\ UNCHANGED <<clientVars, toServer, inbox, replies, drops, processed>>

\* No client acknowledges a reply, so every attempt of the server's sendMsg()
\* times out; the exception of the last one ends the session.
ReplyTimesOut ==
  /\ worker.step = "reply"
  /\ IF replies < MAX_ACK_RETRIES
     THEN /\ replies' = replies + 1
          /\ toClient' = Append(toClient, Request("INFO", worker.id))
          /\ UNCHANGED worker
     ELSE /\ worker' = [step |-> "gone", id |-> 0]
          /\ UNCHANGED <<replies, toClient>>
  /\ UNCHANGED <<clientVars, toServer, inbox, drops, processed>>

ClientStep == AckArrives \/ Resend \/ GiveUp \/ ClientReads
ServerStep == ServerReads \/ Drop \/ Handle \/ SendAck \/ ReplyTimesOut

Next == (\E k \in Kinds : Send(k)) \/ ClientStep \/ ServerStep

SafeSpec == Init /\ [][Next]_vars

\* Waits end, and the threads that read and handle messages are scheduled; the
\* user types when he likes.
Spec ==
  /\ SafeSpec
  /\ WF_vars(AckArrives) /\ WF_vars(Resend) /\ WF_vars(GiveUp) /\ WF_vars(ClientReads)
  /\ WF_vars(ServerReads) /\ WF_vars(Drop \/ Handle) /\ WF_vars(SendAck) /\ WF_vars(ReplyTimesOut)
------------------------------------------------------------------------------
Processed == {processed[i] : i \in DOMAIN processed}

\* sendMsg() returns normally only for a message the server has processed: a late
\* ACK of an earlier message is never taken for the one awaited.
DeliveredWasProcessed == \A id \in Ids : verdict[id] = "delivered" => id \in Processed

\* Every copy of a message that can still be processed, from the oldest to the
\* youngest: retransmissions never overtake and are never overtaken, so the
\* server handles messages in the order the user sent them.
Pipeline == [i \in DOMAIN inbox |-> inbox[i].id] \o [i \in DOMAIN toServer |-> toServer[i].id]
HandledInOrder ==
  LET path == processed \o Pipeline IN
    \A i, j \in DOMAIN path : i <= j => path[i] <= path[j]

\* sendMsg() is an at-least-once service with bounded repetition, and always
\* comes to an end.
Service == INSTANCE AtLeastOnce WITH MaxCopies <- MAX_ACK_RETRIES
ImplementsAtLeastOnce == Service!Spec

\* Even if every wait times out, a text is processed when the emulator drops
\* fewer messages than there are attempts, unless an unanswered reply to an
\* earlier request has ended the session first.
TextsAreProcessed ==
  \A id \in Ids :
    (offered = id /\ kind = "TEXT" /\ MaxDrops < MAX_ACK_RETRIES) ~> (id \in Processed \/ worker.step = "gone")

==============================================================================
