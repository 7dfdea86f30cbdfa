--------------------------- MODULE InboxClientProof ---------------------------
(***************************************************************************)
(* Proofs about InboxClient for any numbers of sockets, lines, PINGs,      *)
(* stops and texts: no thread of the client of lab 6 ends the program by   *)
(* std::terminate() unless an attempt to connect has failed, the user has  *)
(* typed /quit, or it has met a text, a line or an error of recv() that    *)
(* throws; the report of /ping and /netdiag counts every PONG handled      *)
(* before it was begun, and only PONGs that were handled; and the averages *)
(* that are saved are those of the packets saved with them.                *)
(***************************************************************************)
EXTENDS InboxClient, SequenceLemmas

Incoming == {"TEXT", "NONE"}
Kinds == {"WELCOME", "AUTH", "ERROR", "ACK", "PONG"} \cup Incoming
Messages == [type : Kinds, id : Nat]
States == {"free", "open", "shut", "reset"}
HandlerStates == {"none", "hello", "auth", "serving", "gone"}
Socket == [state : States, handler : HandlerStates, due : Nat, asked : BOOLEAN,
           pings : SUBSET Pings, unread : Seq(Messages)]
Printing == [at : Nat, received : Nat, rttSum : Nat, jitterSum : Nat, prev : Int]

------------------------------------------------------------------------------
(* No thread ends the program without a cause *)

\* Before an attempt fails, before /quit and before the first exception of another cause,
\* the inbox is not stopped, nobody dials a second time, msg_reader has not ended, the
\* ack reader runs only when the first attempt is over, and from the first connect() on
\* there is a socket.
NoCauseYet ==
  /\ process # "aborted" /\ ~stopped
  /\ reader \notin {"dial", "done"} /\ stage \notin {"failed", "join"}
  /\ main = "dial" => ack = "off"
  /\ main # "dial" \/ stage # "connect" => fd # 0
Caused == failed \/ ~running \/ thrown
AbortInv == Caused \/ NoCauseYet

\* A cause never goes away.
LEMMA CauseRemains ==
  ASSUME [Next]_vars, Caused
  PROVE  Caused'
<1> USE DEF Caused, causes, pingVars, world, flags, inboxVars, threads, serverKeeps
<1>1. CASE Redial
  BY <1>1 DEF Redial, Connect, SendAuth, RecvWelcome, RecvAuth, DialRecv, StartAckReader, StopInbox,
       JoinAndClose, Passed, Failed
<1>2. CASE AckReader
  BY <1>2 DEF AckReader, AckCheck, AckCall, AckTakes, AckEnds
<1>3. CASE Reader
  BY <1>3 DEF Reader, ReaderLoop, ReaderPop, ReaderLost, Clear
<1>4. CASE Main
  BY <1>4 DEF Main, SendText, Send, GivesUp, Join, RegisterPing, SendPing, PrintNext, Save
<1>5. CASE BeginPrint
  BY <1>5 DEF BeginPrint
<1>6. CASE User
  BY <1>6 DEF User, Hello, TypeCommand, TypeText, Quit, TypePing, Send, Passed, Failed
<1>7. CASE Server
  BY <1>7 DEF Server, ServerStops, ServerStarts, TextArrives, AckArrives, PongArrives, SessionEnds
<1>8. CASE UNCHANGED vars
  BY <1>8 DEF vars
<1> QED
  BY <1>1, <1>2, <1>3, <1>4, <1>5, <1>6, <1>7, <1>8 DEF Next

\* While there is none, dialing is the main thread's first attempt.
LEMMA DialWithoutCause ==
  ASSUME NoCauseYet, Redial
  PROVE  AbortInv'
<1> USE DEF NoCauseYet, AbortInv, Caused, causes, pingVars, world, flags, inboxVars, threads, At, Alive, Dialing
<1>1. main = "dial" /\ ack = "off" /\ process = "alive"
  BY DEF Redial, Connect, SendAuth, RecvWelcome, RecvAuth, DialRecv, StartAckReader, StopInbox, JoinAndClose
<1>2. CASE Connect
  <2>1. PICK s \in Sockets : fd' = s
    BY <1>2 DEF Connect
  <2>2. fd' # 0
    BY <2>1, InboxAssumption DEF Sockets
  <2> QED
    BY <1>1, <1>2, <2>2 DEF Connect, Passed, Failed
<1>3. CASE SendAuth
  <2>1. CASE process' = "killed"
    BY <1>1, <1>3, <2>1 DEF SendAuth, Passed, Failed
  <2>2. CASE process' # "killed"
    BY <1>1, <1>3, <2>2 DEF SendAuth, Passed, Failed, Sent, SendThrows, SendKills
  <2> QED
    BY <2>1, <2>2
<1>4. CASE RecvWelcome \/ RecvAuth
  BY <1>1, <1>4 DEF RecvWelcome, RecvAuth, DialRecv, Passed, Failed
<1>5. CASE StartAckReader
  BY <1>1, <1>5 DEF StartAckReader
<1>6. ~StopInbox /\ ~JoinAndClose
  BY DEF StopInbox, JoinAndClose
<1> QED
  BY <1>2, <1>3, <1>4, <1>5, <1>6 DEF Redial

\* Nor does any other step end the program or lose the socket.
LEMMA StepWithoutCause ==
  ASSUME NoCauseYet, [Next]_vars
  PROVE  AbortInv'
<1> USE DEF NoCauseYet, AbortInv, Caused, causes, pingVars, world, flags, inboxVars, threads, Alive
<1>1. CASE Redial
  BY <1>1, DialWithoutCause
<1>2. CASE AckReader
  <2>1. CASE AckCheck \/ AckCall \/ AckEnds
    BY <2>1 DEF AckCheck, AckCall, AckEnds
  <2>2. CASE AckTakes
    BY <2>2 DEF AckTakes
  <2> QED
    BY <1>2, <2>1, <2>2 DEF AckReader
<1>3. CASE Reader
  BY <1>3 DEF Reader, ReaderLoop, ReaderPop, ReaderLost, Clear
<1>4. CASE Main
  <2>1. CASE SendText
    BY <2>1 DEF SendText, Send, Sent, SendThrows, SendKills
  <2>2. CASE GivesUp
    BY <2>2 DEF GivesUp, SendKills
  <2>3. CASE SendPing
    BY <2>3 DEF SendPing, Sent, SendThrows, SendKills
  <2>4. CASE Join \/ RegisterPing \/ PrintNext \/ Save
    BY <2>4 DEF Join, RegisterPing, PrintNext, Save
  <2> QED
    BY <1>4, <2>1, <2>2, <2>3, <2>4 DEF Main
<1>5. CASE BeginPrint
  BY <1>5 DEF BeginPrint
<1>6. CASE User
  <2>1. CASE Hello
    <3>1. main = "dial" /\ ack = "off" /\ process = "alive" /\ stage = "hello"
      BY <2>1 DEF Hello, At, Dialing
    <3> QED
      BY <2>1, <3>1 DEF Hello, Passed, Failed, Sent, SendThrows, SendKills
  <2>2. CASE TypeCommand
    BY <2>2 DEF TypeCommand, Send, Sent, SendThrows, SendKills
  <2>3. CASE TypeText \/ TypePing \/ Quit
    BY <2>3 DEF TypeText, TypePing, Quit
  <2> QED
    BY <1>6, <2>1, <2>2, <2>3 DEF User
<1>7. CASE Server
  BY <1>7 DEF Server, ServerStops, ServerStarts, TextArrives, AckArrives, PongArrives, SessionEnds, serverKeeps
<1>8. CASE UNCHANGED vars
  BY <1>8 DEF vars
<1> QED
  BY <1>1, <1>2, <1>3, <1>4, <1>5, <1>6, <1>7, <1>8 DEF Next

\* The ack reader's enqueue() into a stopped inbox, its recv() of descriptor -1, its
\* destruction or replacement while it is joinable: these end the program only after an
\* attempt to connect has failed or after /quit.  The only exceptions beside them are those
\* of a text that is "[OFFLINE]" and no more, of a line that is no message, and of an error
\* of recv() that is no reset.
THEOREM InboxAbortHasACause == Spec => []AbortHasACause
<1>1. Init => AbortInv
  BY DEF Init, AbortInv, NoCauseYet
<1>2. AbortInv /\ [Next]_vars => AbortInv'
  BY CauseRemains, StepWithoutCause DEF AbortInv
<1>3. AbortInv => AbortHasACause
  BY DEF AbortInv, NoCauseYet, Caused, AbortHasACause
<1> QED
  BY <1>1, <1>2, <1>3, PTL DEF Spec

------------------------------------------------------------------------------
(* The messages on their way *)

\* Every PONG among the messages q answers a PING of S.
Genuine(q, S) ==
  q \in Seq(Messages) /\ \A i \in DOMAIN q : q[i].type = "PONG" => q[i].id \in S
Honest(k, S) == k \in Socket /\ k.pings \subseteq S /\ Genuine(k.unread, S)

\* What the types of the variables are that the report depends on.
TypeOK ==
  /\ fd \in Sockets \cup {0}
  /\ conn \in [Sockets -> Socket]
  /\ inbox \in Seq(Messages)
  /\ lines \in Nat /\ togo \in Int
  /\ stats \in Seq(Rtts \cup {NoRtt})
  /\ pingRtt \in [Pings -> Rtts \cup {NoRtt}]
  /\ print \in Printing

\* Only PINGs that have been registered are sent, answered and waited for.
OnlyRegistered ==
  /\ \A s \in Sockets : Honest(conn[s], pingSent)
  /\ Genuine(inbox, pingSent)

\* What holds of more PINGs when they are registered.
LEMMA GenuineGrows ==
  ASSUME NEW S, NEW T, S \subseteq T
  PROVE  /\ \A q : Genuine(q, S) => Genuine(q, T)
         /\ \A k : Honest(k, S) => Honest(k, T)
  BY DEF Genuine, Honest

\* The empty sequence has no PONG.
LEMMA NothingGenuine == ASSUME NEW S PROVE Genuine(<<>>, S)
<1>1. <<>> \in Seq(Messages) /\ DOMAIN << >> = {}
  BY EmptySeq
<1> QED
  BY <1>1 DEF Genuine

\* A message that is no PONG, or the PONG of a PING of S, can be added.
LEMMA AppendGenuine ==
  ASSUME NEW S, NEW q, Genuine(q, S), NEW m \in Messages, m.type = "PONG" => m.id \in S
  PROVE  Genuine(Append(q, m), S)
<1>1. q \in Seq(Messages)
  BY DEF Genuine
<1>2. \A i \in DOMAIN Append(q, m) : (i \in DOMAIN q /\ Append(q, m)[i] = q[i]) \/ Append(q, m)[i] = m
  BY <1>1, AppendElements
<1> QED
  BY <1>1, <1>2, AppendElements DEF Genuine

\* The first message can be taken.
LEMMA TailGenuine ==
  ASSUME NEW S, NEW q, Genuine(q, S), q # <<>>
  PROVE  /\ Genuine(Tail(q), S)
         /\ Head(q) \in Messages /\ (Head(q).type = "PONG" => Head(q).id \in S)
<1>1. q \in Seq(Messages)
  BY DEF Genuine
<1> QED
  BY <1>1, TailElements DEF Genuine

\* What a socket's fields may be replaced by.
LEMMA FieldHonest ==
  ASSUME NEW S, NEW k, Honest(k, S)
  PROVE  /\ \A h \in HandlerStates : Honest([k EXCEPT !.handler = h], S)
         /\ \A t \in States : Honest([k EXCEPT !.state = t], S)
         /\ \A n \in Nat : Honest([k EXCEPT !.due = n], S)
         /\ Honest([k EXCEPT !.asked = TRUE], S)
         /\ \A P \in SUBSET Pings : P \subseteq S => Honest([k EXCEPT !.pings = P], S)
         /\ \A u : Genuine(u, S) => Honest([k EXCEPT !.unread = u], S)
<1>1. k \in Socket
  BY DEF Honest
<1>2. \A h \in HandlerStates : Honest([k EXCEPT !.handler = h], S)
  BY <1>1 DEF Honest, Socket
<1>3. \A t \in States : Honest([k EXCEPT !.state = t], S)
  BY <1>1 DEF Honest, Socket
<1>4. \A n \in Nat : Honest([k EXCEPT !.due = n], S)
  BY <1>1 DEF Honest, Socket
<1>5. Honest([k EXCEPT !.asked = TRUE], S)
  BY <1>1 DEF Honest, Socket
<1>6. \A P \in SUBSET Pings : P \subseteq S => Honest([k EXCEPT !.pings = P], S)
  BY <1>1 DEF Honest, Socket
<1>7. \A u : Genuine(u, S) => Honest([k EXCEPT !.unread = u], S)
  BY <1>1 DEF Honest, Socket, Genuine
<1> QED
  BY <1>2, <1>3, <1>4, <1>5, <1>6, <1>7

\* A message that is no PONG, or the PONG of a PING of S, can be sent to the client.
LEMMA UnreadHonest ==
  ASSUME NEW S, NEW k, Honest(k, S), NEW t \in Kinds, NEW n \in Nat, t = "PONG" => n \in S
  PROVE  Honest([k EXCEPT !.unread = Append(@, Message(t, n))], S)
<1>1. Message(t, n) \in Messages /\ Message(t, n).type = t /\ Message(t, n).id = n
  BY DEF Message, Messages
<1>2. Genuine(Append(k.unread, Message(t, n)), S)
  BY <1>1, AppendGenuine DEF Honest
<1> QED
  BY <1>2, FieldHonest

\* What the server's handler does with HELLO and AUTH.
LEMMA AnswersHonest ==
  ASSUME NEW S, NEW k, Honest(k, S)
  PROVE  /\ Honest(Broken(k), S)
         /\ Honest(AnswersHello(k), S)
         /\ \A j \in AnswersAuth(k) : Honest(j, S)
<1>1. k \in Socket
  BY DEF Honest
<1>2. /\ Honest([k EXCEPT !.handler = "auth"], S)
      /\ Honest([k EXCEPT !.handler = "serving"], S)
      /\ Honest([k EXCEPT !.handler = "gone"], S)
  BY FieldHonest DEF HandlerStates
<1>3. \A h \in HandlerStates : \A m :
        [k EXCEPT !.handler = h, !.unread = Append(@, m)]
          = [[k EXCEPT !.handler = h] EXCEPT !.unread = Append(@, m)]
  BY <1>1 DEF Socket
<1>4. /\ Honest([k EXCEPT !.handler = "auth", !.unread = Append(@, Message("WELCOME", 0))], S)
      /\ Honest([k EXCEPT !.handler = "serving", !.unread = Append(@, Message("AUTH", 0))], S)
      /\ Honest([[k EXCEPT !.handler = "gone"] EXCEPT !.unread = Append(@, Message("ERROR", 0))], S)
  <2>1. \A t \in {"WELCOME", "AUTH", "ERROR"} : t \in Kinds /\ t # "PONG" /\ 0 \in Nat
    BY DEF Kinds
  <2>2. /\ Honest([[k EXCEPT !.handler = "auth"] EXCEPT !.unread = Append(@, Message("WELCOME", 0))], S)
        /\ Honest([[k EXCEPT !.handler = "serving"] EXCEPT !.unread = Append(@, Message("AUTH", 0))], S)
        /\ Honest([[k EXCEPT !.handler = "gone"] EXCEPT !.unread = Append(@, Message("ERROR", 0))], S)
    BY <1>2, <2>1, UnreadHonest
  <2> QED
    BY <1>3, <2>2 DEF HandlerStates
<1>5. Honest(Broken(k), S)
  BY <1>2 DEF Broken
<1>6. Honest(AnswersHello(k), S)
  BY <1>4, <1>5 DEF AnswersHello
<1>7. \A j \in AnswersAuth(k) : Honest(j, S)
  BY <1>4, <1>5 DEF AnswersAuth, Broken
<1> QED
  BY <1>5, <1>6, <1>7

\* What an operation does to the sockets: all stay honest.
Keeps(S) == conn' \in [Sockets -> Socket] /\ \A s \in Sockets : Honest(conn'[s], S)

\* One socket is replaced by an honest one.
LEMMA ReplaceKeeps ==
  ASSUME TypeOK, NEW S, \A s \in Sockets : Honest(conn[s], S),
         NEW s \in Sockets, NEW k, Honest(k, S), conn' = [conn EXCEPT ![s] = k]
  PROVE  Keeps(S)
<1>1. k \in Socket
  BY DEF Honest
<1> QED
  BY <1>1 DEF Keeps, TypeOK

\* ::send() of the client.
LEMMA SentKeeps ==
  ASSUME TypeOK, NEW S, \A s \in Sockets : Honest(conn[s], S), fd # 0,
         NEW k, Honest(k, S), Sent(k)
  PROVE  Keeps(S)
<1>1. fd \in Sockets /\ conn \in [Sockets -> Socket] /\ Honest(conn[fd], S)
  BY DEF TypeOK
<1>2. conn' = [conn EXCEPT ![fd] = IF Served(fd) THEN k ELSE [@ EXCEPT !.state = "reset"]]
  BY DEF Sent
<1>3. Honest([conn[fd] EXCEPT !.state = "reset"], S)
  BY <1>1, FieldHonest DEF States
<1>4. CASE Served(fd)
  <2>1. conn' = [conn EXCEPT ![fd] = k]
    BY <1>2, <1>4
  <2> QED
    BY <1>1, <2>1, ReplaceKeeps
<1>5. CASE ~Served(fd)
  <2>1. conn' = [conn EXCEPT ![fd] = [conn[fd] EXCEPT !.state = "reset"]]
    BY <1>2, <1>5
  <2> QED
    BY <1>1, <1>3, <2>1, ReplaceKeeps
<1> QED
  BY <1>4, <1>5

\* A handler in the handshake leaves at any other message.
LEMMA TakesHonest ==
  ASSUME NEW S, NEW k, Honest(k, S), NEW j, Honest(j, S)
  PROVE  Honest(Takes(k, j), S)
<1>1. CASE k.handler = "hello"
  BY <1>1, AnswersHonest DEF Takes
<1>2. CASE k.handler = "auth"
  BY <1>2, AnswersHonest DEF Takes
<1>3. CASE k.handler # "hello" /\ k.handler # "auth"
  BY <1>3 DEF Takes
<1> QED
  BY <1>1, <1>2, <1>3

\* connectWithRetry() keeps the sockets honest.
LEMMA DialKeeps ==
  ASSUME TypeOK, NEW S, \A s \in Sockets : Honest(conn[s], S),
         Redial \/ Hello
  PROVE  Keeps(S) /\ fd' \in Sockets \cup {0}
<1>1. conn \in [Sockets -> Socket] /\ fd \in Sockets \cup {0}
  BY DEF TypeOK
<1>2. UNCHANGED conn => Keeps(S)
  BY <1>1 DEF Keeps
<1>3. CASE Connect
  <2>1. PICK s \in Sockets :
             /\ fd' = s
             /\ conn' = [conn EXCEPT ![s].state = "open",
                                     ![s].handler = IF server = "up" THEN "hello" ELSE "none"]
    BY <1>3 DEF Connect
  <2> DEFINE h == IF server = "up" THEN "hello" ELSE "none"
             k == [[conn[s] EXCEPT !.state = "open"] EXCEPT !.handler = h]
  <2>2. h \in HandlerStates /\ "open" \in States
    BY DEF HandlerStates, States
  <2>3. Honest([conn[s] EXCEPT !.state = "open"], S)
    BY <2>2, FieldHonest
  <2>4. Honest(k, S)
    BY <2>2, <2>3, FieldHonest
  <2>5. conn' = [conn EXCEPT ![s] = k]
    BY <1>1, <2>1 DEF Socket
  <2>6. Keeps(S)
    BY <2>4, <2>5, ReplaceKeeps
  <2> QED
    BY <2>1, <2>6
<1>4. CASE Hello
  <2>1. CASE fd # 0 /\ Sent(AnswersHello(conn[fd]))
    <3>1. Honest(AnswersHello(conn[fd]), S)
      BY <1>1, <2>1, AnswersHonest
    <3> QED
      BY <1>1, <1>4, <2>1, <3>1, SentKeeps DEF Hello
  <2>2. CASE UNCHANGED conn
    BY <1>1, <1>2, <1>4, <2>2 DEF Hello
  <2> QED
    BY <1>4, <2>1, <2>2 DEF Hello, SendThrows, SendKills
<1>5. CASE SendAuth
  <2>1. CASE fd # 0 /\ \E k \in AnswersAuth(conn[fd]) : Sent(k)
    <3>1. PICK k \in AnswersAuth(conn[fd]) : Sent(k)
      BY <2>1
    <3>2. Honest(k, S)
      BY <1>1, <2>1, AnswersHonest
    <3> QED
      BY <1>1, <1>5, <2>1, <3>1, <3>2, SentKeeps DEF SendAuth
  <2>2. CASE UNCHANGED conn
    BY <1>1, <1>2, <1>5, <2>2 DEF SendAuth
  <2> QED
    BY <1>5, <2>1, <2>2 DEF SendAuth, SendThrows, SendKills
<1>6. ASSUME NEW p, NEW t, NEW n, DialRecv(p, t, n)
      PROVE  Keeps(S) /\ fd' \in Sockets \cup {0}
  <2>1. CASE fd # 0 /\ conn[fd].unread # <<>>
    <3>1. conn' = [conn EXCEPT ![fd].unread = Tail(@)]
      BY <1>6, <2>1 DEF DialRecv
    <3>2. Genuine(Tail(conn[fd].unread), S)
      BY <1>1, <2>1, TailGenuine DEF Honest
    <3>3. Honest([conn[fd] EXCEPT !.unread = Tail(@)], S)
      BY <1>1, <2>1, <3>2, FieldHonest
    <3> QED
      BY <1>1, <1>6, <2>1, <3>1, <3>3, ReplaceKeeps DEF DialRecv
  <2>2. CASE ~(fd # 0 /\ conn[fd].unread # <<>>)
    BY <1>1, <1>2, <1>6, <2>2 DEF DialRecv
  <2> QED
    BY <2>1, <2>2
<1>7. CASE JoinAndClose
  <2>1. conn' = [s \in Sockets |-> IF s = fd THEN Free ELSE conn[s]] /\ fd' = 0
    BY <1>7 DEF JoinAndClose
  <2>2. Honest(Free, S)
    BY NothingGenuine DEF Honest, Free, Socket, States, HandlerStates, Genuine
  <2>3. \A s \in Sockets : Honest(conn'[s], S) /\ conn'[s] \in Socket
    BY <1>1, <2>1, <2>2 DEF Honest
  <2> QED
    BY <2>1, <2>3 DEF Keeps
<1>8. CASE StartAckReader \/ StopInbox
  BY <1>1, <1>2, <1>8 DEF StartAckReader, StopInbox
<1> QED
  BY <1>3, <1>4, <1>5, <1>6, <1>7, <1>8 DEF Redial, RecvWelcome, RecvAuth

\* What Client::send() writes keeps them honest.
LEMMA SendKeeps ==
  ASSUME TypeOK, NEW S, \A s \in Sockets : Honest(conn[s], S),
         NEW next, Send(next), lines' \in Nat
  PROVE  Keeps(S) /\ UNCHANGED fd
<1>1. conn \in [Sockets -> Socket] /\ fd \in Sockets \cup {0}
  BY DEF TypeOK
<1>2. UNCHANGED conn => Keeps(S)
  BY <1>1 DEF Keeps
<1>3. UNCHANGED fd
  BY DEF Send
<1>4. PICK request \in BOOLEAN :
        \/ /\ fd # 0
           /\ Sent(Takes(conn[fd], IF request THEN [conn[fd] EXCEPT !.asked = TRUE]
                                              ELSE [conn[fd] EXCEPT !.due = lines']))
        \/ UNCHANGED conn
  BY DEF Send, SendThrows, SendKills
<1> DEFINE j == IF request THEN [conn[fd] EXCEPT !.asked = TRUE] ELSE [conn[fd] EXCEPT !.due = lines']
<1>5. CASE fd # 0 /\ Sent(Takes(conn[fd], j))
  <2>1. Honest(conn[fd], S)
    BY <1>1, <1>5
  <2>2. Honest(j, S)
    BY <2>1, FieldHonest
  <2>3. Honest(Takes(conn[fd], j), S)
    BY <2>1, <2>2, TakesHonest
  <2> QED
    BY <1>3, <1>5, <2>3, SentKeeps
<1> QED
  BY <1>2, <1>3, <1>4, <1>5

\* Only a PING that is registered is sent.
LEMMA SendPingKeeps ==
  ASSUME TypeOK, NEW S, \A s \in Sockets : Honest(conn[s], S),
         SendPing, Len(stats) \in Pings, Len(stats) \in S
  PROVE  Keeps(S)
<1>1. conn \in [Sockets -> Socket] /\ fd \in Sockets \cup {0}
  BY DEF TypeOK
<1>2. CASE UNCHANGED conn
  BY <1>1, <1>2 DEF Keeps
<1> DEFINE j == [conn[fd] EXCEPT !.pings = @ \cup {Len(stats)}]
<1>3. CASE fd # 0 /\ Sent(Takes(conn[fd], j))
  <2>1. Honest(conn[fd], S)
    BY <1>1, <1>3
  <2>2. conn[fd].pings \cup {Len(stats)} \in SUBSET Pings /\ conn[fd].pings \cup {Len(stats)} \subseteq S
    BY <2>1 DEF Honest, Socket
  <2>3. Honest(j, S)
    BY <2>1, <2>2, FieldHonest
  <2>4. Honest(Takes(conn[fd], j), S)
    BY <2>1, <2>3, TakesHonest
  <2> QED
    BY <1>3, <2>4, SentKeeps
<1> QED
  BY <1>2, <1>3 DEF SendPing, SendThrows, SendKills

\* The server answers PINGs it has got.
LEMMA ServerIsHonest ==
  ASSUME TypeOK, NEW S, \A s \in Sockets : Honest(conn[s], S), Server
  PROVE  Keeps(S)
<1>1. conn \in [Sockets -> Socket]
  BY DEF TypeOK
<1>2. ASSUME NEW s \in Sockets, TextArrives(s)
      PROVE  Keeps(S)
  <2>1. PICK t \in Incoming : conn' = [conn EXCEPT ![s].unread = Append(@, Message(t, 0))]
    BY <1>2 DEF TextArrives, Incoming
  <2>2. t \in Kinds /\ t # "PONG"
    BY DEF Incoming, Kinds
  <2>3. Honest([conn[s] EXCEPT !.unread = Append(@, Message(t, 0))], S)
    BY <2>2, UnreadHonest
  <2>4. conn' = [conn EXCEPT ![s] = [conn[s] EXCEPT !.unread = Append(@, Message(t, 0))]]
    BY <1>1, <2>1
  <2> QED
    BY <2>3, <2>4, ReplaceKeeps
<1>3. ASSUME NEW s \in Sockets, AckArrives(s)
      PROVE  Keeps(S)
  <2> DEFINE n == conn[s].due
             j == [conn[s] EXCEPT !.due = 0]
  <2>1. n \in Nat /\ Honest(j, S)
    BY <1>1, FieldHonest DEF Socket
  <2>2. Honest([j EXCEPT !.unread = Append(@, Message("ACK", n))], S)
    BY <2>1, UnreadHonest DEF Kinds
  <2>3. conn' = [conn EXCEPT ![s] = [j EXCEPT !.unread = Append(@, Message("ACK", n))]]
    BY <1>1, <1>3 DEF AckArrives, Socket
  <2> QED
    BY <2>2, <2>3, ReplaceKeeps
<1>4. ASSUME NEW s \in Sockets, PongArrives(s)
      PROVE  Keeps(S)
  <2>1. PICK p \in conn[s].pings :
          conn' = [conn EXCEPT ![s].pings = @ \ {p}, ![s].unread = Append(@, Message("PONG", p))]
    BY <1>4 DEF PongArrives
  <2> DEFINE P == conn[s].pings \ {p}
             j == [conn[s] EXCEPT !.pings = P]
  <2>2. P \in SUBSET Pings /\ P \subseteq S /\ p \in S /\ p \in Nat
    BY <1>1, InboxAssumption DEF Honest, Socket, Pings
  <2>3. Honest(j, S)
    BY <2>2, FieldHonest
  <2>4. Honest([j EXCEPT !.unread = Append(@, Message("PONG", p))], S)
    BY <2>2, <2>3, UnreadHonest DEF Kinds
  <2>5. conn' = [conn EXCEPT ![s] = [j EXCEPT !.unread = Append(@, Message("PONG", p))]]
    BY <1>1, <2>1 DEF Socket
  <2> QED
    BY <2>4, <2>5, ReplaceKeeps
<1>5. ASSUME NEW s \in Sockets, SessionEnds(s)
      PROVE  Keeps(S)
  <2>1. Honest(Broken(conn[s]), S)
    BY AnswersHonest
  <2>2. conn' = [conn EXCEPT ![s] = Broken(conn[s])]
    BY <1>1, <1>5 DEF SessionEnds
  <2> QED
    BY <2>1, <2>2, ReplaceKeeps
<1>6. CASE ServerStops
  <2>1. PICK reset \in BOOLEAN :
          conn' = [s \in Sockets |->
                     IF ~Served(s) THEN conn[s]
                     ELSE [Broken(conn[s]) EXCEPT !.unread = IF reset THEN <<>> ELSE @]]
    BY <1>6 DEF ServerStops
  <2>2. ASSUME NEW s \in Sockets
        PROVE  Honest(conn'[s], S) /\ conn'[s] \in Socket
    <3> DEFINE k == Broken(conn[s])
               u == IF reset THEN <<>> ELSE k.unread
    <3>1. Honest(k, S)
      BY AnswersHonest
    <3>2. Genuine(u, S)
      BY <3>1, NothingGenuine DEF Honest
    <3>3. Honest([k EXCEPT !.unread = u], S)
      BY <3>1, <3>2, FieldHonest
    <3> QED
      BY <2>1, <3>3 DEF Honest
  <2> QED
    BY <2>1, <2>2 DEF Keeps
<1>7. CASE ServerStarts
  BY <1>1, <1>7 DEF ServerStarts, Keeps
<1> QED
  BY <1>2, <1>3, <1>4, <1>5, <1>6, <1>7 DEF Server

------------------------------------------------------------------------------
(* The report *)

\* The places in stats are the PINGs registered, and /ping has room for those to come.
PingsRegistered ==
  /\ pingSent = 1 .. Len(stats) /\ Len(stats) <= MaxPings
  /\ Alive /\ main = "register" => togo >= 1 /\ Len(stats) + togo <= MaxPings
  /\ Alive /\ main = "ping" => togo >= 1 /\ Len(stats) >= 1 /\ Len(stats) + togo <= MaxPings + 1

\* A PING has a round-trip time if and only if its PONG has been handled.
Measured ==
  /\ handled \subseteq pingSent /\ before \subseteq handled
  /\ \A p \in Pings : pingRtt[p] # NoRtt <=> p \in handled

\* The times in stats are those of PONGs handled, and the report has taken those of the
\* places it has passed that were handled before it was begun.
Reported ==
  /\ \A p \in DOMAIN stats : stats[p] # NoRtt => p \in handled
  /\ main = "print" => /\ print.at >= 1
                       /\ \A p \in DOMAIN stats : p < print.at /\ p \in before => stats[p] # NoRtt

ReportInv == TypeOK /\ OnlyRegistered /\ PingsRegistered /\ Measured /\ Reported

\* The places in stats are PINGs.
LEMMA StatsPlaces ==
  ASSUME TypeOK, PingsRegistered
  PROVE  /\ Len(stats) \in Nat /\ DOMAIN stats = 1 .. Len(stats) /\ DOMAIN stats = pingSent
         /\ \A p \in DOMAIN stats : p \in Pings /\ p \in Nat /\ stats[p] \in Rtts \cup {NoRtt}
         /\ NoRtt \notin Rtts /\ Rtts \subseteq Nat
<1>1. Len(stats) \in Nat /\ DOMAIN stats = 1 .. Len(stats) /\ DOMAIN stats = pingSent
  BY Elements DEF TypeOK, PingsRegistered
<1>2. \A p \in DOMAIN stats : stats[p] \in Rtts \cup {NoRtt}
  BY Elements DEF TypeOK
<1>3. \A p \in DOMAIN stats : p \in Pings /\ p \in Nat
  BY <1>1, InboxAssumption DEF Pings, PingsRegistered
<1> QED
  BY <1>1, <1>2, <1>3, InboxAssumption

reportVars == <<pingSent, pingRtt, stats, togo, print, handled, before>>

\* A step that lets what the report is made of alone, and begins none, disturbs nothing.
LEMMA OthersReport ==
  ASSUME ReportInv, UNCHANGED reportVars, Keeps(pingSent), fd' \in Sockets \cup {0},
         Genuine(inbox', pingSent), lines' \in Nat,
         main' \in {"register", "ping", "print"} => UNCHANGED main,
         Alive' => Alive
  PROVE  ReportInv'
<1> USE DEF reportVars
<1>1. TypeOK'
  BY DEF ReportInv, TypeOK, Keeps, Genuine
<1>2. OnlyRegistered'
  BY DEF OnlyRegistered, Keeps
<1>3. PingsRegistered' /\ Measured' /\ Reported'
  BY DEF ReportInv, PingsRegistered, Measured, Reported
<1> QED
  BY <1>1, <1>2, <1>3 DEF ReportInv

\* connectWithRetry(), the handshake and the server are such steps.
LEMMA DialReports ==
  ASSUME ReportInv, Redial \/ Hello \/ Server
  PROVE  ReportInv'
<1> USE DEF reportVars, pingVars, world, flags, inboxVars, threads, serverKeeps
<1>1. /\ TypeOK /\ OnlyRegistered /\ \A s \in Sockets : Honest(conn[s], pingSent)
      /\ Genuine(inbox, pingSent) /\ lines \in Nat /\ fd \in Sockets \cup {0}
  BY DEF ReportInv, OnlyRegistered, TypeOK
<1>2. CASE Redial \/ Hello
  <2>1. Keeps(pingSent) /\ fd' \in Sockets \cup {0}
    BY <1>1, <1>2, DialKeeps
  <2>2. UNCHANGED reportVars /\ UNCHANGED inbox
    BY <1>2 DEF Redial, Hello, Connect, SendAuth, RecvWelcome, RecvAuth, DialRecv, StartAckReader,
         StopInbox, JoinAndClose
  <2>3. lines' \in Nat
    BY <1>1, <1>2 DEF Redial, Hello, Connect, SendAuth, RecvWelcome, RecvAuth, DialRecv, StartAckReader,
         StopInbox, JoinAndClose
  <2>4. Alive /\ (main' \in {"register", "ping", "print"} => UNCHANGED main)
    BY <1>2 DEF Redial, Hello, Connect, SendAuth, RecvWelcome, RecvAuth, DialRecv, StartAckReader,
         StopInbox, JoinAndClose, At
  <2> QED
    BY <1>1, <2>1, <2>2, <2>3, <2>4, OthersReport
<1>3. CASE Server
  <2>1. Keeps(pingSent)
    BY <1>1, <1>3, ServerIsHonest
  <2>2. UNCHANGED <<reportVars, inbox, fd, lines, main, process>>
    BY <1>3 DEF Server, ServerStops, ServerStarts, TextArrives, AckArrives, PongArrives, SessionEnds
  <2> QED
    BY <1>1, <2>1, <2>2, OthersReport DEF Alive
<1> QED
  BY <1>2, <1>3

\* So is what the ack reader does: it moves a message from the socket to the inbox.
LEMMA AckReaderReports ==
  ASSUME ReportInv, AckReader
  PROVE  ReportInv'
<1> USE DEF reportVars, pingVars, world, flags, inboxVars, threads
<1>1. /\ TypeOK /\ OnlyRegistered /\ \A s \in Sockets : Honest(conn[s], pingSent)
      /\ Genuine(inbox, pingSent) /\ lines \in Nat /\ fd \in Sockets \cup {0}
      /\ conn \in [Sockets -> Socket]
  BY DEF ReportInv, OnlyRegistered, TypeOK
<1>2. CASE AckCheck \/ AckCall \/ AckEnds
  <2>1. UNCHANGED <<reportVars, conn, inbox, fd, lines, main>> /\ Alive
    BY <1>2 DEF AckCheck, AckCall, AckEnds
  <2>2. Keeps(pingSent)
    BY <1>1, <2>1 DEF Keeps
  <2> QED
    BY <1>1, <2>1, <2>2, OthersReport
<1>3. CASE AckTakes
  <2> DEFINE q == conn[ackFd].unread
  <2>1. ackFd \in Sockets /\ q # <<>> /\ Alive /\ UNCHANGED <<reportVars, fd, lines>>
    BY <1>3 DEF AckTakes
  <2>2. Honest(conn[ackFd], pingSent) /\ Genuine(q, pingSent)
    BY <1>1, <2>1 DEF Honest
  <2>3. /\ Genuine(Tail(q), pingSent)
        /\ Head(q) \in Messages /\ (Head(q).type = "PONG" => Head(q).id \in pingSent)
    BY <2>1, <2>2, TailGenuine
  <2>4. Keeps(pingSent)
    <3>1. Honest([conn[ackFd] EXCEPT !.unread = Tail(q)], pingSent)
      BY <2>2, <2>3, FieldHonest
    <3>2. conn' = [conn EXCEPT ![ackFd] = [conn[ackFd] EXCEPT !.unread = Tail(q)]]
      BY <1>1, <1>3 DEF AckTakes
    <3> QED
      BY <1>1, <2>1, <3>1, <3>2, ReplaceKeeps
  <2>5. Genuine(inbox', pingSent)
    <3>1. inbox' = inbox \/ inbox' = Append(inbox, Head(q))
      BY <1>3 DEF AckTakes
    <3> QED
      BY <1>1, <2>3, <3>1, AppendGenuine
  <2>6. main' \in {"register", "ping", "print"} => UNCHANGED main
    BY <1>3 DEF AckTakes
  <2> QED
    BY <1>1, <2>1, <2>4, <2>5, <2>6, OthersReport
<1> QED
  BY <1>2, <1>3 DEF AckReader

\* And so is what the main thread does outside /ping and the report.
LEMMA UserReports ==
  ASSUME ReportInv, SendText \/ GivesUp \/ Join \/ TypeCommand \/ TypeText \/ Quit
  PROVE  ReportInv'
<1> USE DEF reportVars, pingVars, world, flags, inboxVars, threads
<1>1. /\ TypeOK /\ OnlyRegistered /\ \A s \in Sockets : Honest(conn[s], pingSent)
      /\ Genuine(inbox, pingSent) /\ lines \in Nat /\ fd \in Sockets \cup {0}
      /\ conn \in [Sockets -> Socket]
  BY DEF ReportInv, OnlyRegistered, TypeOK
<1>2. ASSUME NEW next \in {"await", "awaitN"}, Send(next), lines' \in Nat, Alive
      PROVE  ReportInv'
  <2>1. Keeps(pingSent) /\ UNCHANGED fd
    BY <1>1, <1>2, SendKeeps
  <2>2. UNCHANGED <<reportVars, inbox>> /\ (main' \in {"register", "ping", "print"} => UNCHANGED main)
    BY <1>2 DEF Send
  <2> QED
    BY <1>1, <1>2, <2>1, <2>2, OthersReport
<1>3. CASE SendText
  BY <1>1, <1>2, <1>3 DEF SendText
<1>4. CASE TypeCommand
  <2>1. lines' \in Nat /\ Alive /\ \E next \in {"await", "awaitN"} : Send(next)
    BY <1>1, <1>4 DEF TypeCommand
  <2> QED
    BY <1>2, <2>1
<1>5. CASE GivesUp \/ Join \/ TypeText
  <2>1. UNCHANGED <<reportVars, conn, inbox, fd>> /\ Alive /\ lines' \in Nat
    BY <1>1, <1>5 DEF GivesUp, SendKills, Join, TypeText
  <2>2. main' \in {"register", "ping", "print"} => UNCHANGED main
    BY <1>5 DEF GivesUp, SendKills, Join, TypeText
  <2>3. Keeps(pingSent)
    BY <1>1, <2>1 DEF Keeps
  <2> QED
    BY <1>1, <2>1, <2>2, <2>3, OthersReport
<1>6. CASE Quit
  <2>1. UNCHANGED <<reportVars, inbox, main>> /\ Alive /\ lines' \in Nat /\ fd' = 0
    BY <1>1, <1>6 DEF Quit
  <2>2. conn' = [s \in Sockets |-> IF s = fd THEN [conn[s] EXCEPT !.state = "shut"] ELSE conn[s]]
    BY <1>6 DEF Quit
  <2>3. \A s \in Sockets : Honest([conn[s] EXCEPT !.state = "shut"], pingSent)
    BY <1>1, FieldHonest DEF States
  <2>4. \A s \in Sockets : Honest(conn'[s], pingSent) /\ conn'[s] \in Socket
    BY <1>1, <2>2, <2>3 DEF Honest
  <2>5. Keeps(pingSent)
    BY <2>2, <2>4 DEF Keeps
  <2> QED
    BY <1>1, <2>1, <2>5, OthersReport
<1> QED
  BY <1>3, <1>4, <1>5, <1>6

\* msg_reader: a PONG gives its PING a round-trip time.
LEMMA ReaderReports ==
  ASSUME ReportInv, Reader
  PROVE  ReportInv'
<1> USE DEF reportVars, pingVars, world, flags, inboxVars, threads
<1>1. /\ TypeOK /\ OnlyRegistered /\ PingsRegistered /\ Measured /\ Reported
      /\ \A s \in Sockets : Honest(conn[s], pingSent)
      /\ Genuine(inbox, pingSent) /\ lines \in Nat /\ fd \in Sockets \cup {0}
      /\ conn \in [Sockets -> Socket]
  BY DEF ReportInv, OnlyRegistered, TypeOK
<1>2. UNCHANGED <<conn, fd, lines, main>> /\ Alive
  BY DEF Reader, ReaderLoop, ReaderPop, ReaderLost, Clear
<1>3. Keeps(pingSent)
  BY <1>1, <1>2 DEF Keeps
<1>4. CASE UNCHANGED <<reportVars, inbox>>
  BY <1>1, <1>2, <1>3, <1>4, OthersReport DEF Alive
<1>5. CASE ReaderPop
  <2>1. inbox # <<>> /\ inbox' = Tail(inbox) /\ UNCHANGED <<pingSent, stats, togo, print, before>>
    BY <1>5 DEF ReaderPop
  <2>2. /\ Genuine(inbox', pingSent)
        /\ Head(inbox) \in Messages /\ (Head(inbox).type = "PONG" => Head(inbox).id \in pingSent)
    BY <1>1, <2>1, TailGenuine
  <2>3. CASE Head(inbox).type # "PONG"
    BY <1>1, <1>2, <1>3, <1>5, <2>1, <2>2, <2>3, OthersReport DEF ReaderPop, Alive
  <2>4. CASE Head(inbox).type = "PONG"
    <3> DEFINE p == Head(inbox).id
    <3>1. p \in pingSent /\ p \in Pings
      BY <1>1, <2>2, <2>4, StatsPlaces
    <3>2. PICK rtt \in Rtts : pingRtt' = [pingRtt EXCEPT ![p] = rtt] /\ handled' = handled \cup {p}
      BY <1>5, <2>4, <3>1 DEF ReaderPop, RegisterPong
    <3>3. pingRtt' \in [Pings -> Rtts \cup {NoRtt}] /\ rtt # NoRtt
      BY <1>1, <3>1, <3>2, StatsPlaces DEF TypeOK
    <3>4. TypeOK'
      BY <1>1, <1>2, <2>1, <2>2, <3>3 DEF TypeOK, Genuine
    <3>5. OnlyRegistered' /\ PingsRegistered'
      BY <1>1, <1>2, <2>1, <2>2 DEF OnlyRegistered, PingsRegistered, Alive
    <3>6. Measured'
      BY <1>1, <2>1, <3>1, <3>2, <3>3 DEF Measured, TypeOK
    <3>7. Reported'
      BY <1>1, <1>2, <2>1, <3>2 DEF Reported
    <3> QED
      BY <3>4, <3>5, <3>6, <3>7 DEF ReportInv
  <2> QED
    BY <2>3, <2>4
<1> QED
  BY <1>4, <1>5 DEF Reader, ReaderLoop, ReaderLost, Clear

\* /ping N registers PINGs there is room for, and sends each after it is registered.
LEMMA PingReports ==
  ASSUME ReportInv, TypePing \/ RegisterPing \/ SendPing
  PROVE  ReportInv'
<1> USE DEF pingVars, world, flags, inboxVars, threads
<1>1. /\ TypeOK /\ OnlyRegistered /\ PingsRegistered /\ Measured /\ Reported
      /\ \A s \in Sockets : Honest(conn[s], pingSent)
      /\ Genuine(inbox, pingSent) /\ lines \in Nat /\ togo \in Int
      /\ conn \in [Sockets -> Socket]
  BY DEF ReportInv, OnlyRegistered, TypeOK
<1>2. Len(stats) \in Nat /\ DOMAIN stats = 1 .. Len(stats) /\ MaxPings \in Nat
  BY <1>1, StatsPlaces, InboxAssumption
<1>3. Alive /\ UNCHANGED <<fd, inbox, pingRtt, print, handled, before>>
  BY DEF TypePing, RegisterPing, SendPing
<1>4. CASE TypePing
  <2>1. PICK n \in 1 .. MaxPings - Len(stats) : togo' = n
    BY <1>4 DEF TypePing
  <2>2. /\ UNCHANGED <<conn, pingSent, stats>> /\ main' = "register" /\ lines' = lines + 1
        /\ togo' \in Int
    BY <1>4, <2>1 DEF TypePing
  <2>3. TypeOK' /\ OnlyRegistered' /\ Measured' /\ Reported'
    BY <1>1, <1>3, <2>2 DEF TypeOK, OnlyRegistered, Measured, Reported
  <2>4. PingsRegistered'
    BY <1>1, <1>2, <2>1, <2>2 DEF PingsRegistered
  <2> QED
    BY <2>3, <2>4 DEF ReportInv
<1>5. CASE RegisterPing
  <2> DEFINE n == Len(stats) + 1
  <2>1. /\ UNCHANGED <<conn, togo, lines, process>> /\ main = "register" /\ main' = "ping"
        /\ pingSent' = pingSent \cup {n} /\ stats' = Append(stats, NoRtt)
    BY <1>5 DEF RegisterPing
  <2>2. /\ stats' \in Seq(Rtts \cup {NoRtt})
        /\ DOMAIN stats' = 1 .. n /\ Len(stats') = n /\ stats'[n] = NoRtt
        /\ \A i \in DOMAIN stats : stats'[i] = stats[i]
    <3>1. /\ Append(stats, NoRtt) \in Seq(Rtts \cup {NoRtt})
          /\ DOMAIN Append(stats, NoRtt) = 1 .. n /\ Append(stats, NoRtt)[n] = NoRtt
          /\ \A i \in DOMAIN stats : Append(stats, NoRtt)[i] = stats[i]
      BY <1>1, AppendElements DEF TypeOK
    <3>2. Len(Append(stats, NoRtt)) = n
      BY <1>1, AppendProperties DEF TypeOK
    <3> QED
      BY <2>1, <3>1, <3>2
  <2>3. PingsRegistered'
    <3>1. togo >= 1 /\ Len(stats) + togo <= MaxPings /\ pingSent = 1 .. Len(stats)
      BY <1>1, <1>3, <2>1 DEF PingsRegistered
    <3>2. pingSent' = 1 .. n
      BY <1>2, <2>1, <3>1
    <3> QED
      BY <1>1, <1>2, <2>1, <2>2, <3>1, <3>2 DEF PingsRegistered
  <2>4. TypeOK'
    BY <1>1, <1>3, <2>1, <2>2 DEF TypeOK
  <2>5. OnlyRegistered'
    <3>1. pingSent \subseteq pingSent'
      BY <2>1
    <3> QED
      BY <1>1, <1>3, <2>1, <3>1, GenuineGrows DEF OnlyRegistered
  <2>6. Measured'
    BY <1>1, <1>3, <2>1 DEF Measured
  <2>7. Reported'
    <3>1. \A p \in DOMAIN stats' : p \in DOMAIN stats \/ p = n
      BY <1>2, <2>2
    <3> QED
      BY <1>1, <1>3, <2>1, <2>2, <3>1 DEF Reported
  <2> QED
    BY <2>3, <2>4, <2>5, <2>6, <2>7 DEF ReportInv
<1>6. CASE SendPing
  <2>1. /\ UNCHANGED <<pingSent, stats, lines>> /\ main = "ping" /\ togo' = togo - 1
    BY <1>6 DEF SendPing
  <2>2. togo >= 1 /\ Len(stats) >= 1 /\ Len(stats) + togo <= MaxPings + 1
    BY <1>1, <1>3, <2>1 DEF PingsRegistered
  <2>3. Len(stats) \in Pings /\ Len(stats) \in pingSent
    BY <1>1, <1>2, <2>2, StatsPlaces
  <2>4. Keeps(pingSent)
    BY <1>1, <1>6, <2>3, SendPingKeeps
  <2>5. ~Alive' \/ main' = "join" \/ main' = IF togo = 1 THEN "collect" ELSE "register"
    BY <1>6 DEF SendPing, SendKills, Alive
  <2>6. main' \in {"join", "collect", "register", "ping"}
    BY <1>6 DEF SendPing, SendKills
  <2>7. TypeOK' /\ OnlyRegistered' /\ Measured'
    BY <1>1, <1>3, <2>1, <2>4 DEF TypeOK, OnlyRegistered, Measured, Keeps
  <2>8. Reported'
    BY <1>1, <1>3, <2>1, <2>6 DEF Reported
  <2>9. PingsRegistered'
    <3>1. pingSent' = 1 .. Len(stats') /\ Len(stats') <= MaxPings
      BY <1>1, <2>1 DEF PingsRegistered
    <3>2. Alive' => main' # "ping" /\ (main' = "register" => togo # 1)
      BY <2>5, <2>6
    <3>3. togo # 1 => togo' >= 1 /\ Len(stats') + togo' <= MaxPings
      BY <1>1, <1>2, <2>1, <2>2
    <3> QED
      BY <3>1, <3>2, <3>3 DEF PingsRegistered
  <2> QED
    BY <2>7, <2>8, <2>9 DEF ReportInv
<1> QED
  BY <1>4, <1>5, <1>6

\* printPingResults(): an element whose PONG was handled before it is looked at gets its
\* time, and keeps it.
LEMMA PrintReports ==
  ASSUME ReportInv, BeginPrint \/ PrintNext \/ Save
  PROVE  ReportInv'
<1> USE DEF pingVars, world, flags, inboxVars, threads
<1>1. /\ TypeOK /\ OnlyRegistered /\ PingsRegistered /\ Measured /\ Reported
      /\ \A s \in Sockets : Honest(conn[s], pingSent)
      /\ Genuine(inbox, pingSent) /\ lines \in Nat /\ print \in Printing
      /\ conn \in [Sockets -> Socket]
  BY DEF ReportInv, OnlyRegistered, TypeOK
<1>2. /\ Len(stats) \in Nat /\ DOMAIN stats = 1 .. Len(stats) /\ Rtts \subseteq Nat
      /\ \A p \in DOMAIN stats : p \in Pings
  BY <1>1, StatsPlaces
<1>3. UNCHANGED <<fd, conn, inbox, pingSent, pingRtt, togo, handled, process>>
  BY DEF BeginPrint, PrintNext, Save
<1>4. NotPrinting \in Printing
  BY DEF NotPrinting, Printing
<1>5. OnlyRegistered'
  BY <1>1, <1>3 DEF OnlyRegistered
<1>6. CASE BeginPrint
  <2>1. /\ UNCHANGED stats /\ main' = "print" /\ before' = handled /\ lines' \in Nat
        /\ print' = [NotPrinting EXCEPT !.at = 1]
    BY <1>1, <1>6 DEF BeginPrint
  <2>2. print' \in Printing /\ print'.at = 1
    BY <1>4, <2>1 DEF Printing
  <2>3. TypeOK' /\ PingsRegistered' /\ Measured'
    BY <1>1, <1>3, <2>1, <2>2 DEF TypeOK, PingsRegistered, Measured
  <2>4. Reported'
    BY <1>1, <1>2, <1>3, <2>1, <2>2 DEF Reported
  <2> QED
    BY <1>5, <2>3, <2>4 DEF ReportInv
<1>7. CASE PrintNext
  <2> DEFINE p == print.at
             rtt == pingRtt[p]
  <2>1. main = "print" /\ p <= Len(stats) /\ UNCHANGED <<main, lines, before>>
    BY <1>7 DEF PrintNext
  <2>2. p \in DOMAIN stats /\ p \in Pings /\ p \in Nat /\ rtt \in Rtts \cup {NoRtt}
    BY <1>1, <1>2, <2>1 DEF Reported, Printing, TypeOK
  <2>3. CASE rtt = NoRtt
    <3>1. print' = [print EXCEPT !.at = @ + 1] /\ UNCHANGED stats
      BY <1>7, <2>3 DEF PrintNext
    <3>2. print' \in Printing /\ print'.at = p + 1
      BY <1>1, <3>1 DEF Printing
    <3>3. p \notin before
      BY <1>1, <2>2, <2>3 DEF Measured
    <3>4. TypeOK' /\ PingsRegistered' /\ Measured'
      BY <1>1, <1>3, <2>1, <3>1, <3>2 DEF TypeOK, PingsRegistered, Measured, Alive
    <3>5. \A q \in DOMAIN stats : q < p + 1 => q < p \/ q = p
      BY <1>2, <2>2
    <3>6. Reported'
      BY <1>1, <1>3, <2>1, <2>2, <3>1, <3>2, <3>3, <3>5 DEF Reported
    <3> QED
      BY <1>5, <3>4, <3>6 DEF ReportInv
  <2>4. CASE rtt # NoRtt
    <3>1. /\ print' = [at |-> p + 1, received |-> print.received + 1,
                       rttSum |-> print.rttSum + rtt, prev |-> rtt,
                       jitterSum |-> print.jitterSum
                                     + IF print.prev >= 0 THEN Distance(rtt, print.prev) ELSE 0]
          /\ stats' = [stats EXCEPT ![p] = rtt]
      BY <1>7, <2>4 DEF PrintNext
    <3>2. print' \in Printing /\ print'.at = p + 1
      <4>1. rtt \in Nat
        BY <1>2, <2>2, <2>4
      <4>2. /\ print.received \in Nat /\ print.rttSum \in Nat /\ print.jitterSum \in Nat
            /\ print.prev \in Int
        BY <1>1 DEF Printing
      <4>3. print.prev >= 0 => Distance(rtt, print.prev) \in Nat
        BY <4>1, <4>2 DEF Distance
      <4>4. (IF print.prev >= 0 THEN Distance(rtt, print.prev) ELSE 0) \in Nat
        BY <4>3
      <4> QED
        BY <2>2, <3>1, <4>1, <4>2, <4>4 DEF Printing
    <3>3. /\ stats' \in Seq(Rtts \cup {NoRtt}) /\ Len(stats') = Len(stats)
          /\ DOMAIN stats' = DOMAIN stats
          /\ stats'[p] = rtt /\ \A q \in DOMAIN stats : q # p => stats'[q] = stats[q]
      BY <1>1, <2>2, <3>1, ExceptSeq, LenProperties DEF TypeOK
    <3>4. p \in handled
      BY <1>1, <2>2, <2>4 DEF Measured
    <3>5. TypeOK' /\ PingsRegistered' /\ Measured'
      BY <1>1, <1>3, <2>1, <3>2, <3>3 DEF TypeOK, PingsRegistered, Measured, Alive
    <3>6. \A q \in DOMAIN stats : q < p + 1 => q < p \/ q = p
      BY <1>2, <2>2
    <3>7. Reported'
      BY <1>1, <1>3, <2>1, <2>2, <2>4, <3>2, <3>3, <3>4, <3>6 DEF Reported
    <3> QED
      BY <1>5, <3>5, <3>7 DEF ReportInv
  <2> QED
    BY <2>3, <2>4
<1>8. CASE Save
  <2>1. UNCHANGED <<stats, before, lines>> /\ main' = "prompt" /\ print' = NotPrinting
    BY <1>8 DEF Save
  <2> QED
    BY <1>1, <1>3, <1>4, <1>5, <2>1 DEF ReportInv, TypeOK, PingsRegistered, Measured, Reported
<1> QED
  BY <1>6, <1>7, <1>8

\* The report's invariant holds in every behaviour.
LEMMA InboxReportHolds == Spec => []ReportInv
<1>1. Init => ReportInv
  <2> SUFFICES ASSUME Init PROVE ReportInv
    OBVIOUS
  <2> USE DEF Init
  <2>1. Genuine(<<>>, pingSent)
    BY NothingGenuine
  <2>2. Free \in Socket /\ Honest(Free, pingSent)
    BY <2>1 DEF Honest, Free, Socket, States, HandlerStates, Genuine
  <2>3. NotPrinting \in Printing
    BY DEF NotPrinting, Printing
  <2>4. stats \in Seq(Rtts \cup {NoRtt}) /\ Len(stats) = 0 /\ DOMAIN stats = {}
    BY EmptySeq
  <2>5. TypeOK
    BY <2>1, <2>2, <2>3, <2>4 DEF TypeOK, Genuine
  <2>6. OnlyRegistered
    BY <2>1, <2>2 DEF OnlyRegistered
  <2>7. PingsRegistered
    BY <2>4, InboxAssumption DEF PingsRegistered
  <2>8. Measured /\ Reported
    BY <2>4 DEF Measured, Reported
  <2> QED
    BY <2>5, <2>6, <2>7, <2>8 DEF ReportInv
<1>2. ReportInv /\ [Next]_vars => ReportInv'
  <2>1. CASE UNCHANGED vars
    BY <2>1 DEF vars, pingVars, world, flags, inboxVars, threads, ReportInv, TypeOK, OnlyRegistered,
         PingsRegistered, Measured, Reported, Alive
  <2>2. CASE Next
    BY <2>2, DialReports, AckReaderReports, UserReports, ReaderReports, PingReports, PrintReports
       DEF Next, Main, User
  <2> QED
    BY <2>1, <2>2
<1> QED
  BY <1>1, <1>2, PTL DEF Spec

\* A report counts every PING whose PONG was handled before printPingResults() began, and
\* no PING whose PONG has not been handled, whatever msg_reader handles meanwhile.
THEOREM InboxReportIsExact == Spec => []ReportIsExact
<1>1. ReportInv => ReportIsExact
  <2> SUFFICES ASSUME ReportInv, main = "print", print.at > Len(stats), NEW p \in DOMAIN stats
               PROVE  (p \in before => stats[p] # NoRtt) /\ (stats[p] # NoRtt => p \in handled)
    BY DEF ReportIsExact
  <2>1. p < print.at
    BY StatsPlaces DEF ReportInv, TypeOK, Printing
  <2> QED
    BY <2>1 DEF ReportInv, Reported
<1> QED
  BY <1>1, InboxReportHolds, PTL

------------------------------------------------------------------------------
(* The sums of the report *)

\* A recursion along a sequence depends on nothing but the elements passed.
LEMMA AccumulationPrefix ==
  ASSUME NEW f, NEW g, NEW s, NEW t, NEW a, NEW h, NEW m \in Nat, NEW n \in Nat, m <= n,
         Accumulates(f, s, m, a, h), Accumulates(g, t, n, a, h),
         \A i \in 1 .. m : s[i] = t[i]
  PROVE  f[m] = g[m]
<1> DEFINE N == {i \in Nat : i <= m => f[i] = g[i]}
<1>1. 0 \in N
  BY DEF Accumulates
<1>2. ASSUME NEW i \in Nat, i \in N
      PROVE  i + 1 \in N
  <2> SUFFICES ASSUME i + 1 <= m PROVE f[i + 1] = g[i + 1]
    OBVIOUS
  <2> DEFINE j == i + 1
  <2>1. f[i] = g[i] /\ s[j] = t[j] /\ j \in 1 .. m /\ j \in 1 .. n /\ j - 1 = i
    BY <1>2
  <2> HIDE DEF j
  <2>2. f[j] = h[<<f[j - 1], s[j]>>] /\ g[j] = h[<<g[j - 1], t[j]>>]
    BY <2>1 DEF Accumulates
  <2>3. f[j] = g[j]
    BY <2>1, <2>2
  <2> QED
    BY <2>3 DEF j
<1> HIDE DEF N
<1>3. Nat \subseteq N
  BY <1>1, <1>2, EveryNumber
<1> QED
  BY <1>3 DEF N

\* Accumulated() is the last value of such a function.
LEMMA Accumulating ==
  ASSUME NEW S, NEW T, NEW a, NEW h, Recursion(S, T, a, h), NEW s \in Seq(S)
  PROVE  \E f \in [0 .. Len(s) -> T] :
           Accumulates(f, s, Len(s), a, h) /\ Accumulated(h, a, s) = f[Len(s)]
<1> DEFINE Q(g) == g = [i \in 0 .. Len(s) |-> IF i = 0 THEN a ELSE h[<<g[i - 1], s[i]>>]]
           sum == CHOOSE g : Q(g)
<1>1. Len(s) \in Nat
  BY Elements
<1>2. PICK f \in [0 .. Len(s) -> T] : Accumulates(f, s, Len(s), a, h)
  BY AccumulationExists
<1>3. Q(f)
  <2>1. \A i \in 0 .. Len(s) : f[i] = IF i = 0 THEN a ELSE h[<<f[i - 1], s[i]>>]
    BY <1>1, <1>2 DEF Accumulates
  <2>2. f = [i \in 0 .. Len(s) |-> f[i]]
    BY <1>2
  <2> QED
    BY <2>1, <2>2
<1>4. Q(sum)
  BY <1>3
<1>5. Accumulated(h, a, s) = sum[Len(s)]
  BY DEF Accumulated
<1> HIDE DEF sum
<1>6. \A i \in 0 .. Len(s) : sum[i] = IF i = 0 THEN a ELSE h[<<sum[i - 1], s[i]>>]
  BY <1>4
<1>7. Accumulates(sum, s, Len(s), a, h)
  <2>1. \A i \in 1 .. Len(s) : i \in 0 .. Len(s) /\ i # 0
    BY <1>1
  <2>2. 0 \in 0 .. Len(s)
    BY <1>1
  <2>3. sum[0] = a
    BY <1>6, <2>2
  <2>4. \A i \in 1 .. Len(s) : sum[i] = h[<<sum[i - 1], s[i]>>]
    BY <1>6, <2>1
  <2> QED
    BY <2>3, <2>4 DEF Accumulates
<1>8. sum[Len(s)] = f[Len(s)]
  BY <1>1, <1>2, <1>7, AccumulationPrefix
<1>9. Accumulated(h, a, s) = f[Len(s)]
  BY <1>5, <1>8
<1> QED
  BY <1>2, <1>9

\* So the empty sequence gives the first value, and one more element takes one more step.
LEMMA AccumulatedSteps ==
  ASSUME NEW S, NEW T, NEW a, NEW h, Recursion(S, T, a, h), NEW s \in Seq(S)
  PROVE  /\ Accumulated(h, a, s) \in T
         /\ s = <<>> => Accumulated(h, a, s) = a
         /\ \A e \in S : Accumulated(h, a, Append(s, e)) = h[<<Accumulated(h, a, s), e>>]
<1>1. PICK f \in [0 .. Len(s) -> T] :
        Accumulates(f, s, Len(s), a, h) /\ Accumulated(h, a, s) = f[Len(s)]
  BY Accumulating
<1>2. Len(s) \in Nat
  BY Elements
<1>3. Accumulated(h, a, s) \in T
  BY <1>1, <1>2
<1>4. s = <<>> => Accumulated(h, a, s) = a
  <2>1. s = <<>> => Len(s) = 0
    OBVIOUS
  <2> QED
    BY <1>1, <2>1 DEF Accumulates
<1>5. ASSUME NEW e \in S
      PROVE  Accumulated(h, a, Append(s, e)) = h[<<Accumulated(h, a, s), e>>]
  <2> DEFINE t == Append(s, e)
  <2>1. t \in Seq(S) /\ Len(t) = Len(s) + 1 /\ t[Len(s) + 1] = e /\ \A i \in 1 .. Len(s) : t[i] = s[i]
    BY AppendProperties
  <2> HIDE DEF t
  <2>2. PICK g \in [0 .. Len(t) -> T] :
          Accumulates(g, t, Len(t), a, h) /\ Accumulated(h, a, t) = g[Len(t)]
    BY <2>1, Accumulating
  <2>3. f[Len(s)] = g[Len(s)]
    BY <1>1, <1>2, <2>1, <2>2, AccumulationPrefix
  <2>4. Len(t) \in 1 .. Len(t) /\ Len(t) - 1 = Len(s)
    BY <1>2, <2>1
  <2>5. g[Len(t)] = h[<<g[Len(t) - 1], t[Len(t)]>>]
    BY <2>2, <2>4 DEF Accumulates
  <2>6. Accumulated(h, a, t) = h[<<Accumulated(h, a, s), e>>]
    BY <1>1, <2>1, <2>2, <2>3, <2>4, <2>5
  <2> QED
    BY <2>6 DEF t
<1> QED
  BY <1>3, <1>4, <1>5

\* A sum grows by the last term.
LEMMA TotalGrows ==
  ASSUME NEW s \in Seq(Nat)
  PROVE  /\ Total(s) \in Nat
         /\ s = <<>> => Total(s) = 0
         /\ \A n \in Nat : Total(Append(s, n)) = Total(s) + n
<1>1. Add \in [Nat \X Nat -> Nat]
  BY DEF Add
<1>2. \A m, n \in Nat : Add[<<m, n>>] = m + n
  BY DEF Add
<1>3. Recursion(Nat, Nat, 0, Add)
  BY <1>1 DEF Recursion
<1>4. /\ Accumulated(Add, 0, s) \in Nat
      /\ s = <<>> => Accumulated(Add, 0, s) = 0
      /\ \A n \in Nat : Accumulated(Add, 0, Append(s, n)) = Add[<<Accumulated(Add, 0, s), n>>]
  BY <1>3, AccumulatedSteps
<1> QED
  BY <1>2, <1>4 DEF Total

\* Of a place in stats, Times() keeps the round-trip time if there is one.
LEMMA TimesGrow ==
  ASSUME NEW s \in Seq(Rtts \cup {NoRtt})
  PROVE  /\ Times(s) \in Seq(Rtts)
         /\ s = <<>> => Times(s) = <<>>
         /\ Times(Append(s, NoRtt)) = Times(s)
         /\ \A rtt \in Rtts : Times(Append(s, rtt)) = Append(Times(s), rtt)
<1>1. <<>> \in Seq(Rtts) /\ NoRtt \notin Rtts
  BY InboxAssumption, EmptySeq
<1>2. ASSUME NEW p \in Seq(Rtts) \X (Rtts \cup {NoRtt})
      PROVE  Keep[p] \in Seq(Rtts)
  <2>1. p[1] \in Seq(Rtts) /\ (p[2] # NoRtt => p[2] \in Rtts)
    OBVIOUS
  <2>2. p[2] # NoRtt => Append(p[1], p[2]) \in Seq(Rtts)
    BY <2>1, AppendProperties
  <2> QED
    BY <2>1, <2>2 DEF Keep
<1>3. Keep \in [Seq(Rtts) \X (Rtts \cup {NoRtt}) -> Seq(Rtts)]
  BY <1>2 DEF Keep
<1>4. \A t \in Seq(Rtts) : Keep[<<t, NoRtt>>] = t
  BY DEF Keep
<1>5. \A t \in Seq(Rtts), rtt \in Rtts : Keep[<<t, rtt>>] = Append(t, rtt)
  BY <1>1 DEF Keep
<1>6. Recursion(Rtts \cup {NoRtt}, Seq(Rtts), <<>>, Keep)
  BY <1>1, <1>3 DEF Recursion
<1>7. /\ Accumulated(Keep, <<>>, s) \in Seq(Rtts)
      /\ s = <<>> => Accumulated(Keep, <<>>, s) = <<>>
      /\ \A e \in Rtts \cup {NoRtt} :
           Accumulated(Keep, <<>>, Append(s, e)) = Keep[<<Accumulated(Keep, <<>>, s), e>>]
  BY <1>6, AccumulatedSteps
<1> QED
  BY <1>4, <1>5, <1>7 DEF Times

\* One more time adds one distance, that to the last time.
LEMMA DistancesGrow ==
  ASSUME NEW t \in Seq(Nat)
  PROVE  /\ Distances(t) \in Seq(Nat)
         /\ t = <<>> => Distances(t) = <<>>
         /\ \A n \in Nat : Distances(Append(t, n))
                             = Append(Distances(t), IF t = <<>> THEN 0 ELSE Distance(n, t[Len(t)]))
<1>1. ASSUME NEW u \in Seq(Nat)
      PROVE  /\ Distances(u) \in Seq(Nat) /\ Len(Distances(u)) = Len(u)
             /\ \A i \in 1 .. Len(u) :
                  Distances(u)[i] = IF i = 1 THEN 0 ELSE Distance(u[i - 1], u[i])
  <2>1. Len(u) \in Nat /\ DOMAIN u = 1 .. Len(u) /\ \A i \in 1 .. Len(u) : u[i] \in Nat
    BY Elements
  <2>2. \A i \in 1 .. Len(u) : (IF i = 1 THEN 0 ELSE Distance(u[i - 1], u[i])) \in Nat
    BY <2>1 DEF Distance
  <2> QED
    BY <2>1, <2>2 DEF Distances
<1>2. t = <<>> => Distances(t) = <<>>
  BY <1>1, EmptySeq
<1>3. ASSUME NEW n \in Nat
      PROVE  Distances(Append(t, n))
               = Append(Distances(t), IF t = <<>> THEN 0 ELSE Distance(n, t[Len(t)]))
  <2> DEFINE u == Append(t, n)
             d == IF t = <<>> THEN 0 ELSE Distance(n, t[Len(t)])
             v == Append(Distances(t), d)
  <2>1. Len(t) \in Nat /\ (\A i \in 1 .. Len(t) : t[i] \in Nat) /\ (t # <<>> => Len(t) # 0)
    BY Elements, EmptySeq
  <2>2. d \in Nat
    BY <2>1 DEF Distance
  <2>3. /\ u \in Seq(Nat) /\ Len(u) = Len(t) + 1 /\ u[Len(t) + 1] = n
        /\ \A i \in 1 .. Len(t) : u[i] = t[i]
    BY AppendProperties
  <2>4. /\ v \in Seq(Nat) /\ Len(v) = Len(t) + 1 /\ v[Len(t) + 1] = d
        /\ \A i \in 1 .. Len(t) : v[i] = Distances(t)[i]
    BY <1>1, <2>2, AppendProperties
  <2>5. d = IF Len(t) + 1 = 1 THEN 0 ELSE Distance(u[Len(t)], n)
    <3>1. CASE t = <<>>
      <4>1. Len(t) = 0
        BY <3>1
      <4> QED
        BY <3>1, <4>1
    <3>2. CASE t # <<>>
      <4>1. Len(t) \in 1 .. Len(t) /\ u[Len(t)] = t[Len(t)] /\ t[Len(t)] \in Nat /\ Len(t) + 1 # 1
        BY <2>1, <2>3, <3>2
      <4>2. Distance(n, t[Len(t)]) = Distance(t[Len(t)], n)
        BY <4>1 DEF Distance
      <4> QED
        BY <3>2, <4>1, <4>2
    <3> QED
      BY <3>1, <3>2
  <2> HIDE DEF u, v, d
  <2>6. ASSUME NEW i \in 1 .. Len(t) + 1
        PROVE  Distances(u)[i] = v[i]
    <3>1. Distances(u)[i] = IF i = 1 THEN 0 ELSE Distance(u[i - 1], u[i])
      BY <1>1, <2>3
    <3>2. CASE i = Len(t) + 1
      <4>1. i - 1 = Len(t)
        BY <2>1, <3>2
      <4> QED
        BY <2>3, <2>4, <2>5, <3>1, <3>2, <4>1
    <3>3. CASE i # Len(t) + 1
      <4>1. i \in 1 .. Len(t) /\ (i # 1 => i - 1 \in 1 .. Len(t))
        BY <2>1, <3>3
      <4>2. v[i] = IF i = 1 THEN 0 ELSE Distance(t[i - 1], t[i])
        BY <1>1, <2>4, <4>1
      <4>3. u[i] = t[i] /\ (i # 1 => u[i - 1] = t[i - 1])
        BY <2>3, <4>1
      <4> QED
        BY <3>1, <4>2, <4>3
    <3> QED
      BY <3>2, <3>3
  <2>7. Distances(u) \in Seq(Nat) /\ Len(Distances(u)) = Len(t) + 1
    BY <1>1, <2>3
  <2>8. Distances(u) = v
    BY <2>4, <2>6, <2>7, SeqEqual
  <2> QED
    BY <2>8 DEF u, v, d
<1> QED
  BY <1>1, <1>2, <1>3

\* What the local variables of printPingResults() hold for the elements it has looked at.
Sums(t) ==
  /\ print.received = Len(t) /\ print.rttSum = Total(t) /\ print.jitterSum = Total(Distances(t))
  /\ print.prev = IF t = <<>> THEN -1 ELSE t[Len(t)]
AgreeInv ==
  /\ SavedReportAgrees
  /\ main = "print" => /\ print.at <= Len(stats) + 1
                       /\ Sums(Times(SubSeq(stats, 1, print.at - 1)))

\* The elements looked at, after one more.
LEMMA OneMoreElement ==
  ASSUME NEW S, NEW s \in Seq(S), NEW k \in 1 .. Len(s), NEW e \in S
  PROVE  /\ SubSeq(s, 1, k - 1) \in Seq(S)
         /\ SubSeq([s EXCEPT ![k] = e], 1, k) = Append(SubSeq(s, 1, k - 1), e)
<1> DEFINE t == [s EXCEPT ![k] = e]
           u == SubSeq(s, 1, k - 1)
<1>1. Len(s) \in Nat /\ \A i \in 1 .. Len(s) : s[i] \in S
  BY Elements
<1>2. /\ t \in Seq(S) /\ Len(t) = Len(s) /\ t[k] = e
      /\ \A i \in 1 .. Len(s) : i # k => t[i] = s[i]
  BY ExceptSeq
<1>3. /\ u \in Seq(S) /\ Len(u) = k - 1 /\ \A i \in 1 .. k - 1 : u[i] = s[i]
  <2>1. \A i \in 1 .. k - 1 : s[i] \in S
    BY <1>1
  <2>2. u \in Seq(S) /\ Len(u) = (IF 1 <= k - 1 THEN k - 1 - 1 + 1 ELSE 0)
        /\ \A i \in 1 .. k - 1 - 1 + 1 : u[i] = s[1 + i - 1]
    BY <2>1, SubSeqProperties
  <2>3. k - 1 - 1 + 1 = k - 1 /\ (~(1 <= k - 1) => k - 1 = 0) /\ \A i \in 1 .. k - 1 : 1 + i - 1 = i
    BY <1>1
  <2> QED
    BY <2>2, <2>3
<1> HIDE DEF t, u
<1>4. /\ SubSeq(t, 1, k) \in Seq(S) /\ Len(SubSeq(t, 1, k)) = k
      /\ \A i \in 1 .. k : SubSeq(t, 1, k)[i] = t[i]
  <2>1. \A i \in 1 .. k : t[i] \in S
    BY <1>1, <1>2, Elements
  <2>2. SubSeq(t, 1, k) \in Seq(S) /\ Len(SubSeq(t, 1, k)) = (IF 1 <= k THEN k - 1 + 1 ELSE 0)
        /\ \A i \in 1 .. k - 1 + 1 : SubSeq(t, 1, k)[i] = t[1 + i - 1]
    BY <2>1, SubSeqProperties
  <2>3. k - 1 + 1 = k /\ 1 <= k /\ \A i \in 1 .. k : 1 + i - 1 = i
    BY <1>1
  <2> QED
    BY <2>2, <2>3
<1>5. /\ Append(u, e) \in Seq(S) /\ Len(Append(u, e)) = k /\ Append(u, e)[k] = e
      /\ \A i \in 1 .. k - 1 : Append(u, e)[i] = u[i]
  <2>1. k - 1 + 1 = k
    BY <1>1
  <2> QED
    BY <1>3, <2>1, AppendProperties
<1>6. \A i \in 1 .. k : SubSeq(t, 1, k)[i] = Append(u, e)[i]
  <2> SUFFICES ASSUME NEW i \in 1 .. k PROVE SubSeq(t, 1, k)[i] = Append(u, e)[i]
    OBVIOUS
  <2>1. CASE i = k
    BY <1>2, <1>4, <1>5, <2>1
  <2>2. CASE i # k
    <3>1. i \in 1 .. k - 1 /\ i \in 1 .. Len(s)
      BY <1>1, <2>2
    <3> QED
      BY <1>2, <1>3, <1>4, <1>5, <2>2, <3>1
  <2> QED
    BY <2>1, <2>2
<1>7. SubSeq(t, 1, k) = Append(u, e)
  BY <1>4, <1>5, <1>6, SeqEqual
<1> QED
  BY <1>3, <1>7 DEF t, u

\* One more time is counted and added, and so is its distance to the last one.
LEMMA SumsGrow ==
  ASSUME NEW t \in Seq(Rtts), NEW rtt \in Rtts, Sums(t),
         print'.received = print.received + 1, print'.rttSum = print.rttSum + rtt,
         print'.prev = rtt,
         print'.jitterSum = print.jitterSum
                            + IF print.prev >= 0 THEN Distance(rtt, print.prev) ELSE 0
  PROVE  /\ print'.received = Len(Append(t, rtt))
         /\ print'.rttSum = Total(Append(t, rtt))
         /\ print'.jitterSum = Total(Distances(Append(t, rtt)))
         /\ print'.prev = IF Append(t, rtt) = <<>> THEN -1 ELSE Append(t, rtt)[Len(Append(t, rtt))]
<1> DEFINE d == IF t = <<>> THEN 0 ELSE Distance(rtt, t[Len(t)])
<1>1. /\ Len(t) \in Nat /\ (\A i \in 1 .. Len(t) : t[i] \in Nat) /\ (t # <<>> => Len(t) # 0)
      /\ rtt \in Nat
  BY Elements, EmptySeq, InboxAssumption
<1>2. t \in Seq(Nat)
  BY <1>1
<1>3. d \in Nat
  BY <1>1 DEF Distance
<1>4. /\ Append(t, rtt) \in Seq(Rtts) /\ Len(Append(t, rtt)) = Len(t) + 1
      /\ Append(t, rtt)[Len(t) + 1] = rtt /\ Append(t, rtt) # <<>>
  BY AppendProperties
<1>5. Total(Append(t, rtt)) = Total(t) + rtt
  BY <1>1, <1>2, TotalGrows
<1>6. Total(Distances(Append(t, rtt))) = Total(Distances(t)) + d
  <2>1. Distances(Append(t, rtt)) = Append(Distances(t), d) /\ Distances(t) \in Seq(Nat)
    BY <1>1, <1>2, DistancesGrow
  <2> HIDE DEF d
  <2> QED
    BY <1>3, <2>1, TotalGrows
<1>7. (IF print.prev >= 0 THEN Distance(rtt, print.prev) ELSE 0) = d
  <2>1. CASE t = <<>>
    <3>1. print.prev = -1
      BY <2>1 DEF Sums
    <3>2. ~(print.prev >= 0)
      BY <3>1
    <3> QED
      BY <2>1, <3>2
  <2>2. CASE t # <<>>
    <3>1. print.prev = t[Len(t)]
      BY <2>2 DEF Sums
    <3>2. t[Len(t)] \in Nat
      BY <1>1, <2>2
    <3>3. print.prev >= 0
      BY <3>1, <3>2
    <3> QED
      BY <2>2, <3>1, <3>3
  <2> QED
    BY <2>1, <2>2
<1> HIDE DEF d
<1> QED
  BY <1>4, <1>5, <1>6, <1>7 DEF Sums

\* The steps of printPingResults().
LEMMA PrintAgrees ==
  ASSUME ReportInv, AgreeInv, BeginPrint \/ PrintNext \/ Save
  PROVE  AgreeInv'
<1> USE DEF pingVars, world, flags, inboxVars, threads
<1>1. /\ TypeOK /\ PingsRegistered /\ Measured /\ Reported
      /\ print \in Printing /\ stats \in Seq(Rtts \cup {NoRtt})
  BY DEF ReportInv, TypeOK
<1>2. /\ Len(stats) \in Nat /\ DOMAIN stats = 1 .. Len(stats)
      /\ \A p \in DOMAIN stats : p \in Pings /\ stats[p] \in Rtts \cup {NoRtt}
  BY <1>1, StatsPlaces
<1>3. CASE BeginPrint
  <2>1. UNCHANGED <<saved, stats>> /\ print' = [NotPrinting EXCEPT !.at = 1]
    BY <1>3 DEF BeginPrint
  <2>2. print' = [at |-> 1, received |-> 0, rttSum |-> 0, jitterSum |-> 0, prev |-> -1]
    BY <2>1 DEF NotPrinting
  <2>3. SubSeq(stats, 1, 0) = <<>>
    BY SubSeqEmpty
  <2>4. <<>> \in Seq(Rtts \cup {NoRtt}) /\ <<>> \in Seq(Nat)
    BY EmptySeq
  <2>5. Times(<<>>) = <<>> /\ Total(<<>>) = 0 /\ Distances(<<>>) = <<>>
    BY <2>4, TimesGrow, TotalGrows, DistancesGrow
  <2>6. Sums(Times(SubSeq(stats, 1, print.at - 1)))'
    <3>1. print'.at - 1 = 0 /\ stats' = stats
      BY <2>1, <2>2
    <3>2. Times(SubSeq(stats', 1, print'.at - 1)) = <<>>
      BY <2>3, <2>5, <3>1
    <3>3. Len(<<>>) = 0
      OBVIOUS
    <3> QED
      BY <2>2, <2>5, <3>2, <3>3 DEF Sums
  <2>7. print'.at <= Len(stats') + 1
    BY <1>2, <2>1, <2>2
  <2> QED
    BY <2>1, <2>6, <2>7 DEF AgreeInv, SavedReportAgrees
<1>4. CASE PrintNext
  <2> DEFINE k == print.at
             rtt == pingRtt[k]
             seen == SubSeq(stats, 1, k - 1)
  <2>1. main = "print" /\ k <= Len(stats) /\ UNCHANGED <<main, saved>>
    BY <1>4 DEF PrintNext
  <2>2. k \in 1 .. Len(stats) /\ k \in Pings /\ k \in Nat /\ rtt \in Rtts \cup {NoRtt}
    BY <1>1, <1>2, <2>1 DEF Reported, Printing, TypeOK
  <2>3. /\ seen \in Seq(Rtts \cup {NoRtt})
        /\ SubSeq([stats EXCEPT ![k] = rtt], 1, k) = Append(seen, rtt)
    BY <1>1, <2>2, OneMoreElement
  <2>4. Sums(Times(seen)) /\ Times(seen) \in Seq(Rtts)
    BY <2>1, <2>3, TimesGrow DEF AgreeInv
  <2>5. CASE rtt = NoRtt
    <3>1. print' = [print EXCEPT !.at = @ + 1] /\ UNCHANGED stats
      BY <1>4, <2>5 DEF PrintNext
    <3>2. /\ print'.at = k + 1 /\ print'.received = print.received /\ print'.rttSum = print.rttSum
          /\ print'.jitterSum = print.jitterSum /\ print'.prev = print.prev
      BY <1>1, <3>1 DEF Printing
    <3>3. stats[k] = NoRtt
      BY <1>1, <1>2, <2>2, <2>5 DEF Reported, Measured
    <3>4. [stats EXCEPT ![k] = rtt] = stats
      BY <1>1, <1>2, <2>2, <2>5, <3>3
    <3>5. SubSeq(stats', 1, print'.at - 1) = Append(seen, NoRtt)
      <4>1. print'.at - 1 = k
        BY <2>2, <3>2
      <4> QED
        BY <2>3, <2>5, <3>1, <3>4, <4>1
    <3>6. Times(SubSeq(stats', 1, print'.at - 1)) = Times(seen)
      BY <2>3, <3>5, TimesGrow
    <3>7. print'.at <= Len(stats') + 1
      BY <1>2, <2>1, <2>2, <3>1, <3>2
    <3>8. Sums(Times(SubSeq(stats, 1, print.at - 1)))'
      BY <2>4, <3>2, <3>6 DEF Sums
    <3> QED
      BY <2>1, <3>7, <3>8 DEF AgreeInv, SavedReportAgrees
  <2>6. CASE rtt # NoRtt
    <3>1. /\ print' = [at |-> k + 1, received |-> print.received + 1,
                       rttSum |-> print.rttSum + rtt, prev |-> rtt,
                       jitterSum |-> print.jitterSum
                                     + IF print.prev >= 0 THEN Distance(rtt, print.prev) ELSE 0]
          /\ stats' = [stats EXCEPT ![k] = rtt]
      BY <1>4, <2>6 DEF PrintNext
    <3>2. rtt \in Rtts
      BY <2>2, <2>6
    <3>3. SubSeq(stats', 1, print'.at - 1) = Append(seen, rtt)
      <4>1. print'.at - 1 = k
        BY <2>2, <3>1
      <4> QED
        BY <2>3, <3>1, <4>1
    <3>4. Times(SubSeq(stats', 1, print'.at - 1)) = Append(Times(seen), rtt)
      BY <2>3, <3>2, <3>3, TimesGrow
    <3>5. print'.at <= Len(stats') + 1
      <4>1. Len(stats') = Len(stats) /\ print'.at = k + 1
        BY <1>1, <2>2, <3>1, <3>2, ExceptSeq
      <4> QED
        BY <1>2, <2>1, <2>2, <4>1
    <3>6. /\ print'.received = print.received + 1 /\ print'.rttSum = print.rttSum + rtt
          /\ print'.prev = rtt
          /\ print'.jitterSum = print.jitterSum
                                + IF print.prev >= 0 THEN Distance(rtt, print.prev) ELSE 0
      BY <3>1
    <3>7. Sums(Times(SubSeq(stats, 1, print.at - 1)))'
      BY <2>4, <3>2, <3>4, <3>6, SumsGrow DEF Sums
    <3> QED
      BY <2>1, <3>5, <3>7 DEF AgreeInv, SavedReportAgrees
  <2> QED
    BY <2>5, <2>6
<1>5. CASE Save
  <2>1. /\ main = "print" /\ print.at > Len(stats) /\ main' = "prompt"
        /\ saved' = {[received |-> print.received, rttSum |-> print.rttSum,
                      jitterSum |-> print.jitterSum, packets |-> stats]}
    BY <1>5 DEF Save
  <2>2. print.at - 1 = Len(stats)
    BY <1>1, <1>2, <2>1 DEF AgreeInv, Printing
  <2>3. SubSeq(stats, 1, Len(stats)) = stats
    BY <1>1, SubSeqFull
  <2>4. Sums(Times(stats))
    BY <2>1, <2>2, <2>3 DEF AgreeInv
  <2> QED
    BY <2>1, <2>4 DEF AgreeInv, SavedReportAgrees, Sums
<1> QED
  BY <1>3, <1>4, <1>5

\* The averages in the file of a report are those of the packets beside them, whatever
\* PONGs msg_reader handles while printPingResults() computes them.
THEOREM InboxSavedReportAgrees == Spec => []SavedReportAgrees
<1>1. Init => AgreeInv
  BY DEF Init, AgreeInv, SavedReportAgrees
<1>2. ReportInv /\ AgreeInv /\ [Next]_vars => AgreeInv'
  <2>1. CASE BeginPrint \/ PrintNext \/ Save
    BY <2>1, PrintAgrees
  <2>2. ASSUME UNCHANGED <<print, saved>>, main' = "print" => main = "print" /\ UNCHANGED stats
        PROVE  AgreeInv => AgreeInv'
    BY <2>2 DEF AgreeInv, SavedReportAgrees, Sums
  <2> USE DEF pingVars, world, flags, inboxVars, threads, serverKeeps
  <2>3. CASE Redial
    BY <2>2, <2>3 DEF Redial, Connect, SendAuth, RecvWelcome, RecvAuth, DialRecv, StartAckReader, StopInbox,
         JoinAndClose
  <2>4. CASE AckReader
    BY <2>2, <2>4 DEF AckReader, AckCheck, AckCall, AckTakes, AckEnds
  <2>5. CASE Reader
    BY <2>2, <2>5 DEF Reader, ReaderLoop, ReaderPop, ReaderLost, Clear
  <2>6. CASE SendText \/ GivesUp \/ Join \/ RegisterPing \/ SendPing
    BY <2>2, <2>6 DEF SendText, Send, GivesUp, SendKills, Join, RegisterPing, SendPing
  <2>7. CASE User
    BY <2>2, <2>7 DEF User, Hello, TypeCommand, TypeText, Quit, TypePing, Send
  <2>8. CASE Server
    BY <2>2, <2>8 DEF Server, ServerStops, ServerStarts, TextArrives, AckArrives, PongArrives, SessionEnds
  <2>9. CASE UNCHANGED vars
    BY <2>2, <2>9 DEF vars
  <2> QED
    BY <2>1, <2>3, <2>4, <2>5, <2>6, <2>7, <2>8, <2>9 DEF Next, Main
<1>3. AgreeInv => SavedReportAgrees
  BY DEF AgreeInv
<1> QED
  BY <1>1, <1>2, <1>3, InboxReportHolds, PTL DEF Spec

==============================================================================
