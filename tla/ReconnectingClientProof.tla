------------------------ MODULE ReconnectingClientProof ------------------------
(***************************************************************************)
(* Proofs about ReconnectingClient for any numbers of sockets, lines,      *)
(* stops and texts: when connectWithRetry() of labs 4 and 5 has returned,  *)
(* the server has accepted the MSG_AUTH sent on the connection left behind, *)
(* although the main thread writes and quits while the reader dials; and   *)
(* the client leaves at most one socket open for each reconnection, and    *)
(* one for /quit.                                                          *)
(***************************************************************************)
EXTENDS ReconnectingClient, SequenceLemmas, FiniteSetTheorems

Replies == {"WELCOME", "AUTH", "ERROR", "TEXT", "ZERO"}
Socket == [state : {"free", "open", "shut", "reset"},
           handler : {"none", "hello", "auth", "serving", "gone"},
           authenticated : BOOLEAN, unread : Seq(Replies)]

\* MSG_AUTH is only sent to a client whose own MSG_AUTH has been accepted.
Honest(k) == k \in Socket /\ \A i \in DOMAIN k.unread : k.unread[i] = "AUTH" => k.authenticated

TypeOK ==
  /\ lab \in Labs /\ step \in 0 .. Len(Dial)
  /\ fd \in Sockets \cup {0} /\ readFd \in Sockets \cup {0}
  /\ conn \in [Sockets -> Socket]

\* One thread dials at a time, from the first step on, and the answer to MSG_AUTH is
\* awaited on the socket it was sent on, unless /quit has taken that away.
Handshake ==
  /\ main = "dial" => reader = "off"
  /\ ~Dialing => step = 1
  /\ Stage = "reply" => fd \in {0, readFd}

Authenticated ==
  /\ TypeOK /\ Handshake
  /\ \A s \in Sockets : Honest(conn[s])
  /\ ReadyMeansAuthenticated

------------------------------------------------------------------------------
\* Replacing socket s by k takes no socket into use and gives none back, unless s is
\* the client's own, which then is in use.
SameUse(s, k) == (k.state = "free" <=> conn[s].state = "free") \/ (s = fd /\ k.state # "free")

\* What an operation does to the sockets: none stops being honest or authenticated, and the
\* same ones are in use.
Keeps ==
  /\ conn' \in [Sockets -> Socket]
  /\ \A s \in Sockets : Honest(conn'[s]) /\ (conn[s].authenticated => conn'[s].authenticated) /\ SameUse(s, conn'[s])

\* No socket is numbered 0.
LEMMA SocketNumbers == Sockets \subseteq Nat \ {0}
  BY ClientAssumption DEF Sockets

\* The answer to MSG_AUTH is the last step of a handshake that has one.
LEMMA DialSteps ==
  ASSUME lab \in Labs
  PROVE  /\ Len(Dial) \in Nat \ {0, 1}
         /\ Dial[1] = "connect"
         /\ \A i \in 1 .. Len(Dial) :
              /\ Dial[i] = "connect" => i = 1
              /\ Dial[i] = "auth" => i # Len(Dial)
              /\ i = Len(Dial) => Dial[i] = (IF lab = 3 THEN "welcome" ELSE "reply")
              /\ i # Len(Dial) /\ Dial[i] # "auth" => Dial[i + 1] # "reply"
<1>1. lab \in {3, 4, 5}
  BY ClientAssumption
<1>2. lab = 3 => Dial = <<"connect", "hello", "welcome">>
  BY DEF Dial, Lab3Dial
<1>3. lab # 3 => Dial = <<"connect", "hello", "welcome", "auth", "reply">>
  BY <1>1 DEF Dial, Lab4Dial, Lab5Dial
<1>4. CASE lab = 3
  <2>1. Len(Dial) = 3 /\ Dial[1] = "connect" /\ Dial[2] = "hello" /\ Dial[3] = "welcome"
    BY <1>2, <1>4
  <2>2. 1 .. Len(Dial) = {1, 2, 3}
    BY <2>1
  <2> QED
    BY <1>4, <2>1, <2>2
<1>5. CASE lab # 3
  <2>1. /\ Len(Dial) = 5 /\ Dial[1] = "connect" /\ Dial[2] = "hello" /\ Dial[3] = "welcome"
        /\ Dial[4] = "auth" /\ Dial[5] = "reply"
    BY <1>3, <1>5
  <2>2. 1 .. Len(Dial) = 1 .. 5
    BY <2>1
  <2>3. \A i \in 1 .. 5 : i \in {1, 2, 3, 4, 5}
    OBVIOUS
  <2> QED
    BY <1>5, <2>1, <2>2, <2>3
<1> QED
  BY <1>1, <1>4, <1>5

\* A message that is not MSG_AUTH, or one to an authenticated client, keeps a socket honest.
LEMMA AppendHonest ==
  ASSUME NEW k, Honest(k), NEW m \in Replies, m = "AUTH" => k.authenticated
  PROVE  Honest([k EXCEPT !.unread = Append(@, m)])
<1> DEFINE u == Append(k.unread, m)
<1>1. k \in Socket /\ k.unread \in Seq(Replies)
  BY DEF Honest, Socket
<1>2. u \in Seq(Replies) /\ \A i \in DOMAIN u : u[i] = "AUTH" => k.authenticated
  <2>1. \A i \in DOMAIN u : (i \in DOMAIN k.unread /\ u[i] = k.unread[i]) \/ u[i] = m
    BY <1>1, AppendElements
  <2> QED
    BY <1>1, <2>1, AppendElements DEF Honest
<1>3. [k EXCEPT !.unread = u] \in Socket
  BY <1>1, <1>2 DEF Socket
<1>4. [k EXCEPT !.unread = u].unread = u /\ [k EXCEPT !.unread = u].authenticated = k.authenticated
  BY <1>1 DEF Socket
<1> QED
  BY <1>2, <1>3, <1>4 DEF Honest

\* Reading a message keeps a socket honest.
LEMMA TailHonest ==
  ASSUME NEW k, Honest(k), k.unread # <<>>
  PROVE  Honest([k EXCEPT !.unread = Tail(@)]) /\ (Head(k.unread) = "AUTH" => k.authenticated)
<1> DEFINE u == Tail(k.unread)
<1>1. k \in Socket /\ k.unread \in Seq(Replies)
  BY DEF Honest, Socket
<1>2. u \in Seq(Replies) /\ \A i \in DOMAIN u : u[i] = "AUTH" => k.authenticated
  BY <1>1, TailElements DEF Honest
<1>3. [k EXCEPT !.unread = u] \in Socket
  BY <1>1, <1>2 DEF Socket
<1>4. [k EXCEPT !.unread = u].unread = u /\ [k EXCEPT !.unread = u].authenticated = k.authenticated
  BY <1>1 DEF Socket
<1>5. Head(k.unread) = "AUTH" => k.authenticated
  BY <1>1, TailElements DEF Honest
<1> QED
  BY <1>2, <1>3, <1>4, <1>5 DEF Honest

\* So does a change of what does not concern the messages.
LEMMA FieldHonest ==
  ASSUME NEW k, Honest(k)
  PROVE  /\ \A h \in {"none", "hello", "auth", "serving", "gone"} : Honest([k EXCEPT !.handler = h])
         /\ \A t \in {"free", "open", "shut", "reset"} : Honest([k EXCEPT !.state = t])
         /\ Honest([k EXCEPT !.authenticated = TRUE])
         /\ \A u \in {<<>>, <<"ZERO">>} : Honest([k EXCEPT !.unread = u])
<1>1. k \in Socket
  BY DEF Honest
<1>2. \A u \in {<<>>, <<"ZERO">>} : u \in Seq(Replies) /\ \A i \in DOMAIN u : u[i] # "AUTH"
  <2>1. <<>> \in Seq(Replies) /\ DOMAIN << >> = {}
    BY EmptySeq
  <2>2. <<"ZERO">> \in Seq(Replies) /\ DOMAIN <<"ZERO">> = {1} /\ <<"ZERO">>[1] = "ZERO"
    BY DEF Replies
  <2> QED
    BY <2>1, <2>2
<1> QED
  BY <1>1, <1>2 DEF Honest, Socket

\* The server's handler answers honestly.
LEMMA AnswersHonest ==
  ASSUME NEW k, Honest(k), NEW m, NEW j \in Answers(k, m)
  PROVE  Honest(j) /\ (k.authenticated => j.authenticated) /\ j.state = k.state
<1>1. k \in Socket
  BY DEF Honest
<1>2. CASE k.handler = "hello"
  <2>1. PICK h \in {"serving", "auth"} : j = [k EXCEPT !.handler = h, !.unread = Append(@, "WELCOME")]
    BY <1>2 DEF Answers
  <2> DEFINE g == [k EXCEPT !.handler = h]
  <2>2. Honest(g) /\ g.authenticated = k.authenticated
    BY <1>1, FieldHonest DEF Socket
  <2>3. j = [g EXCEPT !.unread = Append(@, "WELCOME")] /\ j.state = k.state
    BY <1>1, <2>1 DEF Socket
  <2> QED
    BY <2>2, <2>3, AppendHonest, <1>1 DEF Replies, Socket, Honest
<1>3. CASE k.handler = "auth" /\ m = "AUTH"
  <2>1. CASE j = [k EXCEPT !.handler = "serving", !.authenticated = TRUE, !.unread = Append(@, "AUTH")]
    <3> DEFINE g == [[k EXCEPT !.authenticated = TRUE] EXCEPT !.handler = "serving"]
    <3>1. Honest([k EXCEPT !.authenticated = TRUE])
      BY FieldHonest
    <3>2. Honest(g) /\ g.authenticated
      BY <1>1, <3>1, FieldHonest DEF Socket
    <3>3. j = [g EXCEPT !.unread = Append(@, "AUTH")] /\ j.authenticated /\ j.state = k.state
      BY <1>1, <2>1 DEF Socket
    <3> QED
      BY <3>2, <3>3, AppendHonest DEF Replies
  <2>2. CASE j = [k EXCEPT !.handler = "gone", !.unread = Append(@, "ERROR")]
    <3> DEFINE g == [k EXCEPT !.handler = "gone"]
    <3>1. Honest(g) /\ g.authenticated = k.authenticated
      BY <1>1, FieldHonest DEF Socket
    <3>2. j = [g EXCEPT !.unread = Append(@, "ERROR")] /\ j.authenticated = k.authenticated /\ j.state = k.state
      BY <1>1, <2>2 DEF Socket
    <3> QED
      BY <3>1, <3>2, AppendHonest DEF Replies
  <2> QED
    BY <1>3, <2>1, <2>2 DEF Answers
<1>4. CASE k.handler # "hello" /\ ~(k.handler = "auth" /\ m = "AUTH")
  <2>1. j = k \/ j = [k EXCEPT !.handler = "gone"]
    BY <1>4 DEF Answers
  <2>2. CASE j = k
    BY <2>2
  <2>3. CASE j = [k EXCEPT !.handler = "gone"]
    <3>1. Honest(j)
      BY <2>3, FieldHonest
    <3>2. j.authenticated = k.authenticated /\ j.state = k.state
      BY <1>1, <2>3 DEF Socket
    <3> QED
      BY <3>1, <3>2
  <2> QED
    BY <2>1, <2>2, <2>3
<1> QED
  BY <1>2, <1>3, <1>4

\* One socket is replaced by an honest one that is authenticated if it was, and in use if it was.
LEMMA ReplaceKeeps ==
  ASSUME TypeOK, \A s \in Sockets : Honest(conn[s]),
         NEW s \in Sockets, NEW k, Honest(k), conn[s].authenticated => k.authenticated, SameUse(s, k),
         conn' = [conn EXCEPT ![s] = k]
  PROVE  Keeps
  BY DEF Keeps, TypeOK, Honest, SameUse

\* So does writing a message, to a server that reads it or to one that has gone.
LEMMA SentKeeps ==
  ASSUME TypeOK, \A s \in Sockets : Honest(conn[s]), NEW m, Sent(m)
  PROVE  Keeps
<1>1. fd \in Sockets
  BY DEF TypeOK, Sent
<1>2. PICK k \in Answers(conn[fd], m) :
        conn' = [conn EXCEPT ![fd] = IF Served(fd) THEN k ELSE [@ EXCEPT !.state = "reset"]]
  BY DEF Sent
<1>3. Honest(k) /\ (conn[fd].authenticated => k.authenticated) /\ SameUse(fd, k)
  BY <1>1, AnswersHonest DEF SameUse
<1>4. Honest([conn[fd] EXCEPT !.state = "reset"])
  BY <1>1, FieldHonest
<1>5. /\ conn[fd].authenticated => [conn[fd] EXCEPT !.state = "reset"].authenticated
      /\ SameUse(fd, [conn[fd] EXCEPT !.state = "reset"])
  BY <1>1 DEF TypeOK, Socket, SameUse
<1>6. CASE Served(fd)
  <2>1. conn' = [conn EXCEPT ![fd] = k]
    BY <1>1, <1>2, <1>6
  <2> QED
    BY <1>1, <1>3, <2>1, ReplaceKeeps
<1>7. CASE ~Served(fd)
  <2>1. conn' = [conn EXCEPT ![fd] = [conn[fd] EXCEPT !.state = "reset"]]
    BY <1>1, <1>2, <1>7
  <2> QED
    BY <1>1, <1>4, <1>5, <2>1, ReplaceKeeps
<1> QED
  BY <1>6, <1>7

\* Every step keeps the sockets, but for connect(), which takes a new one, and reset(),
\* which gives one back.
LEMMA SocketsKept ==
  ASSUME TypeOK, \A s \in Sockets : Honest(conn[s]),
         Auth \/ DialRecv \/ ReaderStep \/ MainStep \/ User \/ SpuriousWake \/ Server \/ UNCHANGED vars
  PROVE  Keeps
<1>1. CASE UNCHANGED conn
  BY <1>1 DEF Keeps, TypeOK, SameUse
<1>2. CASE \E m : Sent(m)
  BY <1>2, SentKeeps
<1>3. CASE \E s \in Sockets : conn[s].unread # <<>> /\ conn' = [conn EXCEPT ![s].unread = Tail(@)]
  <2>1. PICK s \in Sockets : conn[s].unread # <<>> /\ conn' = [conn EXCEPT ![s].unread = Tail(@)]
    BY <1>3
  <2> DEFINE k == [conn[s] EXCEPT !.unread = Tail(@)]
  <2>2. Honest(k)
    BY <2>1, TailHonest
  <2>3. conn' = [conn EXCEPT ![s] = k] /\ k.authenticated = conn[s].authenticated
    BY <2>1 DEF TypeOK, Socket
  <2>4. SameUse(s, k)
    BY DEF TypeOK, Socket, SameUse
  <2> QED
    BY <2>2, <2>3, <2>4, ReplaceKeeps
<1>4. CASE DialRecv
  <2>1. readFd \in Sockets
    BY <1>4 DEF DialRecv, TypeOK
  <2>2. conn' = [conn EXCEPT ![readFd].unread = IF @ = <<>> THEN @ ELSE Tail(@)]
    BY <1>4 DEF DialRecv
  <2>3. CASE conn[readFd].unread = <<>>
    <3>1. conn' = conn
      BY <2>1, <2>2, <2>3 DEF TypeOK, Socket
    <3> QED
      BY <1>1, <3>1
  <2>4. CASE conn[readFd].unread # <<>>
    <3>1. conn' = [conn EXCEPT ![readFd].unread = Tail(@)]
      BY <2>1, <2>2, <2>4
    <3> QED
      BY <1>3, <2>1, <2>4, <3>1
  <2> QED
    BY <2>3, <2>4
<1>5. CASE Show
  <2>1. readFd \in Sockets \/ UNCHANGED conn
    BY <1>5 DEF Show, TypeOK
  <2> QED
    BY <1>1, <1>3, <1>5, <2>1 DEF Show
<1>6. CASE Quit
  <2>1. \A s \in Sockets : Honest([conn[s] EXCEPT !.state = "shut"])
    BY FieldHonest
  <2>2. \A s \in Sockets : [conn[s] EXCEPT !.state = "shut"].authenticated = conn[s].authenticated
    BY DEF TypeOK, Socket
  <2> QED
    BY <1>6, <2>1, <2>2 DEF Quit, Keeps, Honest, SameUse, TypeOK, Socket
<1>7. ASSUME NEW s \in Sockets, TextArrives(s)
      PROVE  Keeps
  <2> DEFINE k == [conn[s] EXCEPT !.unread = Append(@, "TEXT")]
  <2>1. Honest(k)
    BY AppendHonest DEF Replies
  <2>2. conn' = [conn EXCEPT ![s] = k] /\ k.authenticated = conn[s].authenticated
    BY <1>7 DEF TextArrives, TypeOK, Socket
  <2>3. SameUse(s, k)
    BY DEF TypeOK, Socket, SameUse
  <2> QED
    BY <2>1, <2>2, <2>3, ReplaceKeeps
<1>8. ASSUME NEW s \in Sockets, SeesShutdown(s)
      PROVE  Keeps
  <2> DEFINE k == [conn[s] EXCEPT !.handler = "gone"]
  <2>1. Honest(k)
    BY FieldHonest
  <2>2. conn' = [conn EXCEPT ![s] = k] /\ k.authenticated = conn[s].authenticated
    BY <1>8 DEF SeesShutdown, TypeOK, Socket
  <2>3. SameUse(s, k)
    BY DEF TypeOK, Socket, SameUse
  <2> QED
    BY <2>1, <2>2, <2>3, ReplaceKeeps
<1>9. CASE ServerStops
  <2>1. PICK reset \in BOOLEAN :
          conn' = [s \in Sockets |->
                     IF ~Served(s) THEN conn[s]
                     ELSE [conn[s] EXCEPT !.handler = "gone",
                                          !.unread = IF ~reset THEN @ ELSE IF lab = 5 THEN <<>> ELSE <<"ZERO">>]]
    BY <1>9 DEF ServerStops
  <2>2. ASSUME NEW s \in Sockets
        PROVE  Honest(conn'[s]) /\ conn'[s].authenticated = conn[s].authenticated /\ conn'[s].state = conn[s].state
    <3> DEFINE g == [conn[s] EXCEPT !.handler = "gone"]
    <3>1. Honest(g) /\ g.authenticated = conn[s].authenticated /\ g.state = conn[s].state /\ g \in Socket /\ conn[s] \in Socket
      <4>1. Honest(g)
        BY FieldHonest
      <4>2. conn[s] \in Socket /\ g \in Socket
        BY <4>1 DEF TypeOK, Honest
      <4> QED
        BY <4>1, <4>2 DEF Socket
    <3>2. \/ conn'[s] = conn[s] \/ conn'[s] = g
          \/ \E u \in {<<>>, <<"ZERO">>} : conn'[s] = [g EXCEPT !.unread = u]
      BY <2>1, <3>1 DEF Socket
    <3>3. \A u \in {<<>>, <<"ZERO">>} :
            /\ Honest([g EXCEPT !.unread = u])
            /\ [g EXCEPT !.unread = u].authenticated = g.authenticated /\ [g EXCEPT !.unread = u].state = g.state
      BY <3>1, FieldHonest DEF Socket
    <3> QED
      BY <3>1, <3>2, <3>3
  <2> QED
    BY <2>1, <2>2 DEF Keeps, Honest, SameUse
<1>10. CASE Auth \/ User
  BY <1>1, <1>2, <1>6, <1>10
     DEF Auth, User, Hello, TypeText, TypeCommand, Lab3Command, Lab4Command, Lab5Command, MainSends, SendThrows, SendKills
<1>11. CASE ReaderStep
  BY <1>1, <1>5, <1>11 DEF ReaderStep, ReaderLoop, Call, Lose, TestRunning, Claim, Clear, Notify
<1>12. CASE MainStep
  BY <1>1, <1>2, <1>12 DEF MainStep, Test, FallAsleep, WriteText, Join, MainSends, SendThrows, SendKills
<1>13. CASE Server
  BY <1>1, <1>7, <1>8, <1>9, <1>13 DEF Server, ServerStarts
<1>14. CASE SpuriousWake \/ UNCHANGED vars
  BY <1>1, <1>14 DEF SpuriousWake, vars
<1> QED
  BY <1>4, <1>10, <1>11, <1>12, <1>13, <1>14

\* The sockets that are taken and given back are honest, too.
LEMMA SocketsHonest ==
  ASSUME TypeOK, \A s \in Sockets : Honest(conn[s]), Connect \/ Retry
  PROVE  conn' \in [Sockets -> Socket] /\ \A s \in Sockets : Honest(conn'[s])
<1>1. Honest(Accepted) /\ Honest(Raw) /\ Honest(Free)
  <2>1. <<>> \in Seq(Replies) /\ DOMAIN << >> = {}
    BY EmptySeq
  <2>2. Honest(Free)
    BY <2>1 DEF Free, Honest, Socket
  <2>3. Honest(Raw)
    BY <2>2, FieldHonest DEF Raw
  <2> QED
    BY <2>2, <2>3, FieldHonest DEF Accepted
<1>2. CASE Connect
  <2>1. PICK s \in Sockets : conn' = [conn EXCEPT ![s] = IF server = "up" THEN Accepted ELSE Raw]
    BY <1>2 DEF Connect
  <2> QED
    BY <1>1, <2>1 DEF TypeOK, Honest
<1>3. CASE Retry
  <2>1. conn' = [s \in Sockets |-> IF s = fd THEN Free ELSE conn[s]]
    BY <1>3 DEF Retry
  <2> QED
    BY <1>1, <2>1 DEF TypeOK, Honest
<1> QED
  BY <1>2, <1>3

------------------------------------------------------------------------------
\* Steps that do not dial keep what has been established.
LEMMA IdleKeeps ==
  ASSUME Authenticated, Keeps, UNCHANGED <<lab, step>>, fd' \in {fd, 0},
         main' = "dial" => reader' = "off", Dialing => Dialing',
         readFd' = readFd \/ (~Dialing /\ readFd' \in Sockets \cup {0})
  PROVE  Authenticated'
<1>1. TypeOK' /\ \A s \in Sockets : Honest(conn'[s])
  BY DEF Authenticated, TypeOK, Keeps, Dial, Lab3Dial, Lab4Dial, Lab5Dial
<1>2. Handshake'
  <2>1. Dial' = Dial
    BY DEF Dial, Lab3Dial, Lab4Dial, Lab5Dial
  <2>2. ~Dialing => step = 1 /\ Dial[step] = "connect"
    BY DialSteps DEF Authenticated, Handshake, TypeOK
  <2>3. ~Dialing' => step' = 1
    BY <2>2
  <2>4. Stage' = "reply" => Stage = "reply"
    BY <2>1, <2>2 DEF Stage
  <2>5. Stage = "reply" => Dialing
    BY DEF Stage
  <2> QED
    BY <2>3, <2>4, <2>5 DEF Authenticated, Handshake
<1>3. ReadyMeansAuthenticated'
  BY SocketNumbers DEF Authenticated, TypeOK, ReadyMeansAuthenticated, Keeps
<1> QED
  BY <1>1, <1>2, <1>3 DEF Authenticated

\* A step of connectWithRetry() keeps it, if the last one leaves a socket that is authenticated.
LEMMA DiallingKeeps ==
  ASSUME Authenticated, Dialing, step > 0, UNCHANGED lab,
         conn' \in [Sockets -> Socket], \A s \in Sockets : Honest(conn'[s]),
         fd' \in Sockets \cup {0}, readFd' \in Sockets \cup {0},
         Passed \/ Failed \/ (UNCHANGED threads /\ Stage # "reply"),
         Stage = "auth" => readFd' = fd',
         step = Len(Dial) /\ lab # 3 /\ Passed /\ fd' # 0 => conn'[fd'].authenticated
  PROVE  Authenticated'
<1>1. Dial' = Dial /\ step \in 1 .. Len(Dial) /\ lab \in Labs /\ Len(Dial) \in Nat
  <2>1. lab \in Labs /\ step \in 0 .. Len(Dial)
    BY DEF Authenticated, TypeOK
  <2>2. Dial' = Dial
    BY DEF Dial, Lab3Dial, Lab4Dial, Lab5Dial
  <2> QED
    BY <2>1, <2>2, DialSteps
<1>2. Stage = Dial[step]
  BY DEF Stage
<1>3. CASE Failed
  <2>1. Dialing' /\ Stage' = "none" /\ step' = 0
    BY <1>3 DEF Failed, Dialing, Stage
  <2> QED
    BY <1>1, <1>3, <2>1 DEF Authenticated, TypeOK, Handshake, ReadyMeansAuthenticated, Failed
<1>4. CASE UNCHANGED threads /\ Stage # "reply"
  <2>1. Dialing' /\ Stage' = Stage
    BY <1>1, <1>4 DEF threads, Dialing, Stage
  <2> QED
    BY <1>1, <1>4, <2>1 DEF Authenticated, TypeOK, Handshake, ReadyMeansAuthenticated, threads
<1>5. CASE Passed /\ step # Len(Dial)
  <2>1. Dialing' /\ step' = step + 1 /\ UNCHANGED <<main, reader>> /\ Stage' = Dial[step + 1]
    BY <1>1, <1>5 DEF Passed, Dialing, Stage
  <2>2. Stage' = "reply" => Stage = "auth"
    BY <1>1, <1>2, <1>5, <2>1, DialSteps
  <2> QED
    BY <1>1, <1>5, <2>1, <2>2 DEF Authenticated, TypeOK, Handshake, ReadyMeansAuthenticated
<1>6. CASE Passed /\ step = Len(Dial)
  <2>1. step' = 1 /\ main' # "dial" /\ reader' \in {"loop", "clear"}
    BY <1>6 DEF Passed, Returned, Dialing
  <2>2. ~Dialing' /\ Stage' = "none"
    BY <2>1 DEF Dialing, Stage
  <2> QED
    BY <1>1, <1>6, <2>1, <2>2, DialSteps DEF Authenticated, TypeOK, Handshake, ReadyMeansAuthenticated
<1> QED
  BY <1>3, <1>4, <1>5, <1>6

------------------------------------------------------------------------------
\* What has been established holds in every reachable state.
LEMMA AuthenticatedHolds == SafeSpec => []Authenticated
<1>1. Init => Authenticated
  <2> SUFFICES ASSUME Init PROVE Authenticated
    OBVIOUS
  <2>1. Honest(Free) /\ Free \in Socket
    <3>1. <<>> \in Seq(Replies) /\ DOMAIN << >> = {}
      BY EmptySeq
    <3> QED
      BY <3>1 DEF Honest, Socket, Free
  <2>2. conn \in [Sockets -> Socket] /\ \A s \in Sockets : Honest(conn[s])
    BY <2>1 DEF Init
  <2>3. lab \in Labs /\ Dialing /\ Stage = "connect" /\ step = 1
    BY DialSteps DEF Init, Dialing, Stage
  <2>4. step \in 0 .. Len(Dial)
    BY <2>3, DialSteps
  <2> QED
    BY <2>2, <2>3, <2>4 DEF Init, Authenticated, TypeOK, Handshake, ReadyMeansAuthenticated
<1>2. Authenticated /\ [Next]_vars => Authenticated'
  <2> SUFFICES ASSUME Authenticated, [Next]_vars PROVE Authenticated'
    OBVIOUS
  <2>1. TypeOK /\ \A s \in Sockets : Honest(conn[s])
    BY DEF Authenticated
  <2>2. CASE Retry
    <3>1. conn' \in [Sockets -> Socket] /\ \A s \in Sockets : Honest(conn'[s])
      BY <2>1, <2>2, SocketsHonest
    <3>2. lab \in Labs /\ Dial' = Dial /\ Dial[1] = "connect" /\ Len(Dial) \in Nat \ {0}
      BY <2>1, <2>2, DialSteps DEF Retry, TypeOK, Dial, Lab3Dial, Lab4Dial, Lab5Dial
    <3>3. Dialing' /\ Stage' = "connect"
      BY <2>2, <3>2 DEF Retry, Dialing, Stage
    <3> QED
      BY <2>1, <2>2, <3>1, <3>2, <3>3 DEF Retry, Authenticated, TypeOK, Handshake, ReadyMeansAuthenticated
  <2>3. CASE Connect
    <3>1. conn' \in [Sockets -> Socket] /\ \A s \in Sockets : Honest(conn'[s])
      BY <2>1, <2>3, SocketsHonest
    <3>2. Dialing /\ step > 0 /\ Dial[step] = "connect" /\ step \in 1 .. Len(Dial)
      BY <2>1, <2>3, DialSteps DEF Connect, Stage, TypeOK
    <3>3. step # Len(Dial)
      BY <2>1, <3>2, DialSteps DEF TypeOK
    <3>4. fd' \in Sockets /\ readFd' \in Sockets \cup {0} /\ (Passed \/ Failed) /\ UNCHANGED lab
      BY <2>1, <2>3 DEF Connect, TypeOK
    <3> QED
      BY <2>3, <3>1, <3>2, <3>3, <3>4, DiallingKeeps DEF Connect
  <2>4. CASE Hello \/ Auth
    <3>1. Keeps
      BY <2>1, <2>4, SocketsKept DEF User
    <3>2. Dialing /\ step > 0 /\ Dial[step] \in {"hello", "auth"} /\ step \in 1 .. Len(Dial) /\ Stage = Dial[step]
      BY <2>1, <2>4, DialSteps DEF Hello, Auth, Stage, TypeOK
    <3>3. step # Len(Dial)
      BY <2>1, <3>2, DialSteps DEF TypeOK
    <3>4. /\ fd' = fd /\ readFd' = fd /\ UNCHANGED lab
          /\ Passed \/ Failed \/ UNCHANGED threads
      BY <2>4 DEF Hello, Auth
    <3> QED
      BY <2>1, <3>1, <3>2, <3>3, <3>4, DiallingKeeps DEF Keeps, TypeOK
  <2>5. CASE DialRecv
    <3>1. Keeps
      BY <2>1, <2>5, SocketsKept
    <3>2. Dialing /\ step > 0 /\ Stage \in {"welcome", "reply"} /\ Stage = Dial[step] /\ readFd \in Sockets
      BY <2>1, <2>5 DEF DialRecv, Stage, TypeOK
    <3>3. UNCHANGED <<lab, fd, readFd>> /\ (Passed \/ Failed)
      BY <2>5 DEF DialRecv
    <3>4. step = Len(Dial) /\ lab # 3 /\ Passed /\ fd' # 0 => conn'[fd'].authenticated
      <4> SUFFICES ASSUME step = Len(Dial), lab # 3, Passed, fd' # 0
                   PROVE  conn'[fd'].authenticated
        OBVIOUS
      <4>1. Stage = "reply" /\ fd = readFd
        BY <2>1, <3>2, <3>3, DialSteps DEF Authenticated, Handshake, TypeOK
      <4>2. ~Failed
        BY <2>1, <3>2 DEF Passed, Returned, Failed
      <4>3. conn[readFd].unread # <<>> /\ Head(conn[readFd].unread) = "AUTH"
        BY <2>5, <4>1, <4>2 DEF DialRecv
      <4>4. conn[readFd].authenticated
        BY <2>1, <3>2, <4>3, TailHonest
      <4> QED
        BY <3>1, <3>2, <3>3, <4>1, <4>4 DEF Keeps
    <3> QED
      BY <2>1, <3>1, <3>2, <3>3, <3>4, DiallingKeeps DEF Keeps, TypeOK
  <2>6. CASE ReaderStep
    <3>1. UNCHANGED <<lab, step, fd>>
      BY <2>6 DEF ReaderStep, ReaderLoop, Call, Show, Lose, TestRunning, Claim, Clear, Notify
    <3>2. reader \notin {"off", "dial"} /\ main # "dial" /\ main' # "dial" /\ readFd' \in {readFd, fd}
      BY <2>6 DEF ReaderStep, ReaderLoop, Call, Show, Lose, TestRunning, Claim, Clear, Notify, Authenticated, Handshake
    <3>3. Keeps
      BY <2>1, <2>6, SocketsKept
    <3> QED
      BY <2>1, <3>1, <3>2, <3>3, IdleKeeps DEF TypeOK, Dialing
  <2>7. CASE MainStep \/ SpuriousWake \/ TypeText \/ TypeCommand \/ Quit
    <3>1. UNCHANGED <<lab, step, readFd, reader>> /\ fd' \in {fd, 0}
      BY <2>7 DEF MainStep, Test, FallAsleep, WriteText, Join, SpuriousWake, TypeText, TypeCommand, Quit,
                  Lab3Command, Lab4Command, Lab5Command, MainSends, threads
    <3>2. main # "dial" /\ main' # "dial"
      BY <2>7 DEF MainStep, Test, FallAsleep, WriteText, Join, SpuriousWake, TypeText, TypeCommand, Quit,
                  Lab3Command, Lab4Command, Lab5Command, MainSends
    <3>3. Keeps
      BY <2>1, <2>7, SocketsKept DEF User
    <3> QED
      BY <3>1, <3>2, <3>3, IdleKeeps DEF Dialing
  <2>8. CASE Server \/ UNCHANGED vars
    <3>1. UNCHANGED <<lab, threads, fd, readFd>>
      BY <2>8 DEF Server, ServerStops, ServerStarts, TextArrives, SeesShutdown, vars
    <3>2. Keeps
      BY <2>1, <2>8, SocketsKept
    <3>3. main' = "dial" => reader' = "off"
      BY <3>1 DEF threads, Authenticated, Handshake
    <3> QED
      BY <3>1, <3>2, <3>3, IdleKeeps DEF threads, Dialing
  <2> QED
    BY <2>2, <2>3, <2>4, <2>5, <2>6, <2>7, <2>8 DEF Next, Redial, User
<1> QED
  BY <1>1, <1>2, PTL DEF SafeSpec

\* After its handshake, a client of labs 4 and 5 has a connection on which the server has
\* accepted its MSG_AUTH, whatever comes in between.
THEOREM ClientReadyMeansAuthenticated == SafeSpec => []ReadyMeansAuthenticated
<1>1. Authenticated => ReadyMeansAuthenticated
  BY DEF Authenticated
<1> QED
  BY <1>1, AuthenticatedHolds, PTL

------------------------------------------------------------------------------
(* The sockets in use *)

\* What reconnections and /quit may have left open.
Left == repairs + (IF running THEN 0 ELSE 1)

\* connectWithRetry() is about to take a socket, or has nothing to give back.
Empty == Dialing /\ (step = 1 \/ fd = 0)

\* The client's own socket is in use, and there is one less in use where it has none.
Descriptors ==
  /\ repairs \in Nat /\ running \in BOOLEAN
  /\ ~running => main \in {"join", "done"}
  /\ fd # 0 => fd \in InUse
  /\ Cardinality(InUse) <= 1 + Left
  /\ Empty => Cardinality(InUse) <= Left

\* The sockets in use can be counted.
LEMMA InUseIsFinite == IsFiniteSet(InUse) /\ Cardinality(InUse) \in Nat
<1>1. IsFiniteSet(Sockets)
  BY ClientAssumption, FS_Interval DEF Sockets
<1>2. InUse \in SUBSET Sockets
  BY DEF InUse
<1> QED
  BY <1>1, <1>2, FS_Subset, FS_CardinalityType

\* A step that takes no socket and gives none back keeps the count, unless it comes to
\* where there must be one less.
LEMMA CountKept ==
  ASSUME TypeOK, Descriptors, Keeps, fd' \in {fd, 0}, repairs' \in Nat, repairs <= repairs',
         running' \in BOOLEAN, running' => running, ~running' => main' \in {"join", "done"},
         Empty' => Empty \/ Left < Left'
  PROVE  Descriptors'
<1>1. InUse' = InUse
  <2>1. \A s \in Sockets : s = fd => conn[s].state # "free"
    BY SocketNumbers DEF Descriptors, InUse
  <2>2. ASSUME NEW s \in Sockets PROVE conn'[s].state = "free" <=> conn[s].state = "free"
    BY <2>1 DEF Keeps, SameUse
  <2> QED
    BY <2>2 DEF InUse
<1>2. Left \in Nat /\ Left' \in Nat /\ Left <= Left'
  <2>1. /\ running => Left = repairs + 0
        /\ ~running => Left = repairs + 1
        /\ running' => Left' = repairs' + 0
        /\ ~running' => Left' = repairs' + 1
    BY Zenon DEF Left
  <2>2. repairs \in Nat
    BY DEF Descriptors
  <2> QED
    BY <2>1, <2>2
<1>3. fd' # 0 => fd' \in InUse'
  BY <1>1 DEF Descriptors
<1>4. Cardinality(InUse) \in Nat /\ Cardinality(InUse') = Cardinality(InUse)
  BY <1>1, InUseIsFinite
<1>5. Cardinality(InUse') <= 1 + Left'
  BY <1>2, <1>4 DEF Descriptors
<1>6. Empty' => Cardinality(InUse') <= Left'
  BY <1>2, <1>4 DEF Descriptors
<1> QED
  BY <1>3, <1>5, <1>6 DEF Descriptors

\* A call of connectWithRetry() other than connect() and reset() keeps the count.
LEMMA DialCountKept ==
  ASSUME Authenticated, Descriptors, Hello \/ Auth \/ DialRecv
  PROVE  Descriptors'
<1>1. TypeOK /\ \A s \in Sockets : Honest(conn[s])
  BY DEF Authenticated
<1>2. Keeps
  BY <1>1, SocketsKept DEF User
<1>3. UNCHANGED <<fd, running, repairs>> /\ (Passed \/ Failed \/ UNCHANGED threads)
  BY DEF Hello, Auth, DialRecv, flags
<1>4. Dialing /\ step \in Nat \ {0}
  <2>1. Dialing /\ step > 0
    BY DEF Hello, Auth, DialRecv, Stage
  <2>2. step \in 0 .. Len(Dial) /\ Len(Dial) \in Nat
    BY <1>1, DialSteps DEF TypeOK
  <2> QED
    BY <2>1, <2>2
<1>5. Empty' => Empty
  <2>1. CASE Failed
    BY <1>3, <1>4, <2>1 DEF Failed, Empty, Dialing
  <2>2. CASE UNCHANGED threads
    BY <1>3, <2>2 DEF threads, Empty, Dialing
  <2>3. CASE Passed /\ step # Len(Dial)
    BY <1>3, <1>4, <2>3 DEF Passed, Empty, Dialing
  <2>4. CASE Passed /\ step = Len(Dial)
    BY <1>4, <2>4 DEF Passed, Returned, Empty, Dialing
  <2> QED
    BY <1>3, <2>1, <2>2, <2>3, <2>4
<1>6. main' \in {main, "prompt"} /\ (main' # main => main = "dial")
  BY <1>3 DEF Passed, Returned, Failed, threads
<1> QED
  BY <1>1, <1>2, <1>3, <1>5, <1>6, CountKept DEF Descriptors

\* connect() takes one socket, where there was one less.
LEMMA ConnectCounts ==
  ASSUME Authenticated, Descriptors, Connect
  PROVE  Descriptors'
<1>1. TypeOK
  BY DEF Authenticated
<1>2. PICK s \in Sockets \ InUse :
        fd' = s /\ conn' = [conn EXCEPT ![s] = IF server = "up" THEN Accepted ELSE Raw]
  BY DEF Connect
<1>3. Dialing /\ step = 1 /\ step # Len(Dial)
  BY <1>1, DialSteps DEF Connect, Stage, TypeOK
<1>4. InUse' = InUse \cup {s}
  BY <1>1, <1>2 DEF InUse, TypeOK, Accepted, Raw, Free
<1>5. Cardinality(InUse') = Cardinality(InUse) + 1
  BY <1>2, <1>4, FS_AddElement, InUseIsFinite
<1>6. UNCHANGED <<running, repairs, main, reader>> /\ step' \in {0, 2}
  BY <1>3 DEF Connect, Passed, Failed, flags
<1>7. ~Empty' /\ fd' # 0 /\ fd' \in InUse'
  BY <1>2, <1>4, <1>6, SocketNumbers DEF Empty
<1>8. Cardinality(InUse) <= Left /\ Left' = Left /\ Left \in Nat
  BY <1>3, <1>6 DEF Descriptors, Empty, Left
<1>9. Cardinality(InUse') <= 1 + Left'
  BY <1>5, <1>8, InUseIsFinite
<1> QED
  BY <1>6, <1>7, <1>9 DEF Descriptors

\* reset() gives the client's socket back.
LEMMA RetryCounts ==
  ASSUME Authenticated, Descriptors, Retry
  PROVE  Descriptors'
<1>1. TypeOK
  BY DEF Authenticated
<1>2. /\ conn' = [s \in Sockets |-> IF s = fd THEN Free ELSE conn[s]]
      /\ fd' = 0 /\ Dialing /\ UNCHANGED <<running, repairs, main>>
  BY DEF Retry, flags
<1>3. InUse' = InUse \ {fd}
  BY <1>2 DEF InUse, Free
<1>4. Left' = Left /\ Left \in Nat
  BY <1>2 DEF Left, Descriptors
<1>5. Cardinality(InUse') <= Left
  <2>1. CASE fd = 0
    <3>1. InUse' = InUse
      BY <1>3, <2>1, SocketNumbers DEF InUse
    <3> QED
      BY <1>2, <2>1, <3>1 DEF Descriptors, Empty
  <2>2. CASE fd # 0
    <3>1. Cardinality(InUse') = Cardinality(InUse) - 1
      BY <1>3, <2>2, FS_RemoveElement, InUseIsFinite DEF Descriptors
    <3> QED
      BY <1>4, <3>1, InUseIsFinite DEF Descriptors
  <2> QED
    BY <2>1, <2>2
<1>6. IsFiniteSet(InUse') /\ Cardinality(InUse') \in Nat
  BY <1>3, FS_RemoveElement, FS_CardinalityType, InUseIsFinite
<1>7. Cardinality(InUse') <= 1 + Left' /\ Cardinality(InUse') <= Left'
  BY <1>4, <1>5, <1>6
<1> QED
  BY <1>2, <1>7 DEF Descriptors

\* The client has at most one socket in use, and one more for each reconnection and for
\* /quit, whenever the server stops and whatever the user types.
THEOREM ClientBoundedDescriptors == SafeSpec => []BoundedDescriptors
<1>1. Init => Descriptors
  <2> SUFFICES ASSUME Init PROVE Descriptors
    OBVIOUS
  <2>1. InUse = {}
    BY DEF Init, InUse, Free
  <2> QED
    BY <2>1, FS_EmptySet DEF Init, Descriptors, Left
<1>2. Authenticated /\ Descriptors /\ [Next]_vars => Descriptors'
  <2> SUFFICES ASSUME Authenticated, Descriptors, [Next]_vars PROVE Descriptors'
    OBVIOUS
  <2>1. TypeOK /\ Handshake /\ \A s \in Sockets : Honest(conn[s])
    BY DEF Authenticated
  <2>2. CASE ReaderStep
    <3>1. Keeps
      BY <2>1, <2>2, SocketsKept
    <3>2. UNCHANGED <<fd, step, running>>
      BY <2>2 DEF ReaderStep, ReaderLoop, Call, Show, Lose, TestRunning, Claim, Clear, Notify, flags
    <3>3. reader \notin {"off", "dial"} /\ main # "dial" /\ main' # "dial"
      BY <2>1, <2>2 DEF ReaderStep, ReaderLoop, Call, Show, Lose, TestRunning, Claim, Clear, Notify, Handshake
    <3>4. main' = main \/ (main = "asleep" /\ main' = "test")
      BY <2>2 DEF ReaderStep, ReaderLoop, Call, Show, Lose, TestRunning, Claim, Clear, Notify
    <3>5. (repairs' = repairs /\ reader' # "dial") \/ repairs' = repairs + 1
      BY <2>2 DEF ReaderStep, ReaderLoop, Call, Show, Lose, TestRunning, Claim, Clear, Notify
    <3>6. Empty' => Left < Left'
      BY <3>2, <3>3, <3>5 DEF Empty, Dialing, Left, Descriptors
    <3> QED
      BY <2>1, <3>1, <3>2, <3>4, <3>5, <3>6, CountKept DEF Descriptors
  <2>3. CASE Quit
    <3>1. Keeps
      BY <2>1, <2>3, SocketsKept DEF User
    <3>2. running /\ running' = FALSE /\ main' = "join" /\ fd' = 0 /\ repairs' = repairs
      BY <2>3 DEF Quit, Descriptors
    <3>3. Left < Left'
      BY <3>2 DEF Left, Descriptors
    <3>4. running' \in BOOLEAN /\ ~running'
      BY <3>2
    <3>5. repairs' \in Nat /\ repairs <= repairs'
      BY <3>2 DEF Descriptors
    <3> QED
      BY <2>1, <3>1, <3>2, <3>3, <3>4, <3>5, CountKept
  <2>4. CASE MainStep \/ SpuriousWake \/ TypeText \/ TypeCommand
    <3>1. Keeps
      BY <2>1, <2>4, SocketsKept DEF User
    <3>2. UNCHANGED <<step, reader, fd, running, repairs>> /\ main # "dial" /\ main' # "dial"
      BY <2>4 DEF MainStep, Test, FallAsleep, WriteText, Join, SpuriousWake, TypeText, TypeCommand,
                  Lab3Command, Lab4Command, Lab5Command, MainSends, threads, flags
    <3>3. main \in {"join", "done"} => main' \in {"join", "done"}
      BY <2>4 DEF MainStep, Test, FallAsleep, WriteText, Join, SpuriousWake, TypeText, TypeCommand
    <3>4. Empty' => Empty
      BY <3>2 DEF Empty, Dialing
    <3> QED
      BY <2>1, <3>1, <3>2, <3>3, <3>4, CountKept DEF Descriptors
  <2>5. CASE Server \/ UNCHANGED vars
    <3>1. Keeps
      BY <2>1, <2>5, SocketsKept
    <3>2. UNCHANGED <<threads, fd, running, repairs>>
      BY <2>5 DEF Server, ServerStops, ServerStarts, TextArrives, SeesShutdown, vars, flags
    <3>3. Empty' => Empty
      BY <3>2 DEF Empty, Dialing, threads
    <3> QED
      BY <2>1, <3>1, <3>2, <3>3, CountKept DEF Descriptors, threads
  <2> QED
    BY <2>2, <2>3, <2>4, <2>5, DialCountKept, ConnectCounts, RetryCounts DEF Next, Redial, User
<1>3. Descriptors => BoundedDescriptors
  <2>1. ASSUME Descriptors PROVE BoundedDescriptors
    BY <2>1, InUseIsFinite DEF Descriptors, BoundedDescriptors, Left
  <2> QED
    BY <2>1
<1> QED
  BY <1>1, <1>2, <1>3, AuthenticatedHolds, PTL DEF SafeSpec
================================================================================
