---------------------------- MODULE ChatServerProof ----------------------------
(***************************************************************************)
(* Proofs about ChatServer for any numbers of connections, descriptors,    *)
(* workers, nicknames and messages: type correctness and, as long as no    *)
(* session is closed before it is removed, that the registry only points   *)
(* to open sessions of the right clients, that private messages reach      *)
(* nobody else, and that what has been acknowledged is not lost.           *)
(***************************************************************************)
EXTENDS ChatServer, SequenceLemmas

\* The handler's loop and its handshake, in the order of the code.
Greeting == {"welcome", "auth", "register"}
Known == {"offline", "deliver", "loop", "handle", "sending", "ack", "reply"}
Handling == {"handle", "sending", "ack", "reply"}
InRegistry == {"hello", "cleanup"} \cup Greeting \cup Known

\* What waits for a worker is queued once.
Queued ==
  /\ tasks \in Seq(Conns) /\ pc \in [Conns -> PcState]
  /\ \A i \in DOMAIN tasks : pc[tasks[i]] = "queued"
  /\ \A i, j \in DOMAIN tasks : tasks[i] = tasks[j] => i = j

\* A session past its handshake has a nickname, a message being handled is a
\* message, and who delivers has something to deliver.
Serving ==
  /\ \A c \in Conns : pc[c] \in Greeting \cup Known => nickname[c] \in Names
  /\ \A c \in Conns : pc[c] \in Handling => cur[c] \in Msgs /\ (cur[c].type = "PRIVATE" => cur[c].to \in Names)
  /\ \A c \in Conns : \A i \in DOMAIN inbox[c] : inbox[c][i].type = "PRIVATE" => inbox[c][i].to \in Names
  /\ \A c \in Conns : pc[c] = "deliver" => offline[nickname[c]] # <<>>

\* No client sends what makes the server close a session, or end its handler,
\* before the session is removed from the registry: BYE, an unexpected type, or
\* MSG_AUTH with an empty nickname.
Orderly == Types \cap {"BYE", "OTHER"} = {} /\ ~EmptyAuth

\* The registry and the sessions agree about each other.
Agreement ==
  /\ \A c \in Conns : fd[c] = NoFd <=> pc[c] \in {"new", "joining", "destroyed"}
  /\ \A c, d \in Conns : fd[c] # NoFd /\ fd[c] = fd[d] => c = d
  /\ \A c \in Conns : pc[c] \in InRegistry => sessions[fd[c]] = c
  /\ \A f \in Fds : sessions[f] # NoConn => fd[sessions[f]] = f /\ pc[sessions[f]] \in InRegistry
  /\ \A n \in Names : nickToFd[n] # NoFd =>
       LET c == sessions[nickToFd[n]] IN c # NoConn /\ nickname[c] = n /\ pc[c] \in Known \cup {"cleanup"}
  /\ \A i \in DOMAIN tasks : pc[tasks[i]] = "queued"
  /\ \A i, j \in DOMAIN tasks : tasks[i] = tasks[j] => i = j

\* Messages are queued for the client they are for, and only connections past
\* their handshake have been written private messages.
Addressed ==
  /\ \A n \in Names : \A i \in DOMAIN offline[n] : offline[n][i].to = n
  /\ \A m \in Msgs, c \in Conns : <<m, c>> \in out /\ m.type = "PRIVATE" =>
       nickname[c] = m.to /\ pc[c] \notin {"new", "queued", "start", "hello"}

\* Message m is not lost: it is recorded, if the file can be opened, written to its
\* receiver or queued for him.
Kept(m) ==
  /\ m.type = "TEXT" => m.id \in history \cup unopened
  /\ m.type = "PRIVATE" => \/ \E c \in Conns : <<m, c>> \in out
                           \/ \E i \in DOMAIN offline[m.to] : offline[m.to][i] = m

\* What has been acknowledged, and what is about to be, is kept.
Accounted ==
  /\ \A m \in acked : Kept(m) /\ (m.type = "PRIVATE" => m.to \in Names)
  /\ Up => \A c \in Conns : pc[c] = "ack" => Kept(cur[c])

\* What the assumptions say of the constants.
LEMMA Constants ==
  /\ NoFd \notin Fds /\ NoConn \notin Conns
  /\ MaxMsgs \in Nat /\ MaxDrops \in Nat
  BY ServerAssumption, Zenon DEF ServerAssumption

\* Accept() and the workers agree about which connections are queued.
LEMMA TasksAreQueued == SafeSpec => []Queued
<1> USE Constants DEF Queued, PcState, Goto, netVars, sessionVars, registryVars, clientVars, ghosts
<1>1. Init => Queued
  BY DEF Init
<1>2. Queued /\ [Next]_vars => Queued'
  <2> SUFFICES ASSUME Queued, [Next]_vars PROVE Queued'
    OBVIOUS
  <2>1. \A i \in DOMAIN tasks : tasks[i] \in Conns
    BY Elements
  <2>2. CASE UNCHANGED <<tasks, pc>>
    BY <2>2
  <2>3. ASSUME NEW c \in Conns, pc[c] # "queued", NEW p \in PcState, pc' = [pc EXCEPT ![c] = p], tasks' = tasks
        PROVE  Queued'
    BY <2>1, <2>3
  <2>4. ASSUME NEW c \in Conns, WorkerStep(c) \/ ReadStep(c) \/ ClientStep(c) PROVE Queued'
    <3>1. CASE Accept(c)
      <4>1. pc[c] = "new" /\ tasks' = Append(tasks, c) /\ pc' = [pc EXCEPT ![c] = "queued"]
        BY <3>1 DEF Accept
      <4> QED
        BY <2>1, <4>1
    <3>2. CASE TakeTask(c)
      <4>1. tasks # <<>> /\ c = Head(tasks) /\ tasks' = Tail(tasks) /\ pc' = [pc EXCEPT ![c] = "start"]
        BY <3>2 DEF TakeTask
      <4> QED
        BY <2>1, <4>1
    <3>3. CASE AddSession(c) \/ SendWelcome(c) \/ Register(c) \/ RecvHello(c)
      BY <2>3, <3>3 DEF AddSession, SendWelcome, WriteTo, Register, RecvHello
    <3>4. CASE AuthAccepts(c) \/ AuthRefuses(c) \/ AuthFails(c)
      BY <2>3, <3>4 DEF AuthAccepts, WriteTo, AuthRefuses, AuthFails
    <3>5. CASE LookForOffline(c) \/ DeliverHead(c) \/ DeliverFails(c)
      BY <2>3, <3>5 DEF LookForOffline, DeliverHead, DeliverFails
    <3>6. CASE Recv(c) \/ EnterRegistry(c) \/ Broadcast(c) \/ QueueOffline(c)
      BY <2>2, <2>3, <3>6 DEF Recv, EnterRegistry, Broadcast, QueueOffline
    <3>7. CASE ForwardPrivate(c) \/ Ping(c) \/ SendAck(c) \/ StartReply(c)
      BY <2>3, <3>7 DEF ForwardPrivate, Ping, SendAck, StartReply, WriteTo
    <3>8. CASE EndReply(c) \/ OverflowPayload(c) \/ Bye(c) \/ OtherMessage(c)
      BY <2>2, <2>3, <3>8 DEF EndReply, OverflowPayload, Bye, OtherMessage
    <3>9. CASE Cleanup(c) \/ Destroy(c) \/ Join(c)
      BY <2>3, <3>9 DEF Cleanup, Destroy, Join
    <3>10. CASE ReaderEnds(c) \/ ClientLeaves(c) \/ \E type \in Types, to \in Names \cup {EmptyNick} : ClientSends(c, type, to)
      BY <2>2, <3>10 DEF ReaderEnds, ClientLeaves, ClientSends
    <3> QED
      BY <2>4, <3>1, <3>2, <3>3, <3>4, <3>5, <3>6, <3>7, <3>8, <3>9, <3>10
      DEF WorkerStep, OfflineStep, HandleStep, EndStep, ReadStep, ClientStep
  <2> QED
    BY <2>2, <2>4 DEF Next, vars
<1> QED
  BY <1>1, <1>2, PTL DEF SafeSpec

\* Type correctness of the server, for clients that may do anything, and that the
\* registry is locked by the handler that waits inside it.
THEOREM ServerTypeOK == SafeSpec => [](TypeOK /\ Serving)
<1> USE Constants DEF TypeOK, Serving, PcState, Greeting, Known, Handling, Goto, Probe, After,
        netVars, sessionVars, registryVars, clientVars, ghosts, AppendHistory
<1>1. Init => TypeOK /\ Serving
  BY DEF Init
<1>2. TypeOK /\ Serving /\ Queued /\ [Next]_vars => (TypeOK /\ Serving)'
  <2> SUFFICES ASSUME TypeOK, Serving, Queued, [Next]_vars PROVE (TypeOK /\ Serving)'
    OBVIOUS
  <2>1. CASE UNCHANGED vars
    BY <2>1 DEF vars
  <2>2. ASSUME NEW c \in Conns, WorkerStep(c) \/ ReadStep(c) \/ ClientStep(c) PROVE (TypeOK /\ Serving)'
    <3>1. CASE TakeTask(c)
      <4>1. tasks # <<>> /\ c = Head(tasks) /\ tasks' = Tail(tasks) /\ pc' = [pc EXCEPT ![c] = "start"]
            /\ UNCHANGED <<server, probed, fd, nickname, reader, inbox, cur, sessions, nickToFd, offline, lockedBy, history, gone, sent, drops, out, acked, unopened>>
        BY <3>1 DEF TakeTask
      <4>2. pc[c] = "queued" /\ Tail(tasks) \in Seq(Conns)
        BY <4>1, TailElements DEF Queued
      <4> QED
        BY <4>1, <4>2
    <3>2. CASE AddSession(c)
      BY <3>2 DEF AddSession
    <3>3. CASE SendWelcome(c)
      BY <3>3 DEF SendWelcome, WriteTo
    <3>4. CASE Register(c)
      BY <3>4 DEF Register
    <3>5. CASE LookForOffline(c)
      <4>1. CASE offline[nickname[c]] = <<>>
        BY <3>5, <4>1 DEF LookForOffline
      <4>2. CASE offline[nickname[c]] # <<>>
        <5>1. pc[c] = "offline" /\ lockedBy = NoConn /\ pc' = [pc EXCEPT ![c] = "deliver"] /\ lockedBy' = c
          BY <3>5, <4>2 DEF LookForOffline, RegistryFree
        <5>2. UNCHANGED <<server, probed, tasks, fd, nickname, reader, inbox, cur, sessions, nickToFd, offline, history, gone, sent, drops, out, acked, unopened>>
          BY <3>5, <4>2 DEF LookForOffline
        <5> QED
          BY <4>2, <5>1, <5>2
      <4> QED
        BY <4>1, <4>2
    <3>6. CASE DeliverHead(c)
      <4> DEFINE n == nickname[c]
      <4>1. n \in Names /\ offline[n] \in Seq(Msgs) /\ offline[n] # <<>> /\ pc[c] = "deliver" /\ lockedBy = c
        BY <3>6 DEF DeliverHead
      <4>2. Head(offline[n]) \in Msgs /\ Tail(offline[n]) \in Seq(Msgs) /\ (Len(offline[n]) # 1 => Tail(offline[n]) # <<>>)
        BY <4>1, TailElements
      <4>3. /\ out' = out \cup {<<Head(offline[n]), c>>} /\ offline' = [offline EXCEPT ![n] = Tail(@)]
            /\ lockedBy' = IF Len(offline[n]) = 1 THEN NoConn ELSE c
            /\ pc' = [pc EXCEPT ![c] = IF Len(offline[n]) = 1 THEN "loop" ELSE "deliver"]
            /\ UNCHANGED <<server, probed, tasks, fd, nickname, reader, inbox, cur, sessions, nickToFd, history, gone, sent, drops, acked, unopened>>
        BY <3>6 DEF DeliverHead
      <4> QED
        BY <4>1, <4>2, <4>3
    <3>7. CASE DeliverFails(c)
      BY <3>7 DEF DeliverFails
    <3>8. CASE Recv(c)
      <4> DEFINE m == Head(inbox[c])
      <4>1. /\ pc[c] = "loop" /\ inbox[c] \in Seq(Msgs) /\ inbox[c] # <<>>
            /\ inbox' = [inbox EXCEPT ![c] = Tail(@)]
            /\ UNCHANGED <<server, probed, tasks, fd, nickname, reader, sessions, nickToFd, offline, lockedBy, history, gone, sent, out, acked, unopened>>
        BY <3>8 DEF Recv
      <4>2. /\ m \in Msgs /\ (m.type = "PRIVATE" => m.to \in Names) /\ Tail(inbox[c]) \in Seq(Msgs)
            /\ \A i \in DOMAIN Tail(inbox[c]) : Tail(inbox[c])[i].type = "PRIVATE" => Tail(inbox[c])[i].to \in Names
        BY <4>1, TailElements
      <4>3. /\ inbox' \in [Conns -> Seq(Msgs)]
            /\ \A d \in Conns : \A i \in DOMAIN inbox'[d] : inbox'[d][i].type = "PRIVATE" => inbox'[d][i].to \in Names
        BY <4>1, <4>2
      <4> HIDE DEF m
      <4>4. CASE UNCHANGED <<pc, cur>> /\ drops < MaxDrops /\ drops' = drops + 1
        BY <4>1, <4>3, <4>4
      <4>5. CASE cur' = [cur EXCEPT ![c] = m] /\ pc' = [pc EXCEPT ![c] = "handle"] /\ UNCHANGED drops
        BY <4>1, <4>2, <4>3, <4>5
      <4> QED
        BY <3>8, <4>4, <4>5 DEF Recv, m
    <3>9. CASE EnterRegistry(c)
      <4>1. pc[c] = "handle" /\ lockedBy = NoConn /\ pc' = [pc EXCEPT ![c] = "sending"] /\ lockedBy' = c
        BY <3>9 DEF EnterRegistry, RegistryFree
      <4>2. UNCHANGED <<server, probed, tasks, fd, nickname, reader, inbox, cur, sessions, nickToFd, offline, history, gone, sent, drops, out, acked, unopened>>
        BY <3>9 DEF EnterRegistry
      <4> QED
        BY <4>1, <4>2
    <3>10. CASE Broadcast(c)
      <4> DEFINE T == Targets(c)
      <4>1. T \subseteq Conns /\ pc[c] = "sending" /\ cur[c] \in Msgs /\ cur[c].id \in 1 .. MaxMsgs /\ lockedBy = c
        BY <3>10 DEF Broadcast, Targets, Msgs
      <4>2. PICK r \in [T -> {"sent", "throws", "dies"}] :
              /\ server' = IF \E t \in T : r[t] = "dies" THEN "down" ELSE "up"
              /\ probed' = IF "dies" \in DeadSend THEN probed \cup (T \cap gone) ELSE probed
              /\ out' = out \cup {<<cur[c], t>> : t \in {u \in T : r[u] = "sent"}}
        BY <3>10 DEF Broadcast
      <4>3. /\ history' \subseteq history \cup {cur[c].id} /\ unopened' \subseteq unopened \cup {cur[c].id}
            /\ lockedBy' = NoConn /\ pc' = [pc EXCEPT ![c] = "ack"]
            /\ UNCHANGED <<tasks, fd, nickname, reader, inbox, cur, sessions, nickToFd, offline, gone, sent, drops, acked>>
        BY <3>10 DEF Broadcast
      <4> HIDE DEF T
      <4>4. server' \in {"up", "down"} /\ probed' \subseteq Conns /\ out' \subseteq Msgs \X Conns
        BY <4>1, <4>2
      <4> QED
        BY <4>1, <4>3, <4>4
    <3>11. CASE QueueOffline(c)
      BY <3>11 DEF QueueOffline
    <3>12. CASE ForwardPrivate(c)
      <4> DEFINE t == sessions[nickToFd[cur[c].to]]
      <4>1. /\ pc[c] = "sending" /\ cur[c] \in Msgs /\ cur[c].id \in 1 .. MaxMsgs /\ lockedBy = c
            /\ t \in Conns \cup {NoConn}
        BY <3>12 DEF ForwardPrivate, Msgs
      <4>2. PICK r \in IF t = NoConn THEN {"skipped"} ELSE Outcomes(t) :
              /\ server' = IF r = "dies" THEN "down" ELSE "up"
              /\ probed' = IF "dies" \in DeadSend THEN probed \cup ({t} \cap gone) ELSE probed
              /\ out' = IF r = "sent" THEN out \cup {<<cur[c], t>>} ELSE out
              /\ history' \subseteq history \cup {cur[c].id} /\ unopened' \subseteq unopened \cup {cur[c].id}
              /\ pc' = [pc EXCEPT ![c] = IF r = "throws" THEN "cleanup" ELSE "ack"]
        BY <3>12 DEF ForwardPrivate
      <4>3. /\ lockedBy' = NoConn
            /\ UNCHANGED <<tasks, fd, nickname, reader, inbox, cur, sessions, nickToFd, offline, gone, sent, drops, acked>>
        BY <3>12 DEF ForwardPrivate
      <4>4. r = "sent" => t \in Conns
        BY <4>1, <4>2
      <4> HIDE DEF t
      <4>5. server' \in {"up", "down"} /\ probed' \subseteq Conns
        BY <4>1, <4>2
      <4>6. out' \subseteq Msgs \X Conns
        BY <4>1, <4>2, <4>4
      <4>7. history' \subseteq 1 .. MaxMsgs /\ unopened' \subseteq 1 .. MaxMsgs
        BY <4>1, <4>2
      <4> QED
        BY <4>1, <4>2, <4>3, <4>5, <4>6, <4>7
    <3>13. CASE Ping(c)
      BY <3>13 DEF Ping, WriteTo
    <3>14. CASE SendAck(c)
      BY <3>14 DEF SendAck, WriteTo
    <3>15. CASE StartReply(c)
      BY <3>15 DEF StartReply, WriteTo
    <3>16. CASE EndReply(c)
      BY <3>16 DEF EndReply
    <3>17. CASE Bye(c)
      BY <3>17 DEF Bye
    <3>18. CASE OtherMessage(c)
      BY <3>18 DEF OtherMessage
    <3>19. CASE Cleanup(c)
      BY <3>19 DEF Cleanup
    <3>20. CASE Destroy(c)
      BY <3>20 DEF Destroy
    <3>21. CASE Join(c)
      BY <3>21 DEF Join
    <3>22. CASE RecvHello(c)
      <4>1. pc[c] = "hello" /\ UNCHANGED <<server, probed, tasks, fd, reader, inbox, cur, sessions, nickToFd, offline, lockedBy, history, gone, sent, drops, out, acked, unopened>>
        BY <3>22 DEF RecvHello
      <4>2. CASE \E n \in Names : nickname' = [nickname EXCEPT ![c] = n] /\ pc' = [pc EXCEPT ![c] = "welcome"]
        BY <4>1, <4>2
      <4>3. CASE pc' = [pc EXCEPT ![c] = "cleanup"] /\ UNCHANGED nickname
        BY <4>1, <4>3
      <4> QED
        BY <3>22, <4>2, <4>3 DEF RecvHello
    <3>23. CASE AuthAccepts(c)
      BY <3>23 DEF AuthAccepts, WriteTo
    <3>24. CASE AuthFails(c)
      BY <3>24 DEF AuthFails
    <3>25. CASE ReaderEnds(c)
      BY <3>25 DEF ReaderEnds
    <3>26. CASE Accept(c)
      BY <3>26 DEF Accept
    <3>27. CASE ClientLeaves(c)
      BY <3>27 DEF ClientLeaves
    <3>28. ASSUME NEW type \in Types, NEW to \in Names \cup {EmptyNick}, type = "PRIVATE" => to \in Names, ClientSends(c, type, to)
          PROVE  (TypeOK /\ Serving)'
      <4> DEFINE m == [id |-> sent + 1, type |-> type, to |-> to]
      <4>1. /\ sent < MaxMsgs /\ sent' = sent + 1 /\ inbox' = [inbox EXCEPT ![c] = Append(@, m)]
            /\ UNCHANGED <<server, probed, tasks, pc, fd, nickname, reader, cur, sessions, nickToFd, offline, lockedBy, history, gone, drops, out, acked, unopened>>
        BY <3>28 DEF ClientSends
      <4>2. m \in Msgs /\ (m.type = "PRIVATE" => m.to \in Names)
        BY <3>28, <4>1 DEF Msgs
      <4> HIDE DEF m
      <4>3. /\ Append(inbox[c], m) \in Seq(Msgs)
            /\ \A i \in DOMAIN Append(inbox[c], m) : Append(inbox[c], m)[i].type = "PRIVATE" => Append(inbox[c], m)[i].to \in Names
        BY <4>2, AppendElements
      <4>4. /\ inbox' \in [Conns -> Seq(Msgs)]
            /\ \A d \in Conns : \A i \in DOMAIN inbox'[d] : inbox'[d][i].type = "PRIVATE" => inbox'[d][i].to \in Names
        BY <4>1, <4>3
      <4> QED
        BY <4>1, <4>4
    <3>29. CASE AuthRefuses(c)
      BY <3>29 DEF AuthRefuses
    <3>30. CASE OverflowPayload(c)
      BY <3>30 DEF OverflowPayload
    <3> QED
      BY <2>2, <3>1, <3>2, <3>3, <3>4, <3>5, <3>6, <3>7, <3>8, <3>9, <3>10, <3>11, <3>12, <3>13, <3>14, <3>15, <3>16, <3>17, <3>18, <3>19, <3>20, <3>21, <3>22, <3>23, <3>24, <3>25, <3>26, <3>27, <3>28, <3>29, <3>30
      DEF WorkerStep, OfflineStep, HandleStep, EndStep, ReadStep, ClientStep
  <2> QED
    BY <2>1, <2>2 DEF Next
<1> QED
  BY <1>1, <1>2, TasksAreQueued, PTL DEF SafeSpec

\* A handler moves on, in its handshake or past it, or gives up: the registry and
\* the descriptors stay as they are.
Advance(c) ==
  /\ \E p \in PcState :
       /\ pc' = [pc EXCEPT ![c] = p]
       /\ \/ pc[c] \in Greeting /\ p \in Greeting \cup {"cleanup"}
          \/ pc[c] \in Known /\ p \in Known \cup {"cleanup"}
  /\ UNCHANGED <<fd, nickname, sessions, nickToFd, tasks>>

\* Moving on keeps the registry and the sessions in agreement.
LEMMA AdvanceKeepsAgreement ==
  ASSUME TypeOK, Agreement, NEW c \in Conns, Advance(c)
  PROVE  Agreement'
<1> USE Constants DEF PcState, Greeting, Known, InRegistry
<1>1. PICK p \in PcState : /\ pc' = [pc EXCEPT ![c] = p]
                           /\ \/ pc[c] \in Greeting /\ p \in Greeting \cup {"cleanup"}
                              \/ pc[c] \in Known /\ p \in Known \cup {"cleanup"}
  BY DEF Advance
<1>2. UNCHANGED <<fd, nickname, sessions, nickToFd, tasks>>
  BY DEF Advance
<1>3. \A d \in Conns : /\ pc'[d] \in InRegistry <=> pc[d] \in InRegistry
                       /\ pc[d] \in Known \cup {"cleanup"} => pc'[d] \in Known \cup {"cleanup"}
                       /\ pc'[d] \in {"new", "joining", "destroyed"} <=> pc[d] \in {"new", "joining", "destroyed"}
                       /\ pc[d] = "queued" => pc'[d] = "queued"
  BY <1>1 DEF TypeOK
<1>4. \A i \in DOMAIN tasks : tasks[i] \in Conns
  BY Elements DEF TypeOK
<1> HIDE DEF PcState, Greeting, Known, InRegistry
<1> QED
  BY <1>2, <1>3, <1>4 DEF Agreement, TypeOK

\* The steps of a handler that the clients of Orderly leave it.
LEMMA HandlersAdvance ==
  ASSUME Orderly, TypeOK, Serving, NEW c \in Conns
  PROVE  SendWelcome(c) \/ AuthAccepts(c) \/ AuthFails(c) \/ LookForOffline(c) \/ DeliverHead(c) \/ DeliverFails(c) \/ EnterRegistry(c) \/ Broadcast(c)
         \/ QueueOffline(c) \/ ForwardPrivate(c) \/ Ping(c) \/ SendAck(c) \/ StartReply(c) \/ EndReply(c) \/ OtherMessage(c)
         => Advance(c)
<1> USE Constants DEF Advance, Goto, PcState, Greeting, Known, netVars, sessionVars, registryVars, clientVars, ghosts
<1>1. CASE SendWelcome(c)
  BY <1>1 DEF SendWelcome, WriteTo
<1>2. CASE AuthAccepts(c)
  BY <1>2 DEF AuthAccepts, WriteTo
<1>3. CASE AuthFails(c)
  BY <1>3 DEF AuthFails
<1>4. CASE LookForOffline(c)
  BY <1>4 DEF LookForOffline
<1>5. CASE DeliverHead(c)
  BY <1>5 DEF DeliverHead
<1>6. CASE DeliverFails(c)
  BY <1>6 DEF DeliverFails
<1>7. CASE EnterRegistry(c)
  BY <1>7 DEF EnterRegistry
<1>8. CASE Broadcast(c)
  BY <1>8 DEF Broadcast
<1>9. CASE QueueOffline(c)
  BY <1>9 DEF QueueOffline
<1>10. CASE ForwardPrivate(c)
  BY <1>10 DEF ForwardPrivate
<1>11. CASE Ping(c)
  BY <1>11 DEF Ping, WriteTo
<1>12. CASE SendAck(c)
  BY <1>12 DEF SendAck, WriteTo
<1>13. CASE StartReply(c)
  BY <1>13 DEF StartReply, WriteTo
<1>14. CASE EndReply(c)
  BY <1>14 DEF EndReply
<1>15. CASE OtherMessage(c)
  <2>1. cur[c].type # "OTHER"
    BY <1>15 DEF OtherMessage, Serving, Handling, Orderly, Msgs
  <2> QED
    BY <1>15, <2>1 DEF OtherMessage
<1> QED
  BY <1>1, <1>2, <1>3, <1>4, <1>5, <1>6, <1>7, <1>8, <1>9, <1>10, <1>11, <1>12, <1>13, <1>14, <1>15

\* As long as clients are orderly, the registry and the sessions always agree.
LEMMA RegistryAgrees ==
  ASSUME Orderly
  PROVE  SafeSpec => []Agreement
<1> USE Constants
<1>1. Init => Agreement
  BY DEF Init, Agreement, InRegistry, Greeting, Known
<1>2. TypeOK /\ Serving /\ Agreement /\ [Next]_vars => Agreement'
  <2> SUFFICES ASSUME TypeOK, Serving, Agreement, [Next]_vars PROVE Agreement'
    OBVIOUS
  <2> USE DEF Goto, netVars, sessionVars, registryVars, clientVars, ghosts
  <2>0. \A i \in DOMAIN tasks : tasks[i] \in Conns
    BY Elements DEF TypeOK
  <2>1. CASE UNCHANGED <<pc, fd, nickname, sessions, nickToFd, tasks>>
    BY <2>1 DEF Agreement
  <2>2. ASSUME NEW c \in Conns, WorkerStep(c) \/ ReadStep(c) \/ ClientStep(c) PROVE Agreement'
    <3>1. CASE Advance(c)
      BY <3>1, AdvanceKeepsAgreement
    <3>2. CASE Accept(c)
      BY <2>0, <3>2 DEF Accept, Agreement, InRegistry, Greeting, Known, TypeOK, OpenFds
    <3>3. CASE TakeTask(c)
      BY <2>0, <3>3 DEF TakeTask, Agreement, InRegistry, Greeting, Known, TypeOK
    <3>4. CASE AddSession(c)
      BY <2>0, <3>4 DEF AddSession, Agreement, InRegistry, Greeting, Known, TypeOK
    <3>5. CASE RecvHello(c)
      <4>1. pc[c] = "hello" /\ UNCHANGED <<fd, sessions, nickToFd, tasks>>
        BY <3>5 DEF RecvHello
      <4>2. PICK p \in {"welcome", "cleanup"} : pc' = [pc EXCEPT ![c] = p]
        BY <3>5 DEF RecvHello
      <4>3. \A d \in Conns : d # c => nickname'[d] = nickname[d]
        BY <3>5 DEF RecvHello, TypeOK
      <4> QED
        BY <2>0, <4>1, <4>2, <4>3 DEF Agreement, InRegistry, Greeting, Known, TypeOK
    <3>6. CASE Register(c)
      BY <2>0, <3>6 DEF Register, Serving, Agreement, InRegistry, Greeting, Known, TypeOK
    <3>7. CASE Cleanup(c)
      <4>1. /\ pc[c] = "cleanup" /\ pc' = [pc EXCEPT ![c] = "destroy"] /\ UNCHANGED <<tasks, fd, nickname>>
            /\ nickToFd' = [n \in Names |-> IF nickToFd[n] = fd[c] THEN NoFd ELSE nickToFd[n]]
            /\ sessions' = [f \in Fds |-> IF f = fd[c] THEN NoConn ELSE sessions[f]]
        BY <3>7 DEF Cleanup
      <4>2. fd[c] \in Fds /\ sessions[fd[c]] = c
        <5>1. pc[c] \in InRegistry /\ pc[c] \notin {"new", "joining", "destroyed"}
          BY <4>1 DEF InRegistry
        <5>2. fd[c] # NoFd /\ sessions[fd[c]] = c
          BY <5>1 DEF Agreement
        <5> QED
          BY <5>2 DEF TypeOK
      <4>3. /\ \A d \in Conns : fd'[d] = NoFd <=> pc'[d] \in {"new", "joining", "destroyed"}
            /\ \A d \in Conns : pc'[d] \in InRegistry => sessions'[fd'[d]] = d
        <5> SUFFICES ASSUME NEW d \in Conns
                     PROVE  /\ fd'[d] = NoFd <=> pc'[d] \in {"new", "joining", "destroyed"}
                            /\ pc'[d] \in InRegistry => sessions'[fd'[d]] = d
          OBVIOUS
        <5>1. CASE d = c
          BY <4>1, <4>2, <5>1 DEF TypeOK, InRegistry, Greeting, Known
        <5>2. CASE d # c
          <6>1. pc'[d] = pc[d] /\ fd'[d] = fd[d]
            BY <4>1, <5>2 DEF TypeOK
          <6>2. pc[d] \in InRegistry => fd[d] \in Fds /\ fd[d] # fd[c] /\ sessions[fd[d]] = d
            <7> SUFFICES ASSUME pc[d] \in InRegistry
                         PROVE  fd[d] \in Fds /\ fd[d] # fd[c] /\ sessions[fd[d]] = d
              OBVIOUS
            <7>1. pc[d] \notin {"new", "joining", "destroyed"}
              BY DEF InRegistry, Greeting, Known
            <7>2. fd[d] # NoFd /\ sessions[fd[d]] = d
              BY <7>1 DEF Agreement
            <7> QED
              BY <4>2, <5>2, <7>2 DEF TypeOK
          <6> QED
            BY <4>1, <6>1, <6>2 DEF Agreement
        <5> QED
          BY <5>1, <5>2
      <4>4. \A f \in Fds : sessions'[f] # NoConn => fd'[sessions'[f]] = f /\ pc'[sessions'[f]] \in InRegistry
        BY <4>1, <4>2 DEF Agreement, InRegistry, Greeting, Known, TypeOK
      <4>5. ASSUME NEW n \in Names, nickToFd'[n] # NoFd
            PROVE  LET d == sessions'[nickToFd'[n]] IN d # NoConn /\ nickname'[d] = n /\ pc'[d] \in Known \cup {"cleanup"}
        <5>1. nickToFd'[n] = nickToFd[n] /\ nickToFd[n] \in Fds /\ nickToFd[n] # fd[c]
          BY <4>1, <4>5 DEF TypeOK
        <5>2. sessions'[nickToFd[n]] = sessions[nickToFd[n]] /\ sessions[nickToFd[n]] # c
          BY <4>1, <5>1 DEF Agreement, TypeOK
        <5>3. /\ sessions[nickToFd[n]] # NoConn /\ nickname[sessions[nickToFd[n]]] = n
              /\ pc[sessions[nickToFd[n]]] \in Known \cup {"cleanup"}
          BY <5>1 DEF Agreement
        <5>4. pc'[sessions[nickToFd[n]]] = pc[sessions[nickToFd[n]]]
          BY <4>1, <5>1, <5>2, <5>3 DEF TypeOK
        <5> QED
          BY <4>1, <5>1, <5>2, <5>3, <5>4
      <4>6. /\ \A d, e \in Conns : fd'[d] # NoFd /\ fd'[d] = fd'[e] => d = e
            /\ \A i \in DOMAIN tasks' : pc'[tasks'[i]] = "queued"
            /\ \A i, j \in DOMAIN tasks' : tasks'[i] = tasks'[j] => i = j
        BY <2>0, <4>1 DEF Agreement, TypeOK
      <4> QED
        BY <4>3, <4>4, <4>5, <4>6 DEF Agreement
    <3>8. CASE Destroy(c)
      BY <2>0, <3>8 DEF Destroy, Agreement, InRegistry, Greeting, Known, TypeOK
    <3>9. CASE Join(c)
      BY <2>0, <3>9 DEF Join, Agreement, InRegistry, Greeting, Known, TypeOK
    <3>10. CASE Recv(c)
      BY <2>1, <3>1, <3>10 DEF Recv, Advance, PcState, Known
    <3>11. CASE ReaderEnds(c) \/ ClientLeaves(c)
      BY <2>1, <3>11 DEF ReaderEnds, ClientLeaves
    <3>12. ASSUME NEW type, NEW to, ClientSends(c, type, to) PROVE Agreement'
      BY <2>1, <3>12 DEF ClientSends
    <3>13. ~Bye(c) /\ ~AuthRefuses(c)
      BY DEF Bye, AuthRefuses, Serving, Handling, Orderly, Msgs
    <3>14. CASE OverflowPayload(c)
      BY <2>1, <3>14 DEF OverflowPayload
    <3> QED
      BY <2>2, <3>1, <3>2, <3>3, <3>4, <3>5, <3>6, <3>7, <3>8, <3>9, <3>10, <3>11, <3>12, <3>13, <3>14, HandlersAdvance
      DEF WorkerStep, OfflineStep, HandleStep, EndStep, ReadStep, ClientStep
  <2> QED
    BY <2>1, <2>2 DEF Next, vars
<1> QED
  BY <1>1, <1>2, ServerTypeOK, PTL DEF SafeSpec

\* Every session the registry points to is open and registered under its own
\* descriptor, although descriptors are reused as soon as they are closed.
THEOREM ServerHoldsOpenSessions ==
  ASSUME Orderly
  PROVE  SafeSpec => []RegistryHoldsOpenSessions
<1>1. Agreement => RegistryHoldsOpenSessions
  BY DEF Agreement, RegistryHoldsOpenSessions
<1> QED
  BY <1>1, RegistryAgrees, PTL

\* A nickname leads to a session in the registry whose client has that nickname,
\* also when several clients take the same one.
THEOREM ServerNicknamesLeadHome ==
  ASSUME Orderly
  PROVE  SafeSpec => []NicknamesLeadHome
<1>1. Agreement => NicknamesLeadHome
  BY DEF Agreement, NicknamesLeadHome
<1> QED
  BY <1>1, RegistryAgrees, PTL

\* A private message is written only to connections of the client it is for,
\* whether it is forwarded or delivered later.
THEOREM ServerKeepsPrivacy ==
  ASSUME Orderly
  PROVE  SafeSpec => []PrivateOnlyToAddressee
<1> USE Constants
<1>1. Init => Addressed
  BY DEF Init, Addressed
<1>2. TypeOK /\ Serving /\ Agreement /\ Addressed /\ [Next]_vars => Addressed'
  <2> SUFFICES ASSUME TypeOK, Serving, Agreement, Addressed, [Next]_vars PROVE Addressed'
    OBVIOUS
  <2> USE DEF Goto, netVars, sessionVars, registryVars, clientVars, ghosts
  <2> DEFINE Early == {"new", "queued", "start", "hello"}
  <2>1. CASE UNCHANGED <<pc, nickname, offline, out>>
    BY <2>1 DEF Addressed
  <2>2. ASSUME UNCHANGED <<nickname, offline, out>>, \A d \in Conns : pc'[d] \in Early => pc[d] \in Early
        PROVE  Addressed'
    BY <2>2 DEF Addressed
  <2>3. ASSUME NEW c \in Conns, WorkerStep(c) \/ ReadStep(c) \/ ClientStep(c) PROVE Addressed'
    <3>1. CASE TakeTask(c)
      <4>1. pc[c] = "queued"
        BY <3>1, TailElements DEF TakeTask, Agreement, TypeOK
      <4> QED
        BY <2>2, <3>1, <4>1 DEF TakeTask, TypeOK
    <3>2. CASE DeliverHead(c)
      <4> DEFINE n == nickname[c]
      <4>1. n \in Names /\ offline[n] \in Seq(Msgs) /\ offline[n] # <<>> /\ pc[c] = "deliver"
        BY <3>2 DEF DeliverHead, Serving, Known, TypeOK
      <4>2. /\ Head(offline[n]).to = n
            /\ \A i \in DOMAIN Tail(offline[n]) : Tail(offline[n])[i].to = n
        BY <4>1, TailElements DEF Addressed
      <4>3. /\ out' = out \cup {<<Head(offline[n]), c>>} /\ offline' = [offline EXCEPT ![n] = Tail(@)]
            /\ pc'[c] \in {"loop", "deliver"} /\ (\A d \in Conns : d # c => pc'[d] = pc[d]) /\ nickname' = nickname
        BY <3>2 DEF DeliverHead, TypeOK
      <4> QED
        BY <4>1, <4>2, <4>3 DEF Addressed, TypeOK
    <3>3. CASE DeliverFails(c)
      <4>1. nickname[c] \in Names /\ offline[nickname[c]] \in Seq(Msgs) /\ offline[nickname[c]] # <<>> /\ pc[c] = "deliver"
        BY <3>3 DEF DeliverFails, Serving, Known, TypeOK
      <4>2. Head(offline[nickname[c]]).to = nickname[c]
        BY <4>1, TailElements DEF Addressed
      <4>3. /\ out' \subseteq out \cup {<<Head(offline[nickname[c]]), c>>} /\ UNCHANGED <<offline, nickname>>
            /\ pc'[c] = "cleanup" /\ (\A d \in Conns : d # c => pc'[d] = pc[d])
        BY <3>3 DEF DeliverFails, TypeOK
      <4> QED
        BY <4>2, <4>3 DEF Addressed
    <3>4. CASE Broadcast(c)
      <4>1. /\ \A m, t : <<m, t>> \in out' \ out => m = cur[c]
            /\ cur[c].type # "PRIVATE" /\ UNCHANGED <<offline, nickname>>
            /\ pc'[c] = "ack" /\ (\A d \in Conns : d # c => pc'[d] = pc[d])
            /\ pc[c] = "sending"
        BY <3>4 DEF Broadcast, TypeOK
      <4> QED
        BY <4>1 DEF Addressed
    <3>5. CASE QueueOffline(c)
      <4>1. pc[c] = "sending" /\ cur[c] \in Msgs /\ cur[c].to \in Names /\ offline[cur[c].to] \in Seq(Msgs)
        BY <3>5 DEF QueueOffline, Serving, Handling, TypeOK
      <4>2. /\ offline' = [offline EXCEPT ![cur[c].to] = Append(@, cur[c])]
            /\ pc'[c] = "ack" /\ (\A d \in Conns : d # c => pc'[d] = pc[d]) /\ UNCHANGED <<nickname, out>>
        BY <3>5 DEF QueueOffline, TypeOK
      <4>3. \A i \in DOMAIN Append(offline[cur[c].to], cur[c]) : Append(offline[cur[c].to], cur[c])[i].to = cur[c].to
        BY <4>1, AppendElements DEF Addressed
      <4> QED
        BY <4>1, <4>2, <4>3 DEF Addressed, TypeOK
    <3>6. CASE ForwardPrivate(c)
      <4> DEFINE t == sessions[nickToFd[cur[c].to]]
      <4>1. /\ pc[c] = "sending" /\ cur[c].type = "PRIVATE" /\ cur[c].to \in Names /\ nickToFd[cur[c].to] # NoFd
        BY <3>6 DEF ForwardPrivate, Serving, Handling
      <4>2. nickname[t] = cur[c].to /\ pc[t] \in Known \cup {"cleanup"}
        BY <4>1 DEF Agreement
      <4>3. /\ out' \subseteq out \cup {<<cur[c], t>>} /\ UNCHANGED <<offline, nickname>>
            /\ pc'[c] \in {"ack", "cleanup"} /\ (\A d \in Conns : d # c => pc'[d] = pc[d])
        BY <3>6 DEF ForwardPrivate, TypeOK
      <4> HIDE DEF t
      <4> QED
        BY <4>1, <4>2, <4>3 DEF Addressed, Known
    <3>7. CASE RecvHello(c)
      <4>1. pc[c] = "hello" /\ UNCHANGED <<offline, out>>
        BY <3>7 DEF RecvHello
      <4>2. \A d \in Conns : d # c => nickname'[d] = nickname[d] /\ pc'[d] = pc[d]
        BY <3>7 DEF RecvHello, TypeOK
      <4> QED
        BY <4>1, <4>2 DEF Addressed
    <3>8. CASE AddSession(c) \/ SendWelcome(c) \/ Register(c) \/ LookForOffline(c) \/ Recv(c) \/ EnterRegistry(c)
      BY <2>2, <3>8 DEF AddSession, SendWelcome, WriteTo, Register, LookForOffline, Recv, EnterRegistry, TypeOK
    <3>9. CASE Ping(c) \/ SendAck(c) \/ StartReply(c) \/ EndReply(c) \/ OverflowPayload(c) \/ Bye(c) \/ OtherMessage(c)
      BY <2>2, <3>9 DEF Ping, SendAck, WriteTo, StartReply, EndReply, OverflowPayload, Bye, OtherMessage, TypeOK
    <3>10. CASE Cleanup(c) \/ Destroy(c) \/ Join(c) \/ AuthAccepts(c) \/ AuthRefuses(c) \/ AuthFails(c)
      BY <2>2, <3>10 DEF Cleanup, Destroy, Join, AuthAccepts, AuthRefuses, WriteTo, AuthFails, TypeOK
    <3>11. CASE Accept(c)
      BY <2>2, <3>11 DEF Accept, TypeOK
    <3>12. CASE ReaderEnds(c) \/ ClientLeaves(c) \/ \E type \in Types, to \in Names \cup {EmptyNick} : ClientSends(c, type, to)
      BY <2>1, <3>12 DEF ReaderEnds, ClientLeaves, ClientSends
    <3> QED
      BY <2>3, <3>1, <3>2, <3>3, <3>4, <3>5, <3>6, <3>7, <3>8, <3>9, <3>10, <3>11, <3>12
      DEF WorkerStep, HandshakeStep, OfflineStep, HandleStep, EndStep, ReadStep, ClientStep
  <2> QED
    BY <2>1, <2>3 DEF Next, vars
<1>3. Addressed => PrivateOnlyToAddressee
  BY DEF Addressed, PrivateOnlyToAddressee
<1> QED
  BY <1>1, <1>2, <1>3, ServerTypeOK, RegistryAgrees, PTL DEF SafeSpec

\* No step loses a message that is kept.
LEMMA KeptStays ==
  ASSUME TypeOK, Serving, NEW c \in Conns, WorkerStep(c) \/ ReadStep(c) \/ ClientStep(c),
         NEW m \in Msgs, m.type = "PRIVATE" => m.to \in Names, Kept(m)
  PROVE  Kept(m)'
<1> USE DEF netVars, sessionVars, registryVars, clientVars, ghosts
<1>1. CASE history \subseteq history' /\ unopened \subseteq unopened' /\ out \subseteq out' /\ offline' = offline
  BY <1>1 DEF Kept
<1>2. CASE DeliverHead(c)
  <2> DEFINE n == nickname[c]
  <2>1. n \in Names /\ offline[n] \in Seq(Msgs) /\ offline[n] # <<>>
    BY <1>2 DEF DeliverHead, Serving, Known, TypeOK
  <2>2. /\ UNCHANGED <<history, unopened>> /\ out' = out \cup {<<Head(offline[n]), c>>}
        /\ offline' = [offline EXCEPT ![n] = Tail(@)]
    BY <1>2 DEF DeliverHead
  <2>3. SUFFICES ASSUME m.type = "PRIVATE", NEW i \in DOMAIN offline[n], offline[n][i] = m, m.to = n
                 PROVE  Kept(m)'
    BY <2>2 DEF Kept, TypeOK
  <2>4. CASE i = 1
    BY <2>1, <2>2, <2>3, <2>4, TailElements DEF Kept
  <2>5. CASE i # 1
    <3>1. i - 1 \in DOMAIN Tail(offline[n]) /\ Tail(offline[n])[i - 1] = m
      BY <2>1, <2>3, <2>5, HeadTailProperties, LenProperties
    <3> QED
      BY <2>1, <2>2, <2>3, <3>1 DEF Kept, TypeOK
  <2> QED
    BY <2>4, <2>5
<1>3. CASE QueueOffline(c)
  <2> DEFINE n == cur[c].to
  <2>1. n \in Names /\ cur[c] \in Msgs /\ offline[n] \in Seq(Msgs)
    BY <1>3 DEF QueueOffline, Serving, Handling, TypeOK
  <2>2. UNCHANGED <<history, unopened, out>> /\ offline' = [offline EXCEPT ![n] = Append(@, cur[c])]
    BY <1>3 DEF QueueOffline
  <2>3. \A i \in DOMAIN offline[n] : i \in DOMAIN Append(offline[n], cur[c]) /\ Append(offline[n], cur[c])[i] = offline[n][i]
    BY <2>1, AppendElements
  <2> QED
    BY <2>1, <2>2, <2>3 DEF Kept, TypeOK
<1>4. CASE DeliverFails(c) \/ Broadcast(c) \/ ForwardPrivate(c)
  BY <1>1, <1>4 DEF DeliverFails, Broadcast, ForwardPrivate, AppendHistory
<1>5. CASE AddSession(c) \/ SendWelcome(c) \/ Register(c) \/ LookForOffline(c) \/ Recv(c) \/ EnterRegistry(c)
  BY <1>1, <1>5 DEF AddSession, SendWelcome, Register, LookForOffline, Recv, EnterRegistry
<1>6. CASE Ping(c) \/ SendAck(c) \/ StartReply(c) \/ EndReply(c) \/ OverflowPayload(c) \/ Bye(c) \/ OtherMessage(c)
  BY <1>1, <1>6 DEF Ping, SendAck, StartReply, EndReply, OverflowPayload, Bye, OtherMessage
<1>7. CASE Cleanup(c) \/ Destroy(c) \/ Join(c) \/ RecvHello(c) \/ AuthAccepts(c) \/ AuthRefuses(c) \/ AuthFails(c)
  BY <1>1, <1>7 DEF Cleanup, Destroy, Join, RecvHello, AuthAccepts, AuthRefuses, AuthFails
<1>8. CASE TakeTask(c) \/ Accept(c) \/ ReaderEnds(c) \/ ClientLeaves(c) \/ \E type \in Types, to \in Names \cup {EmptyNick} : ClientSends(c, type, to)
  BY <1>1, <1>8 DEF TakeTask, Accept, ReaderEnds, ClientLeaves, ClientSends
<1> QED
  BY <1>2, <1>3, <1>4, <1>5, <1>6, <1>7, <1>8
  DEF WorkerStep, HandshakeStep, OfflineStep, HandleStep, EndStep, ReadStep, ClientStep

\* A message acknowledged to its sender is not lost: a private message was written
\* to its receiver or is still queued for him, and a text was recorded unless
\* appendHistory() could not open the file, which keeps nobody from acknowledging it.
THEOREM ServerKeepsWhatItAcknowledged ==
  ASSUME Orderly
  PROVE  SafeSpec => []AckedIsKept
<1> USE Constants
<1>1. Init => Accounted
  BY DEF Init, Accounted
<1>2. TypeOK /\ Serving /\ Agreement /\ Accounted /\ [Next]_vars => Accounted'
  <2> SUFFICES ASSUME TypeOK, Serving, Agreement, Accounted, [Next]_vars PROVE Accounted'
    OBVIOUS
  <2> USE DEF Goto, netVars, sessionVars, registryVars, clientVars, ghosts
  <2>1. CASE UNCHANGED vars
    BY <2>1 DEF vars, Accounted, Kept, Up
  <2>2. ASSUME Up, NEW c \in Conns, WorkerStep(c) \/ ReadStep(c) \/ ClientStep(c) PROVE Accounted'
    <3>1. \A m \in Msgs : (m.type = "PRIVATE" => m.to \in Names) /\ Kept(m) => Kept(m)'
      BY <2>2, KeptStays
    <3>2. \A d \in Conns : pc[d] = "ack" => cur[d] \in Msgs /\ Kept(cur[d]) /\ (cur[d].type = "PRIVATE" => cur[d].to \in Names)
      BY <2>2 DEF Accounted, Serving, Handling
    <3>3. ASSUME acked' = acked, \A d \in Conns : Up' /\ pc'[d] = "ack" => cur'[d] = cur[d] /\ (pc[d] = "ack" \/ Kept(cur[d])')
          PROVE  Accounted'
      <4>1. \A m \in acked : m \in Msgs /\ Kept(m)' /\ (m.type = "PRIVATE" => m.to \in Names)
        BY <3>1 DEF Accounted, TypeOK
      <4>2. \A d \in Conns : pc[d] = "ack" => Kept(cur[d])' \/ cur'[d] # cur[d]
        <5> SUFFICES ASSUME NEW d \in Conns, pc[d] = "ack", cur'[d] = cur[d] PROVE Kept(cur[d])'
          OBVIOUS
        <5>1. PICK m \in Msgs : m = cur[d]
          BY <3>2
        <5>2. Kept(m)'
          BY <3>1, <3>2, <5>1
        <5> QED
          BY <5>1, <5>2 DEF Kept
      <4> QED
        BY <3>3, <4>1, <4>2 DEF Accounted
    <3>4. CASE SendAck(c)
      <4>1. /\ pc[c] = "ack" /\ acked' \subseteq acked \cup {cur[c]} /\ cur' = cur
            /\ pc'[c] # "ack" /\ \A d \in Conns : d # c => pc'[d] = pc[d]
        BY <3>4 DEF SendAck, WriteTo, TypeOK
      <4>2. UNCHANGED <<history, unopened, out, offline>>
        BY <3>4 DEF SendAck
      <4>3. \A m : Kept(m)' <=> Kept(m)
        BY <4>2 DEF Kept
      <4> QED
        BY <3>2, <4>1, <4>2 DEF Accounted, Kept, Up
    <3>5. CASE Broadcast(c)
      BY <3>3, <3>5 DEF Broadcast, AppendHistory, Kept, TypeOK
    <3>6. CASE QueueOffline(c)
      <4>1. cur[c].to \in Names /\ cur[c] \in Msgs /\ offline[cur[c].to] \in Seq(Msgs)
        BY <3>6 DEF QueueOffline, Serving, Handling, TypeOK
      <4>2. \E i \in DOMAIN Append(offline[cur[c].to], cur[c]) : Append(offline[cur[c].to], cur[c])[i] = cur[c]
        BY <4>1, AppendElements
      <4> QED
        BY <3>3, <3>6, <4>1, <4>2 DEF QueueOffline, Kept, TypeOK
    <3>7. CASE ForwardPrivate(c)
      <4> DEFINE t == sessions[nickToFd[cur[c].to]]
      <4>1. cur[c].type = "PRIVATE" /\ cur[c].to \in Names /\ nickToFd[cur[c].to] # NoFd
        BY <3>7 DEF ForwardPrivate, Serving, Handling
      <4>2. t \in Conns
        BY <4>1 DEF Agreement, TypeOK
      <4>3. PICK r \in Outcomes(t) : /\ server' = After(r)
                                     /\ out' = IF r = "sent" THEN out \cup {<<cur[c], t>>} ELSE out
                                     /\ pc' = [pc EXCEPT ![c] = IF r = "throws" THEN "cleanup" ELSE "ack"]
        BY <3>7, <4>2 DEF ForwardPrivate
      <4>4. r \in {"sent", "throws", "dies"}
        BY ServerAssumption DEF Outcomes, ServerAssumption
      <4>5. cur' = cur /\ acked' = acked
        BY <3>7 DEF ForwardPrivate
      <4>6. Up' /\ pc'[c] = "ack" => <<cur[c], t>> \in out'
        BY <4>3, <4>4 DEF Up, After, TypeOK
      <4>7. Up' /\ pc'[c] = "ack" => Kept(cur[c])'
        BY <4>1, <4>2, <4>5, <4>6 DEF Kept
      <4> HIDE DEF t
      <4> QED
        BY <3>3, <4>3, <4>5, <4>7 DEF TypeOK
    <3>8. CASE Ping(c)
      BY <3>3, <3>8 DEF Ping, WriteTo, Kept, TypeOK
    <3>9. CASE Recv(c) \/ DeliverHead(c) \/ DeliverFails(c)
      BY <3>3, <3>9 DEF Recv, DeliverHead, DeliverFails, TypeOK
    <3>10. CASE TakeTask(c) \/ AddSession(c) \/ SendWelcome(c) \/ Register(c) \/ LookForOffline(c) \/ EnterRegistry(c)
      BY <3>3, <3>10 DEF TakeTask, AddSession, SendWelcome, WriteTo, Register, LookForOffline, EnterRegistry, TypeOK
    <3>11. CASE StartReply(c) \/ EndReply(c) \/ OverflowPayload(c) \/ Bye(c) \/ OtherMessage(c)
      BY <3>3, <3>11 DEF StartReply, WriteTo, EndReply, OverflowPayload, Up, Bye, OtherMessage, TypeOK
    <3>12. CASE Cleanup(c) \/ Destroy(c) \/ Join(c) \/ RecvHello(c) \/ AuthAccepts(c) \/ AuthRefuses(c) \/ AuthFails(c)
      BY <3>3, <3>12 DEF Cleanup, Destroy, Join, RecvHello, AuthAccepts, AuthRefuses, WriteTo, AuthFails, TypeOK
    <3>13. CASE Accept(c) \/ ReaderEnds(c) \/ ClientLeaves(c) \/ \E type \in Types, to \in Names \cup {EmptyNick} : ClientSends(c, type, to)
      BY <3>3, <3>13 DEF Accept, ReaderEnds, ClientLeaves, ClientSends, TypeOK
    <3> QED
      BY <2>2, <3>4, <3>5, <3>6, <3>7, <3>8, <3>9, <3>10, <3>11, <3>12, <3>13
      DEF WorkerStep, HandshakeStep, OfflineStep, HandleStep, EndStep, ReadStep, ClientStep
  <2> QED
    BY <2>1, <2>2 DEF Next
<1>3. Accounted => AckedIsKept
  BY DEF Accounted, Kept, AckedIsKept
<1> QED
  BY <1>1, <1>2, <1>3, ServerTypeOK, RegistryAgrees, PTL DEF SafeSpec
===============================================================================
