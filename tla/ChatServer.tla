------------------------------ MODULE ChatServer ------------------------------
(***************************************************************************)
(* The chat server of lab 6: the accept loop, the worker pool, the life of *)
(* each ClientSession from accept() to its destruction, its ack reader     *)
(* thread and inbox, and the SessionRegistry all of them share.  Clients   *)
(* are the environment: they speak, fall silent and leave as they like.    *)
(* A step is what one thread does between two points where another thread  *)
(* can interfere: a blocking read, registry._mtx, or a session's own _mtx, *)
(* which session.send() holds for as long as it waits for an ACK.          *)
(***************************************************************************)
EXTENDS Naturals, Sequences, FiniteSets

CONSTANTS
  Conns,         \* client connections, each made at most once
  Fds,           \* file descriptors: a set of numbers; the lowest free one is used
  THREAD_COUNT,  \* workers of the pool (defines.hpp: 10)
  Names,         \* nicknames clients introduce themselves with
  EmptyNick,     \* the empty nickname
  Types,         \* types of message clients send after authentication
  MaxMsgs,       \* bound on the messages clients send
  MaxDrops,      \* bound on the messages NetEmulator drops
  DeadSend,      \* outcomes of a repeated ::send() to a client that has left
  ClientsAck,    \* whether clients acknowledge what session.send() sends them
  EmptyAuth,     \* whether clients send MSG_AUTH with an empty nickname
  Malformed,     \* whether connected clients send lines that are not messages
  NoFd, NoConn

AllTypes == {"TEXT", "PRIVATE", "PING", "LIST", "HISTORY", "ERROR", "BYE", "OTHER"}

ASSUME ServerAssumption ==
  /\ Fds \subseteq Nat /\ NoFd \notin Fds /\ NoConn \notin Conns
  /\ IsFiniteSet(Conns) /\ THREAD_COUNT \in Nat \ {0}
  /\ Types \subseteq AllTypes
  /\ MaxMsgs \in Nat /\ MaxDrops \in Nat
  /\ DeadSend \subseteq {"sent", "throws", "dies"} /\ DeadSend # {"dies"}
  /\ ClientsAck \in BOOLEAN /\ EmptyAuth \in BOOLEAN /\ Malformed \in BOOLEAN

Msgs == [id : 1 .. MaxMsgs, type : Types, to : Names \cup {EmptyNick}]

VARIABLES
  server,     \* "down" once a signal or undefined behaviour has ended the process
  probed,     \* clients that have left and have been written to since
  tasks,      \* connections accepted and not yet taken by a worker
  pc,         \* pc[c]: where the handler of connection c is
  fd,         \* fd[c]: ClientSession::_conn_fd
  nickname,   \* nickname[c]: ClientSession::nickname
  reader,     \* reader[c]: the session's ack reader thread
  inbox,      \* inbox[c]: ClientSession::_inbox, and what the socket holds before it
  cur,        \* cur[c]: the message being handled
  gone,       \* connections whose client has closed its end
  sessions,   \* SessionRegistry::_sessions
  nickToFd,   \* SessionRegistry::_nickname_to_fd
  offline,    \* SessionRegistry::_offline_queue
  lockedBy,   \* owner of SessionRegistry::_mtx while it waits for a session
  history,    \* ids recorded in the history file
  unopened,   \* history: ids of messages for which the history file could not be opened
  sent,       \* number of messages sent by clients
  drops,      \* number of messages dropped by the emulator
  out,        \* history: <<m, c>> for chat message m written to connection c
  acked       \* history: messages acknowledged to their sender

netVars == <<server, probed>>
sessionVars == <<pc, fd, nickname, reader, inbox, cur>>
registryVars == <<sessions, nickToFd, offline, lockedBy, history>>
clientVars == <<gone, sent, drops>>
ghosts == <<out, acked, unopened>>
vars == <<netVars, tasks, sessionVars, registryVars, clientVars, ghosts>>

PcState == {"new", "queued", "start", "hello", "welcome", "auth", "register", "offline", "deliver",
            "loop", "handle", "sending", "ack", "reply", "cleanup", "destroy", "joining", "destroyed"}

\* Types, and that the registry is locked by the handler that waits inside it.
TypeOK ==
  /\ server \in {"up", "down"}
  /\ probed \subseteq Conns
  /\ tasks \in Seq(Conns)
  /\ pc \in [Conns -> PcState]
  /\ fd \in [Conns -> Fds \cup {NoFd}]
  /\ nickname \in [Conns -> Names \cup {EmptyNick}]
  /\ reader \in [Conns -> {"none", "reading", "done"}]
  /\ inbox \in [Conns -> Seq(Msgs)]
  /\ cur \in [Conns -> Msgs \cup {NoConn}]
  /\ gone \subseteq Conns
  /\ sessions \in [Fds -> Conns \cup {NoConn}]
  /\ nickToFd \in [Names -> Fds \cup {NoFd}]
  /\ offline \in [Names -> Seq(Msgs)]
  /\ lockedBy \in Conns \cup {NoConn}
  /\ history \subseteq 1 .. MaxMsgs
  /\ sent \in 0 .. MaxMsgs
  /\ drops \in 0 .. MaxDrops
  /\ out \subseteq Msgs \X Conns
  /\ acked \subseteq Msgs
  /\ unopened \subseteq 1 .. MaxMsgs
  /\ \A c \in Conns : pc[c] \in {"deliver", "sending"} <=> lockedBy = c

Init ==
  /\ server = "up"
  /\ probed = {}
  /\ tasks = <<>>
  /\ pc = [c \in Conns |-> "new"]
  /\ fd = [c \in Conns |-> NoFd]
  /\ nickname = [c \in Conns |-> EmptyNick]
  /\ reader = [c \in Conns |-> "none"]
  /\ inbox = [c \in Conns |-> <<>>]
  /\ cur = [c \in Conns |-> NoConn]
  /\ gone = {}
  /\ sessions = [f \in Fds |-> NoConn]
  /\ nickToFd = [n \in Names |-> NoFd]
  /\ offline = [n \in Names |-> <<>>]
  /\ lockedBy = NoConn
  /\ history = {}
  /\ sent = 0 /\ drops = 0
  /\ out = {} /\ acked = {} /\ unopened = {}

Up == server = "up"
RegistryFree == lockedBy = NoConn
OpenFds == {fd[c] : c \in Conns} \ {NoFd}
Goto(c, p) == pc' = [pc EXCEPT ![c] = p]

\* The threads of the pool that hold a connection; a worker is given back only
\* when the session has been destroyed.
Busy == {c \in Conns : pc[c] \notin {"new", "queued", "destroyed"}}

\* A session whose own _mtx is held while it waits for an ACK.
Waiting(c) == pc[c] \in {"deliver", "reply"}

\* What writing to connection c can do.  A destroyed session is freed memory, a
\* closed one has fd -1.  The first write to a client that has left succeeds or
\* throws; once it has drawn a reset, a write raises SIGPIPE, which nothing ignores.
Outcomes(c) ==
  IF pc[c] = "destroyed" THEN {"throws", "dies"}
  ELSE IF fd[c] = NoFd THEN {"throws"}
  ELSE IF c \in probed THEN DeadSend
  ELSE IF c \in gone THEN DeadSend \ {"dies"}
  ELSE {"sent"}
Probe(S) == probed' = IF "dies" \in DeadSend THEN probed \cup (S \cap gone) ELSE probed

After(r) == IF r = "dies" THEN "down" ELSE "up"

\* session.send() writes up to MAX_ACK_RETRIES times before it gives up.
RetryOutcomes(c) == IF c \in gone THEN DeadSend ELSE {"sent"}

\* appendHistory() returns without a record, and without telling its caller, when
\* the file cannot be opened.
AppendHistory(id) ==
  \/ history' = history \cup {id} /\ UNCHANGED unopened
  \/ unopened' = unopened \cup {id} /\ UNCHANGED history

\* The handler writes to its own client; an exception takes it to the clean-up.
WriteTo(c, next) ==
  \E r \in Outcomes(c) :
    /\ server' = After(r)
    /\ Goto(c, IF r = "throws" THEN "cleanup" ELSE next)
    /\ Probe({c})

\* Variants of operations below, each with one plausible slip.
DeliverHead_UnlocksBetween(c) ==
  /\ pc[c] = "deliver" /\ ClientsAck /\ c \notin gone /\ reader[c] = "reading"
  /\ LET n == nickname[c] IN
       /\ out' = out \cup {<<Head(offline[n]), c>>}
       /\ offline' = [offline EXCEPT ![n] = Tail(@)]
       /\ lockedBy' = NoConn
       /\ Goto(c, IF Len(offline[n]) = 1 THEN "loop" ELSE "deliver")
  /\ UNCHANGED <<netVars, tasks, fd, nickname, reader, inbox, cur, sessions, nickToFd, history, clientVars, acked, unopened>>
DeliverFails_Pops(c) ==
  /\ pc[c] = "deliver"
  /\ offline' = [offline EXCEPT ![nickname[c]] = Tail(@)]
  /\ lockedBy' = NoConn /\ Goto(c, "cleanup")
  /\ UNCHANGED <<netVars, tasks, fd, nickname, reader, inbox, cur, sessions, nickToFd, history, clientVars, ghosts>>
EndReply_NoTimeout(c) ==
  /\ pc[c] = "reply" /\ ClientsAck /\ c \notin gone /\ reader[c] = "reading"
  /\ Goto(c, "loop")
  /\ UNCHANGED <<netVars, tasks, fd, nickname, reader, inbox, cur, registryVars, clientVars, ghosts>>
Cleanup_NicknamesOnly(c) ==
  /\ pc[c] = "cleanup" /\ RegistryFree
  /\ nickToFd' = [n \in Names |-> IF nickToFd[n] = fd[c] THEN NoFd ELSE nickToFd[n]]
  /\ Goto(c, "destroy")
  /\ UNCHANGED <<netVars, tasks, fd, nickname, reader, inbox, cur, sessions, offline, lockedBy, history, clientVars, ghosts>>
Cleanup_SessionsOnly(c) ==
  /\ pc[c] = "cleanup" /\ RegistryFree
  /\ sessions' = [f \in Fds |-> IF f = fd[c] THEN NoConn ELSE sessions[f]]
  /\ Goto(c, "destroy")
  /\ UNCHANGED <<netVars, tasks, fd, nickname, reader, inbox, cur, nickToFd, offline, lockedBy, history, clientVars, ghosts>>
ReaderEnds_OnOpenSocket(c) ==
  /\ reader[c] = "reading" /\ c \in gone /\ fd[c] # NoFd
  /\ reader' = [reader EXCEPT ![c] = "done"]
  /\ UNCHANGED <<netVars, tasks, pc, fd, nickname, inbox, cur, registryVars, clientVars, ghosts>>

------------------------------------------------------------------------------
(* Accept loop, worker pool and handshake *)

\* server.accept() and pool.enqueueConnection()
Accept(c) ==
  /\ pc[c] = "new"
  /\ \E f \in Fds \ OpenFds :
       /\ \A g \in Fds \ OpenFds : f <= g
       /\ fd' = [fd EXCEPT ![c] = f]
  /\ tasks' = Append(tasks, c)
  /\ Goto(c, "queued")
  /\ UNCHANGED <<netVars, nickname, reader, inbox, cur, registryVars, clientVars, ghosts>>

\* A worker takes the oldest accepted connection.
TakeTask(c) ==
  /\ tasks # <<>> /\ c = Head(tasks)
  /\ Cardinality(Busy) < THREAD_COUNT
  /\ tasks' = Tail(tasks)
  /\ Goto(c, "start")
  /\ UNCHANGED <<netVars, fd, nickname, reader, inbox, cur, registryVars, clientVars, ghosts>>

\* registry.add(session), before anything is known of the client
AddSession(c) ==
  /\ pc[c] = "start" /\ RegistryFree
  /\ sessions' = [sessions EXCEPT ![fd[c]] = c]
  /\ Goto(c, "hello")
  /\ UNCHANGED <<netVars, tasks, fd, nickname, reader, inbox, cur, nickToFd, offline, lockedBy, history, clientVars, ghosts>>

\* session.recvHello(): the nickname; or the end of the stream or an empty line,
\* whose empty optional throws, or a line that json::parse() refuses.
RecvHello(c) ==
  /\ pc[c] = "hello"
  /\ \/ \E n \in Names : nickname' = [nickname EXCEPT ![c] = n] /\ Goto(c, "welcome")
     \/ (Malformed \/ c \in gone) /\ Goto(c, "cleanup") /\ UNCHANGED nickname
  /\ UNCHANGED <<netVars, tasks, fd, reader, inbox, cur, registryVars, clientVars, ghosts>>

SendWelcome(c) ==
  /\ pc[c] = "welcome"
  /\ WriteTo(c, "auth")
  /\ UNCHANGED <<tasks, fd, nickname, reader, inbox, cur, registryVars, clientVars, ghosts>>

\* session.auth(): a MSG_AUTH with a nickname, whichever, is confirmed.
AuthAccepts(c) ==
  /\ pc[c] = "auth"
  /\ WriteTo(c, "register")
  /\ UNCHANGED <<tasks, fd, nickname, reader, inbox, cur, registryVars, clientVars, ghosts>>

\* One with an empty nickname is answered by MSG_ERROR and the session closed at once.
AuthRefuses(c) ==
  /\ pc[c] = "auth" /\ EmptyAuth
  /\ \E r \in Outcomes(c) :
       /\ server' = After(r)
       /\ fd' = IF r = "throws" THEN fd ELSE [fd EXCEPT ![c] = NoFd]
       /\ Goto(c, "cleanup")
       /\ Probe({c})
  /\ UNCHANGED <<tasks, nickname, reader, inbox, cur, registryVars, clientVars, ghosts>>

\* session.auth() throws: end of stream, a line that is no message, or another type.
AuthFails(c) ==
  /\ pc[c] = "auth"
  /\ Goto(c, "cleanup")
  /\ UNCHANGED <<netVars, tasks, fd, nickname, reader, inbox, cur, registryVars, clientVars, ghosts>>

\* registry.registerNickname() and session.startAckReader()
Register(c) ==
  /\ pc[c] = "register" /\ RegistryFree
  /\ nickToFd' = [nickToFd EXCEPT ![nickname[c]] = fd[c]]
  /\ reader' = [reader EXCEPT ![c] = "reading"]
  /\ Goto(c, "offline")
  /\ UNCHANGED <<netVars, tasks, fd, nickname, inbox, cur, sessions, offline, lockedBy, history, clientVars, ghosts>>

------------------------------------------------------------------------------
(* registry.deliverOffline(): the registry stays locked while the session waits *)
(* for the ACK of each stored message.                                          *)

LookForOffline(c) ==
  /\ pc[c] = "offline" /\ RegistryFree
  /\ IF offline[nickname[c]] = <<>>
     THEN Goto(c, "loop") /\ UNCHANGED lockedBy
     ELSE Goto(c, "deliver") /\ lockedBy' = c
  /\ UNCHANGED <<netVars, tasks, fd, nickname, reader, inbox, cur, sessions, nickToFd, offline, history, clientVars, ghosts>>

\* The head is sent and its ACK read by the ack reader, then popped.  markDelivered() changes no
\* record: what is queued offline was never written to the history.
DeliverHead(c) ==
  /\ pc[c] = "deliver"
  /\ ClientsAck /\ c \notin gone /\ reader[c] = "reading"
  /\ LET n == nickname[c] IN
       /\ out' = out \cup {<<Head(offline[n]), c>>}
       /\ offline' = [offline EXCEPT ![n] = Tail(@)]
       /\ lockedBy' = IF Len(offline[n]) = 1 THEN NoConn ELSE c
       /\ Goto(c, IF Len(offline[n]) = 1 THEN "loop" ELSE "deliver")
  /\ UNCHANGED <<netVars, tasks, fd, nickname, reader, inbox, cur, sessions, nickToFd, history, clientVars, acked, unopened>>

\* session->send() throws: the write fails, or no ACK comes in MAX_ACK_RETRIES
\* attempts.  The message stays queued, the lock is released.
DeliverFails(c) ==
  /\ pc[c] = "deliver"
  /\ \E r \in RetryOutcomes(c) :
       /\ server' = After(r)
       /\ Probe({c})
       /\ out' = IF r = "sent" THEN out \cup {<<Head(offline[nickname[c]]), c>>} ELSE out
  /\ lockedBy' = NoConn
  /\ Goto(c, "cleanup")
  /\ UNCHANGED <<tasks, fd, nickname, reader, inbox, cur, sessions, nickToFd, offline, history, clientVars, acked, unopened>>

------------------------------------------------------------------------------
(* The handler's loop *)

\* session.recv() and emulator.apply().  recv() waits for ever on an empty inbox:
\* only close() stops it, and only the handler itself calls close().
Recv(c) ==
  /\ pc[c] = "loop" /\ inbox[c] # <<>>
  /\ inbox' = [inbox EXCEPT ![c] = Tail(@)]
  /\ \/ /\ drops < MaxDrops
        /\ drops' = drops + 1
        /\ UNCHANGED <<pc, cur>>
     \/ /\ cur' = [cur EXCEPT ![c] = Head(inbox[c])]
        /\ Goto(c, "handle")
        /\ UNCHANGED drops
  /\ UNCHANGED <<netVars, tasks, fd, nickname, reader, registryVars, gone, sent, ghosts>>

\* broadcast() and sendPrivate() take the registry's lock ...
EnterRegistry(c) ==
  /\ pc[c] = "handle" /\ cur[c].type \in {"TEXT", "PRIVATE"} /\ RegistryFree
  /\ lockedBy' = c
  /\ Goto(c, "sending")
  /\ UNCHANGED <<netVars, tasks, fd, nickname, reader, inbox, cur, sessions, nickToFd, offline, history, clientVars, ghosts>>

\* ... and each target's session lock; meanwhile the registry stays locked.
Targets(c) == {sessions[f] : f \in Fds \ {fd[c]}} \ {NoConn}

\* An exception of one target's session is swallowed, the others are served.
Broadcast(c) ==
  /\ pc[c] = "sending" /\ cur[c].type = "TEXT"
  /\ \A t \in Targets(c) : ~Waiting(t)
  /\ \E r \in [Targets(c) -> {"sent", "throws", "dies"}] :
       /\ \A t \in Targets(c) : r[t] \in Outcomes(t)
       /\ server' = IF \E t \in Targets(c) : r[t] = "dies" THEN "down" ELSE "up"
       /\ Probe(Targets(c))
       /\ out' = out \cup {<<cur[c], t>> : t \in {u \in Targets(c) : r[u] = "sent"}}
  /\ AppendHistory(cur[c].id)
  /\ lockedBy' = NoConn
  /\ Goto(c, "ack")
  /\ UNCHANGED <<tasks, fd, nickname, reader, inbox, cur, sessions, nickToFd, offline, clientVars, acked>>

\* sendPrivate() to a nickname nobody has: the message is queued, not recorded.
QueueOffline(c) ==
  /\ pc[c] = "sending" /\ cur[c].type = "PRIVATE"
  /\ nickToFd[cur[c].to] = NoFd
  /\ offline' = [offline EXCEPT ![cur[c].to] = Append(@, cur[c])]
  /\ lockedBy' = NoConn
  /\ Goto(c, "ack")
  /\ UNCHANGED <<netVars, tasks, fd, nickname, reader, inbox, cur, sessions, nickToFd, history, clientVars, ghosts>>

\* sendPrivate() to a known nickname.  Without a session behind its descriptor it
\* returns silently; an exception of the target's session is the sender's.
ForwardPrivate(c) ==
  /\ pc[c] = "sending" /\ cur[c].type = "PRIVATE"
  /\ nickToFd[cur[c].to] # NoFd
  /\ LET t == sessions[nickToFd[cur[c].to]] IN
       /\ t # NoConn => ~Waiting(t)
       /\ \E r \in IF t = NoConn THEN {"skipped"} ELSE Outcomes(t) :
            /\ server' = After(r)
            /\ Probe({t})
            /\ out' = IF r = "sent" THEN out \cup {<<cur[c], t>>} ELSE out
            /\ IF r = "sent" THEN AppendHistory(cur[c].id) ELSE UNCHANGED <<history, unopened>>
            /\ Goto(c, IF r = "throws" THEN "cleanup" ELSE "ack")
  /\ lockedBy' = NoConn
  /\ UNCHANGED <<tasks, fd, nickname, reader, inbox, cur, sessions, nickToFd, offline, clientVars, acked>>

\* session.sendPong()
Ping(c) ==
  /\ pc[c] = "handle" /\ cur[c].type = "PING"
  /\ WriteTo(c, "ack")
  /\ UNCHANGED <<tasks, fd, nickname, reader, inbox, cur, registryVars, clientVars, ghosts>>

\* session.sendAckFor(), after the message has been dealt with
SendAck(c) ==
  /\ pc[c] = "ack"
  /\ WriteTo(c, "loop")
  /\ acked' = IF pc'[c] = "loop" THEN acked \cup {cur[c]} ELSE acked
  /\ UNCHANGED <<tasks, fd, nickname, reader, inbox, cur, registryVars, clientVars, out, unopened>>

\* getUserList() under the registry's lock, getHistory() under none; the answer
\* is sent by session.send(), and the request itself is never acknowledged.
StartReply(c) ==
  /\ pc[c] = "handle" /\ cur[c].type \in {"LIST", "HISTORY"}
  /\ cur[c].type = "LIST" => RegistryFree
  /\ WriteTo(c, "reply")
  /\ UNCHANGED <<tasks, fd, nickname, reader, inbox, cur, registryVars, clientVars, ghosts>>

\* The answer is acknowledged, or session.send() throws after its last attempt.
EndReply(c) ==
  /\ pc[c] = "reply"
  /\ \/ ClientsAck /\ c \notin gone /\ reader[c] = "reading" /\ Goto(c, "loop") /\ UNCHANGED netVars
     \/ \E r \in RetryOutcomes(c) : server' = After(r) /\ Goto(c, "cleanup") /\ Probe({c})
  /\ UNCHANGED <<tasks, fd, nickname, reader, inbox, cur, registryVars, clientVars, ghosts>>

\* stringToMsg() copies a text of more than MAX_PAYLOAD bytes beyond the payload: a
\* long list or history, or a queued text with "[OFFLINE] " before it.  That nothing
\* comes of it is the step without it.
OverflowPayload(c) ==
  /\ \/ pc[c] = "deliver"
     \/ pc[c] = "handle" /\ cur[c].type = "HISTORY"
     \/ pc[c] = "handle" /\ cur[c].type = "LIST" /\ RegistryFree
  /\ server' = "down"
  /\ UNCHANGED <<probed, tasks, sessionVars, registryVars, clientVars, ghosts>>

\* MSG_BYE: session.close() comes before registry.remove(session.fd()).
Bye(c) ==
  /\ pc[c] = "handle" /\ cur[c].type = "BYE"
  /\ fd' = [fd EXCEPT ![c] = NoFd]
  /\ inbox' = [inbox EXCEPT ![c] = <<>>]
  /\ Goto(c, "cleanup")
  /\ UNCHANGED <<netVars, tasks, nickname, reader, cur, registryVars, clientVars, ghosts>>

\* MSG_ERROR is printed; any other type ends the handler without a clean-up.
OtherMessage(c) ==
  /\ pc[c] = "handle" /\ cur[c].type \in {"ERROR", "OTHER"}
  /\ Goto(c, IF cur[c].type = "ERROR" THEN "loop" ELSE "destroy")
  /\ UNCHANGED <<netVars, tasks, fd, nickname, reader, inbox, cur, registryVars, clientVars, ghosts>>

------------------------------------------------------------------------------
(* The end of a session *)

\* registry.remove(session.fd()): with fd -1 it finds nothing.
Cleanup(c) ==
  /\ pc[c] = "cleanup" /\ RegistryFree
  /\ nickToFd' = [n \in Names |-> IF nickToFd[n] = fd[c] THEN NoFd ELSE nickToFd[n]]
  /\ sessions' = [f \in Fds |-> IF f = fd[c] THEN NoConn ELSE sessions[f]]
  /\ Goto(c, "destroy")
  /\ UNCHANGED <<netVars, tasks, fd, nickname, reader, inbox, cur, offline, lockedBy, history, clientVars, ghosts>>

\* ~ClientSession(): close() ...
Destroy(c) ==
  /\ pc[c] = "destroy"
  /\ fd' = [fd EXCEPT ![c] = NoFd]
  /\ inbox' = [inbox EXCEPT ![c] = <<>>]
  /\ Goto(c, "joining")
  /\ UNCHANGED <<netVars, tasks, nickname, reader, cur, registryVars, clientVars, ghosts>>

\* ... then _ack_reader.join().
Join(c) ==
  /\ pc[c] = "joining" /\ reader[c] # "reading"
  /\ Goto(c, "destroyed")
  /\ UNCHANGED <<netVars, tasks, fd, nickname, reader, inbox, cur, registryVars, clientVars, ghosts>>

\* The ack reader leaves its loop: at the end of the stream, at an empty line, at a
\* line that json::parse() refuses, or after close(), when the client sends again.
ReaderEnds(c) ==
  /\ reader[c] = "reading"
  /\ Malformed \/ c \in gone \/ fd[c] = NoFd
  /\ reader' = [reader EXCEPT ![c] = "done"]
  /\ UNCHANGED <<netVars, tasks, pc, fd, nickname, inbox, cur, registryVars, clientVars, ghosts>>

------------------------------------------------------------------------------
(* The clients *)

ClientSends(c, type, to) ==
  /\ reader[c] = "reading" /\ fd[c] # NoFd /\ c \notin gone
  /\ sent < MaxMsgs
  /\ sent' = sent + 1
  /\ inbox' = [inbox EXCEPT ![c] = Append(@, [id |-> sent + 1, type |-> type, to |-> to])]
  /\ UNCHANGED <<netVars, tasks, pc, fd, nickname, reader, cur, registryVars, gone, drops, ghosts>>

ClientLeaves(c) ==
  /\ pc[c] \notin {"new", "destroyed"} /\ c \notin gone
  /\ gone' = gone \cup {c}
  /\ UNCHANGED <<netVars, tasks, sessionVars, registryVars, sent, drops, ghosts>>

------------------------------------------------------------------------------
HandshakeStep(c) == AddSession(c) \/ RecvHello(c) \/ SendWelcome(c) \/ AuthAccepts(c) \/ AuthRefuses(c) \/ AuthFails(c) \/ Register(c)
OfflineStep(c) == LookForOffline(c) \/ DeliverHead(c) \/ DeliverFails(c)
HandleStep(c) ==
  \/ EnterRegistry(c) \/ Broadcast(c) \/ QueueOffline(c) \/ ForwardPrivate(c)
  \/ Ping(c) \/ SendAck(c) \/ StartReply(c) \/ EndReply(c) \/ OverflowPayload(c) \/ Bye(c) \/ OtherMessage(c)
EndStep(c) == Cleanup(c) \/ Destroy(c) \/ Join(c)

\* What the handler of c does without waiting for its client to speak first.
WorkerStep(c) ==
  TakeTask(c) \/ AddSession(c) \/ SendWelcome(c) \/ Register(c) \/ OfflineStep(c) \/ Recv(c) \/ HandleStep(c) \/ EndStep(c)
ReadStep(c) == RecvHello(c) \/ AuthAccepts(c) \/ AuthRefuses(c) \/ AuthFails(c) \/ ReaderEnds(c)

\* Only a private message names its receiver.
ClientStep(c) ==
  \/ Accept(c)
  \/ ClientLeaves(c)
  \/ \E type \in Types \ {"PRIVATE"} : ClientSends(c, type, EmptyNick)
  \/ \E to \in Names : "PRIVATE" \in Types /\ ClientSends(c, "PRIVATE", to)

Next == Up /\ \E c \in Conns : WorkerStep(c) \/ ReadStep(c) \/ ClientStep(c)

SafeSpec == Init /\ [][Next]_vars

\* The threads of the server are scheduled and its waits for ACKs end; a client
\* need not connect, speak or leave, but that it has left is noticed.
Spec ==
  /\ SafeSpec
  /\ \A c \in Conns :
       /\ WF_vars(Up /\ WorkerStep(c))
       /\ WF_vars(Up /\ c \in gone /\ ReaderEnds(c))
------------------------------------------------------------------------------
\* Every session the registry points to exists, is open, and is registered under
\* its own descriptor, although descriptors are reused as soon as they are closed.
RegistryHoldsOpenSessions ==
  \A f \in Fds : sessions[f] # NoConn => fd[sessions[f]] = f

\* A nickname leads to a session in the registry whose client has that nickname.
NicknamesLeadHome ==
  \A n \in Names : nickToFd[n] # NoFd =>
    sessions[nickToFd[n]] # NoConn /\ nickname[sessions[nickToFd[n]]] = n

\* A private message is written only to connections of the client it is for,
\* whether it is forwarded or delivered later.
PrivateOnlyToAddressee ==
  \A m \in Msgs, c \in Conns : <<m, c>> \in out /\ m.type = "PRIVATE" => nickname[c] = m.to

\* A message acknowledged to its sender is not lost: a private message was written
\* to its receiver or is still queued for him, a text was recorded, unless the
\* history file could not be opened: the text is acknowledged all the same.
AckedIsKept ==
  \A m \in acked :
    /\ m.type = "TEXT" => m.id \in history \cup unopened
    /\ m.type = "PRIVATE" => \/ \E c \in Conns : <<m, c>> \in out
                             \/ \E i \in DOMAIN offline[m.to] : offline[m.to][i] = m

\* The lock of the registry is held across waits by one handler, and it is given
\* back: by the last ACK, by a failure, or by the end of the process.  The waits are
\* those for ACKs and for the locks of sessions.  ::send() itself is taken not to
\* block: a client that stays connected and stops reading until its socket is full
\* would keep the lock for as long as it likes.
RegistryIsReleased == \A c \in Conns : (lockedBy = c) ~> (lockedBy # c \/ ~Up)

\* A handler that has begun with a message comes back for the next one or ends its
\* session, while another handler delivers offline messages inside the registry,
\* sends to this session or waits in its own for an ACK that may never come.  As
\* above, ::send() is taken not to block.
HandlingEnds ==
  \A c \in Conns : (pc[c] = "handle") ~> (pc[c] \in {"loop", "destroy", "joining", "destroyed"} \/ ~Up)

\* A session that ends after its client has left gives its worker back.
WorkerIsReturned ==
  \A c \in Conns : (pc[c] = "cleanup" /\ c \in gone) ~> (pc[c] = "destroyed" \/ ~Up)
------------------------------------------------------------------------------
(* What the task descriptions say of the server and the code does not do *)

\* lab5/task.md: when the connection breaks, the client is removed from the list.
DepartedIsRemoved ==
  \A c \in Conns : (c \in gone /\ pc[c] = "loop") ~> (\A f \in Fds : sessions[f] # c)

==============================================================================
