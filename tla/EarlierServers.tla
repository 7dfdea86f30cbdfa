---------------------------- MODULE EarlierServers ----------------------------
(***************************************************************************)
(* The servers of labs 3, 4 and 5: the handler of each connection, which   *)
(* reads its socket itself (there are no ack readers, inboxes or ACKs yet),*)
(* and the registry of sessions.  Lab 4 adds authentication, nicknames and *)
(* private messages, lab 5 the queues of messages for absent receivers and *)
(* the history (of which HistoryFile speaks).  A critical section of       *)
(* SessionRegistry::_mtx waits for no answer in these labs, so it is one   *)
(* step; but a ::send() in it blocks while its client does not read, and   *)
(* the mutex is held meanwhile (Blocks).  Handlers run on the workers of   *)
(* the pool, further connections wait in its queue.  Clients are the       *)
(* environment: what a client has sent is chosen when the handler reads it.*)
(* lab says which of the three programs runs.                              *)
(***************************************************************************)
EXTENDS Naturals, Sequences, FiniteSets

CONSTANTS
  Labs,       \* the programs looked at: a subset of {3, 4, 5}
  Conns,      \* names (numbers) of sessions that exist at one time
  Fds,        \* file descriptors; the lowest free one is used
  Names,      \* nicknames clients introduce themselves with
  EmptyNick,  \* the empty nickname
  THREAD_COUNT,
  MaxMsgs,    \* bound on the messages clients send after the handshake
  MaxAccepts, \* bound on the connections made
  NoFd, NoConn

ASSUME EarlierAssumption ==
  /\ Labs \subseteq {3, 4, 5}
  /\ Fds \subseteq Nat /\ NoFd \notin Fds
  /\ Conns \subseteq Nat /\ IsFiniteSet(Conns) /\ NoConn \notin Conns
  /\ EmptyNick \notin Names
  /\ THREAD_COUNT \in Nat \ {0} /\ MaxMsgs \in Nat /\ MaxAccepts \in Nat

Nicks == Names \cup {EmptyNick}

Types == {"TEXT", "PRIVATE", "PING", "LIST", "HISTORY", "ERROR", "BYE", "HELLO"}
Msgs == [id : 1 .. MaxMsgs, type : Types, to : Nicks]

VARIABLES
  lab,       \* the program that runs
  server,    \* "down" once a signal or undefined behaviour has ended the process
  pc,        \* pc[c]: where the handler of connection c is
  fd,        \* fd[c]: ClientSession::_conn_fd
  nickname,  \* nickname[c]: what recvHello() has read
  end,       \* end[c]: "open"; "deaf" while the client does not read and its buffers
             \* are full; whether it has closed or reset the connection; "cut" once
             \* recv() has reported the reset
  probed,    \* clients that have left and have been written to since
  sessions,  \* SessionRegistry::_sessions
  nickToFd,  \* SessionRegistry::_nickname_to_fd
  offline,   \* SessionRegistry::_offline_queue, ids only
  sent,      \* number of messages clients have sent
  accepted,  \* number of connections made
  tasks,     \* ThreadPool::tasks_: connections no worker has taken
  out,       \* history: <<i, n>> for each private message i written to a session named n
  queued,    \* history: ids of the messages that were queued
  early      \* history: sessions that ended without remove(), or were closed before it

sessionVars == <<pc, fd, nickname>>
registryVars == <<sessions, nickToFd, offline>>
inputVars == <<sent, accepted, tasks>>
clientVars == <<end, inputVars>>
ghosts == <<out, queued, early>>
vars == <<lab, server, sessionVars, clientVars, probed, registryVars, ghosts>>

Init ==
  /\ lab \in Labs /\ server = "up"
  /\ pc = [c \in Conns |-> "new"]
  /\ fd = [c \in Conns |-> NoFd]
  /\ nickname = [c \in Conns |-> EmptyNick]
  /\ end = [c \in Conns |-> "open"]
  /\ probed = {}
  /\ sessions = [f \in Fds |-> NoConn]
  /\ nickToFd = [n \in Nicks |-> NoFd]
  /\ offline = [n \in Nicks |-> <<>>]
  /\ sent = 0 /\ accepted = 0 /\ tasks = <<>>
  /\ out = <<>> /\ queued = {} /\ early = {}

Up == server = "up"
OpenFds == {fd[c] : c \in Conns} \ {NoFd}
Goto(c, p) == pc' = [pc EXCEPT ![c] = p]
Connected(c) == end[c] \in {"open", "deaf"}

\* A handler that waits in ::send() with SessionRegistry::_mtx keeps the others out.
Holding == {"sending", "delivering"}
RegistryFree == \A c \in Conns : pc[c] \notin Holding

\* ~ClientSession() closes the socket; what the session held is gone.
DestroySession(c) ==
  /\ Goto(c, "destroyed")
  /\ fd' = [fd EXCEPT ![c] = NoFd]
  /\ nickname' = [nickname EXCEPT ![c] = EmptyNick]
  /\ end' = [end EXCEPT ![c] = "closed"]
  /\ probed' = probed \ {c}

\* What recvMsg() can return: a message the client has sent before it closed; at the
\* end of the stream nullopt; after a reset, which discards what is unread, nullopt
\* in lab 5, but in labs 3 and 4, where -1 is added to the length, a message of zeros.
\* What lab 5 reads may be an empty line, nullopt again, or no message in JSON, which
\* throws; the structures of labs 3 and 4 are taken to be well-formed.
Readable(c) == Connected(c) \/ end[c] = "closed"
AtEnd(c) == end[c] \in {"closed", "cut"} \/ (lab = 5 /\ end[c] = "reset")
Zeros(c) == lab # 5 /\ end[c] = "reset"
Malformed(c) == lab = 5 /\ Readable(c)

------------------------------------------------------------------------------
(* Writing *)

\* What ::send() to session c can do: nothing, as long as the client does not read and
\* its buffers are full.  A destroyed session is freed memory.  The
\* first write to a client that has closed is accepted or throws; once it has drawn
\* a reset, or the client has sent one, a write may raise SIGPIPE.
Outcomes(c) ==
  IF pc[c] = "destroyed" THEN {"throws", "dies"}
  ELSE IF fd[c] = NoFd THEN {"throws"}
  ELSE IF end[c] = "open" THEN {"sent"}
  ELSE IF end[c] = "deaf" THEN {}
  ELSE IF end[c] = "closed" /\ c \notin probed THEN {"sent", "throws"}
  ELSE {"sent", "throws", "dies"}
After(r) == IF r = "dies" THEN "down" ELSE "up"
Probe(S) == probed' = probed \cup {c \in S : ~Connected(c)}

\* The handler writes to its own client; an exception takes it to the clean-up.
WriteTo(c, next) ==
  \E r \in Outcomes(c) :
    /\ server' = After(r)
    /\ Goto(c, IF r = "throws" THEN "cleanup" ELSE next)
    /\ Probe({c})

\* deliverOffline() writes k of n messages; then all are written, or write k + 1 has
\* outcome r.
Delivers(c, n, k, r) ==
  /\ k > 0 => "sent" \in Outcomes(c)
  /\ IF k = n THEN r = "sent"
     ELSE r # "sent" /\ r \in Outcomes(c) \cup (IF k = 0 \/ Connected(c) THEN {} ELSE {"dies"})

\* Variants of operations below, each with one plausible slip.
Remove_NicknamesOnly(c) ==
  /\ Up /\ RegistryFree /\ pc[c] = "cleanup"
  /\ nickToFd' = [n \in Nicks |-> IF nickToFd[n] = fd[c] THEN NoFd ELSE nickToFd[n]]
  /\ Goto(c, "closing")
  /\ UNCHANGED <<lab, server, fd, nickname, clientVars, probed, sessions, offline, ghosts>>
DeliverOffline_PopsFirst(c) ==
  /\ Up /\ (pc[c] = "delivering" \/ (pc[c] = "offline" /\ RegistryFree))
  /\ LET q == offline[nickname[c]] IN
       \E k \in 0 .. Len(q), r \in {"sent", "throws", "dies"} :
         /\ Delivers(c, Len(q), k, r)
         /\ offline' = [offline EXCEPT ![nickname[c]] = SubSeq(q, k + 2, Len(q))]
         /\ out' = out \o [i \in 1 .. k |-> <<q[i], nickname[c]>>]
         /\ server' = After(r)
         /\ Goto(c, IF r = "throws" THEN "cleanup" ELSE "loop")
  /\ Probe({c})
  /\ UNCHANGED <<lab, fd, nickname, clientVars, sessions, nickToFd, queued, early>>
Remove_AfterClosing(c) ==
  /\ Up /\ RegistryFree /\ pc[c] = "cleanup"
  /\ fd' = [fd EXCEPT ![c] = NoFd]
  /\ Goto(c, "closing")
  /\ UNCHANGED <<lab, server, nickname, clientVars, probed, registryVars, ghosts>>

------------------------------------------------------------------------------
(* Accepting and the handshake *)

\* The name of a session is free before it is used, and again once the session is
\* destroyed and nothing refers to it.
Unused(c) ==
  pc[c] = "new" \/ (pc[c] = "destroyed" /\ c \notin early /\ \A f \in Fds : sessions[f] # c)

\* server.accept() and pool.enqueueConnection(), with the least name that is free.
Accept(c) ==
  /\ Up /\ accepted < MaxAccepts
  /\ accepted' = accepted + 1
  /\ Unused(c) /\ \A d \in Conns : Unused(d) => c <= d
  /\ end' = [end EXCEPT ![c] = "open"]
  /\ \E f \in Fds \ OpenFds :
       /\ \A g \in Fds \ OpenFds : f <= g
       /\ fd' = [fd EXCEPT ![c] = f]
  /\ Goto(c, "queued") /\ tasks' = Append(tasks, c)
  /\ UNCHANGED <<lab, server, nickname, sent, probed, registryVars, ghosts>>

\* A worker that is free takes the first connection and registers its session.
Busy == {c \in Conns : pc[c] \notin {"new", "queued", "destroyed"}}
AddSession(c) ==
  /\ Up /\ RegistryFree /\ pc[c] = "queued"
  /\ Cardinality(Busy) < THREAD_COUNT
  /\ c = Head(tasks) /\ tasks' = Tail(tasks)
  /\ sessions' = [sessions EXCEPT ![fd[c]] = c]
  /\ Goto(c, "hello")
  /\ UNCHANGED <<lab, server, fd, nickname, end, sent, accepted, probed, nickToFd, offline, ghosts>>

\* recvHello() takes a message of any type, its payload becomes the nickname.
RecvHello(c) ==
  /\ Up /\ pc[c] = "hello"
  /\ \E n \in Nicks :
       /\ Readable(c) \/ (Zeros(c) /\ n = EmptyNick)
       /\ nickname' = [nickname EXCEPT ![c] = n]
  /\ end' = [end EXCEPT ![c] = IF Zeros(c) THEN "cut" ELSE @]
  /\ Goto(c, "welcome")
  /\ UNCHANGED <<lab, server, fd, inputVars, probed, registryVars, ghosts>>
HelloThrows(c) ==
  /\ Up /\ pc[c] = "hello" /\ (AtEnd(c) \/ Malformed(c))
  /\ Goto(c, "cleanup")
  /\ UNCHANGED <<lab, server, fd, nickname, clientVars, probed, registryVars, ghosts>>
SendWelcome(c) ==
  /\ Up /\ pc[c] = "welcome"
  /\ WriteTo(c, IF lab = 3 THEN "loop" ELSE "auth")
  /\ UNCHANGED <<lab, fd, nickname, clientVars, registryVars, ghosts>>

\* auth(): MSG_AUTH is answered, whatever nickname the first message had; one without
\* payload or length is refused and the session closed, before the exception; another
\* type throws without closing, as does what is no message.
AuthAccepts(c) ==
  /\ Up /\ pc[c] = "auth" /\ Readable(c)
  /\ WriteTo(c, "register")
  /\ UNCHANGED <<lab, fd, nickname, clientVars, registryVars, ghosts>>
AuthRefuses(c) ==
  /\ Up /\ pc[c] = "auth" /\ Readable(c)
  /\ \E r \in Outcomes(c) :
       /\ server' = After(r)
       /\ fd' = IF r = "throws" THEN fd ELSE [fd EXCEPT ![c] = NoFd]
       /\ early' = IF r = "throws" THEN early ELSE early \cup {c}
  /\ Goto(c, "cleanup") /\ Probe({c})
  /\ UNCHANGED <<lab, nickname, clientVars, registryVars, out, queued>>
AuthThrows(c) ==
  /\ Up /\ pc[c] = "auth"
  /\ Goto(c, "cleanup")
  /\ UNCHANGED <<lab, server, fd, nickname, clientVars, probed, registryVars, ghosts>>

RegisterNickname(c) ==
  /\ Up /\ RegistryFree /\ pc[c] = "register"
  /\ nickToFd' = [nickToFd EXCEPT ![nickname[c]] = fd[c]]
  /\ Goto(c, IF lab = 5 THEN "offline" ELSE "loop")
  /\ UNCHANGED <<lab, server, fd, nickname, clientVars, probed, sessions, offline, ghosts>>

\* deliverOffline(): under one lock, each message is written, then popped; an
\* exception leaves it and those behind it in the queue.
DeliverOffline(c) ==
  /\ Up /\ (pc[c] = "delivering" \/ (pc[c] = "offline" /\ RegistryFree))
  /\ LET q == offline[nickname[c]] IN
       \E k \in 0 .. Len(q), r \in {"sent", "throws", "dies"} :
         /\ Delivers(c, Len(q), k, r)
         /\ offline' = [offline EXCEPT ![nickname[c]] = SubSeq(q, k + 1, Len(q))]
         /\ out' = out \o [i \in 1 .. k |-> <<q[i], nickname[c]>>]
         /\ server' = After(r)
         /\ Goto(c, IF r = "throws" THEN "cleanup" ELSE "loop")
  /\ Probe({c})
  /\ UNCHANGED <<lab, fd, nickname, clientVars, sessions, nickToFd, queued, early>>

------------------------------------------------------------------------------
(* The branches of the loop *)

Found(m) == nickToFd[m.to] # NoFd

\* The sessions that the registry writes message m of c to.
Receivers(c, m) ==
  IF m.type = "TEXT" THEN {sessions[f] : f \in Fds \ {fd[c]}} \ {NoConn}
  ELSE IF m.type = "PRIVATE" /\ lab # 3 /\ Found(m) THEN {sessions[nickToFd[m.to]]} \ {NoConn}
  ELSE {}

\* broadcast(): every other session is written to; an exception of one is caught.
Broadcast(c, m) ==
  /\ \/ \E t \in Receivers(c, m) : "dies" \in Outcomes(t) /\ server' = "down"
     \/ (\A t \in Receivers(c, m) : Outcomes(t) \notin {{}, {"dies"}}) /\ UNCHANGED server
  /\ Probe(Receivers(c, m))
  /\ Goto(c, "loop")
  /\ UNCHANGED <<fd, nickname, end, registryVars, ghosts>>

\* sendPrivate() writes to the session its map leads to, and lets the exception of
\* that write reach the sender's handler.
Forward(c, m) ==
  \E t \in Receivers(c, m), r \in {"sent", "throws", "dies"} :
    /\ r \in Outcomes(t)
    /\ server' = After(r)
    /\ out' = IF r = "sent" THEN Append(out, <<m.id, nickname[t]>>) ELSE out
    /\ Goto(c, IF r = "throws" THEN "cleanup" ELSE "loop")
    /\ Probe({t})

\* Lab 4: a nickname that is not found dereferences end(), one without a session a
\* null pointer; a message without a colon, which names nobody, throws.
Lab4Private(c, m) ==
  /\ \/ Forward(c, m)
     \/ Receivers(c, m) = {} /\ server' = "down" /\ UNCHANGED <<pc, probed, out>>
     \/ m.to = EmptyNick /\ pc[c] = "loop" /\ Goto(c, "cleanup") /\ UNCHANGED <<server, probed, out>>
  /\ UNCHANGED <<fd, nickname, end, registryVars, queued, early>>

\* Lab 5: a message for a nickname that is not found, be it empty, is queued.
Lab5Private(c, m) ==
  /\ \/ Forward(c, m) /\ UNCHANGED <<offline, queued>>
     \/ /\ Receivers(c, m) = {}
        /\ IF Found(m) THEN UNCHANGED <<offline, queued>>
           ELSE /\ offline' = [offline EXCEPT ![m.to] = Append(@, m.id)]
                /\ queued' = queued \cup {m.id}
        /\ UNCHANGED <<pc, server, probed, out>>
  /\ UNCHANGED <<fd, nickname, end, sessions, nickToFd, early>>

\* sendPong(), and lab 5's answers to MSG_LIST and MSG_HISTORY
Answer(c) == WriteTo(c, "loop") /\ UNCHANGED <<fd, nickname, end, registryVars, ghosts>>
Ignore == UNCHANGED <<server, sessionVars, end, probed, registryVars, ghosts>>

\* MSG_BYE closes the session before remove(session.fd()), which then removes -1.
Bye(c) ==
  /\ fd' = [fd EXCEPT ![c] = NoFd]
  /\ early' = early \cup {c}
  /\ Goto(c, "cleanup")
  /\ UNCHANGED <<server, nickname, end, probed, registryVars, out, queued>>

\* A type without a branch returns from the handler, which destroys the session.
Unexpected(c) ==
  /\ DestroySession(c)
  /\ early' = early \cup {c}
  /\ UNCHANGED <<server, registryVars, out, queued>>

Lab3Branch(c, m) ==
  \/ m.type = "TEXT" /\ Broadcast(c, m)
  \/ m.type = "PING" /\ Answer(c)
  \/ m.type = "BYE" /\ Bye(c)
  \/ m.type \notin {"TEXT", "PING", "BYE"} /\ Unexpected(c)
Lab4Branch(c, m) ==
  \/ m.type = "TEXT" /\ Broadcast(c, m)
  \/ m.type = "PRIVATE" /\ Lab4Private(c, m)
  \/ m.type = "PING" /\ Answer(c)
  \/ m.type = "BYE" /\ Bye(c)
  \/ m.type = "ERROR" /\ Ignore
  \/ m.type \notin {"TEXT", "PRIVATE", "PING", "BYE", "ERROR"} /\ Unexpected(c)
Lab5Branch(c, m) ==
  \/ m.type = "TEXT" /\ Broadcast(c, m)
  \/ m.type = "PRIVATE" /\ Lab5Private(c, m)
  \/ m.type \in {"PING", "LIST", "HISTORY"} /\ Answer(c)
  \/ m.type = "BYE" /\ Bye(c)
  \/ m.type = "ERROR" /\ Ignore
  \/ m.type = "HELLO" /\ Unexpected(c)
Branch(c, m) ==
  \/ lab = 3 /\ Lab3Branch(c, m)
  \/ lab = 4 /\ Lab4Branch(c, m)
  \/ lab = 5 /\ Lab5Branch(c, m)

\* Messages are numbered in the order in which they are handled; only private ones
\* need an addressee.  One that a handler waits to write counts already.
Current == {m \in Msgs : m.id = sent + 1 /\ (m.type # "PRIVATE" => m.to = EmptyNick)}
MayRead(c) == /\ pc[c] = "loop" /\ Readable(c)
              /\ sent + (IF \E d \in Conns : pc[d] = "sending" THEN 1 ELSE 0) < MaxMsgs

\* recv() and the branch of the message, one step when no write in it has to wait.
Handle(c) ==
  /\ Up /\ MayRead(c)
  /\ \E m \in Current :
       (m.type \in {"TEXT", "PRIVATE", "LIST"} => RegistryFree) /\ Branch(c, m)
  /\ sent' = sent + 1
  /\ UNCHANGED <<lab, accepted, tasks>>

\* The handler keeps the registry's mutex in a ::send() to a client that does not read,
\* and goes on once that client reads again or is gone.
Blocks(c) ==
  /\ Up /\ RegistryFree
  /\ \/ /\ MayRead(c) /\ \E m \in Current : \E t \in Receivers(c, m) : Outcomes(t) = {}
        /\ Goto(c, "sending")
     \/ /\ pc[c] = "offline" /\ offline[nickname[c]] # <<>> /\ Outcomes(c) = {}
        /\ Goto(c, "delivering")
  /\ UNCHANGED <<lab, server, fd, nickname, clientVars, probed, registryVars, ghosts>>
GoesOn(c) ==
  /\ Up /\ pc[c] = "sending"
  /\ \E m \in Current : Receivers(c, m) # {} /\ Branch(c, m)
  /\ sent' = sent + 1
  /\ UNCHANGED <<lab, accepted, tasks>>

\* stringToMsg() copies a text of more than MAX_PAYLOAD bytes beyond the payload: in
\* lab 4 one that the sender's name has made longer, in lab 5 a long list or history, or
\* a queued text with "[OFFLINE] " before it.  That nothing comes of it is the step
\* without it.
OverflowPayload(c) ==
  /\ Up /\ lab # 3
  /\ \/ MayRead(c)
     \/ lab = 5 /\ RegistryFree /\ pc[c] = "offline" /\ offline[nickname[c]] # <<>>
  /\ server' = "down"
  /\ UNCHANGED <<lab, sessionVars, clientVars, probed, registryVars, ghosts>>

HandleZeros(c) ==
  /\ Up /\ pc[c] = "loop" /\ Zeros(c)
  /\ Unexpected(c)
  /\ UNCHANGED <<lab, inputVars>>
Disconnected(c) ==
  /\ Up /\ pc[c] = "loop" /\ (AtEnd(c) \/ Malformed(c))
  /\ Goto(c, "cleanup")
  /\ UNCHANGED <<lab, server, fd, nickname, clientVars, probed, registryVars, ghosts>>

\* registry.remove(session.fd()) and then the end of the task, which destroys the session
Remove(c) ==
  /\ Up /\ RegistryFree /\ pc[c] = "cleanup"
  /\ nickToFd' = [n \in Nicks |-> IF nickToFd[n] = fd[c] THEN NoFd ELSE nickToFd[n]]
  /\ sessions' = [f \in Fds |-> IF f = fd[c] THEN NoConn ELSE sessions[f]]
  /\ Goto(c, "closing")
  /\ UNCHANGED <<lab, server, fd, nickname, clientVars, probed, offline, ghosts>>
Destroy(c) ==
  /\ Up /\ pc[c] = "closing"
  /\ DestroySession(c)
  /\ UNCHANGED <<lab, server, inputVars, registryVars, ghosts>>

\* A client stops reading, reads again, or leaves.
ClientTurns(c) ==
  /\ Up /\ pc[c] \notin {"new", "destroyed"} /\ Connected(c)
  /\ \E e \in {"open", "deaf", "closed", "reset"} \ {end[c]} : end' = [end EXCEPT ![c] = e]
  /\ UNCHANGED <<lab, server, sessionVars, inputVars, probed, registryVars, ghosts>>

HandlerStep(c) ==
  \/ AddSession(c) \/ SendWelcome(c) \/ RegisterNickname(c) \/ Blocks(c) \/ GoesOn(c) \/ DeliverOffline(c)
  \/ (AtEnd(c) /\ (HelloThrows(c) \/ Disconnected(c)))
  \/ (~Connected(c) /\ AuthThrows(c))
  \/ (Zeros(c) /\ RecvHello(c)) \/ HandleZeros(c)
  \/ Remove(c) \/ Destroy(c)
Next ==
  \E c \in Conns :
    \/ Accept(c) \/ HandlerStep(c) \/ RecvHello(c) \/ HelloThrows(c)
    \/ AuthAccepts(c) \/ AuthRefuses(c) \/ AuthThrows(c)
    \/ Handle(c) \/ Disconnected(c) \/ OverflowPayload(c) \/ ClientTurns(c)

SafeSpec == Init /\ [][Next]_vars

\* A handler that can go on without its client does; clients need not speak.
Spec == SafeSpec /\ \A c \in Conns : WF_vars(HandlerStep(c))

------------------------------------------------------------------------------
(* Properties *)

Open(c) == pc[c] \notin {"new", "queued", "closing", "destroyed"} /\ fd[c] # NoFd

\* The registry leads only to open sessions, each found under its descriptor, except
\* for what BYE, a refused AUTH or an unexpected type have left behind.
OnlyEarlyExitsStay ==
  /\ \A f \in Fds : LET c == sessions[f] IN c \in Conns \ early => Open(c) /\ fd[c] = f
  /\ early = {} =>
       \A n \in Nicks : nickToFd[n] # NoFd =>
         \E c \in Conns : Open(c) /\ fd[c] = nickToFd[n] /\ nickname[c] = n

\* Lab 5 never writes a queued message twice, never drops one, and hands those for
\* one nickname over in the order they came in, whoever comes, leaves or fails.
IdsWritten == {out[i][1] : i \in DOMAIN out}
IdsWaiting == UNION {{offline[n][i] : i \in DOMAIN offline[n]} : n \in Nicks}
QueuedOnceInOrder ==
  /\ IdsWaiting \cup (queued \cap IdsWritten) = queued
  /\ IdsWaiting \cap IdsWritten = {}
  /\ \A i, j \in DOMAIN out : i < j => out[i][1] # out[j][1]
  /\ \A n \in Nicks : \A i, j \in DOMAIN offline[n] : i < j => offline[n][i] < offline[n][j]
  /\ \A i, j \in DOMAIN out :
       i < j /\ {out[i][1], out[j][1]} \subseteq queued /\ out[i][2] = out[j][2]
         => out[i][1] < out[j][1]

\* Again and again every client that has left and been given a worker is out of the
\* registry and its session destroyed, unless the server has ended or the session ended
\* early, and provided that no client stops reading for ever: a ::send() to one that does
\* keeps the registry's mutex, which remove() needs.
DepartedIsRemoved ==
  <>[](\A c \in Conns : end[c] # "deaf")
    => []<>(~Up \/ \A c \in Conns :
              pc[c] # "queued" /\ ~Connected(c)
                => c \in early \/ (pc[c] = "destroyed" /\ \A f \in Fds : sessions[f] # c))

==============================================================================
