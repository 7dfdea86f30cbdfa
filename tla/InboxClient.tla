------------------------------ MODULE InboxClient ------------------------------
(***************************************************************************)
(* The client of lab 6.  The ack reader, a thread of Client, reads the     *)
(* socket, counts ACKs and puts all else into the inbox; msg_reader takes  *)
(* messages from the inbox and, if that is stopped, runs connectWithRetry; *)
(* the main thread reads lines from stdin, sends messages that wait for    *)
(* their ACK (AckedDelivery), and measures round trips: /ping N registers  *)
(* and sends N PINGs, waits three seconds and prints and saves a report of *)
(* all PINGs so far, which /netdiag prints again.                          *)
(* The server is the environment: it may drop a PING, answer it late, send *)
(* texts from accept() on, and also lines that are no message, and stop    *)
(* and start.                                                              *)
(***************************************************************************)
EXTENDS Integers, Sequences, FiniteSets

CONSTANTS
  MaxSockets,  \* bound on the sockets the client has open at one time
  MaxLines,    \* bound on the lines the user types
  MaxPings,    \* bound on the PINGs of all /ping commands
  MaxStops,    \* bound on the times the server stops
  MaxTexts,    \* bound on the texts of other clients
  Rtts,        \* round-trip times that are measured
  NoRtt        \* std::nullopt

ASSUME InboxAssumption ==
  /\ MaxSockets \in Nat /\ MaxLines \in Nat /\ MaxPings \in Nat
  /\ MaxStops \in Nat /\ MaxTexts \in Nat
  /\ Rtts \subseteq Nat /\ NoRtt \notin Nat

Sockets == 1 .. MaxSockets
Pings == 1 .. MaxPings

VARIABLES
  main,      \* where the main thread is
  reader,    \* where msg_reader is
  ack,       \* Client::_ack_reader, "off" while it is not joinable
  stage,     \* where connectWithRetry() is
  fd,        \* Client::_socket_fd, 0 for -1
  ackFd,     \* the descriptor the ack reader's recv() was called with
  conn,      \* conn[s]: socket s and the connection it belongs to
  inbox, stopped,         \* Client::_inbox
  running, reconnecting,  \* is_running, is_reconnecting
  process,   \* "killed" by SIGPIPE or "aborted" by std::terminate
  server,    \* whether the server accepts connections
  pingSent,  \* Client::_ping_sent: the PINGs registered
  pingRtt,   \* Client::_ping_rtt
  stats,     \* rtt_ms of the elements of stats, the place of each standing for its msg_id
  togo,      \* PINGs that /ping has still to send
  print,     \* printPingResults(): the place in stats, and its local variables
  saved,     \* the reports in the file net_diag_<nickname>.json: none or one
  lines, stops, texts,  \* what the bounds count
  failed,    \* history: whether an attempt to connect has failed
  thrown,    \* history: whether a thread has met an exception nothing catches in a
             \* text, a line or an error of recv()
  handled,   \* history: PONGs msg_reader has handled
  before     \* history: those handled before the last report was begun

threads == <<main, reader, ack, stage>>
inboxVars == <<inbox, stopped>>
flags == <<running, reconnecting>>
world == <<server, stops, texts>>
causes == <<failed, thrown>>
pingVars == <<pingSent, pingRtt, stats, togo, print, saved, handled, before>>
vars == <<threads, fd, ackFd, conn, inboxVars, flags, process, world, pingVars, lines, causes>>

\* A socket: the server's handler for it, the line whose ACK is due, whether a reply
\* waits for an ACK itself, the PINGs not answered, and the messages not yet read.
Free == [state |-> "free", handler |-> "none", due |-> 0, asked |-> FALSE,
         pings |-> {}, unread |-> <<>>]
InUse == {s \in Sockets : conn[s].state # "free"}
Served(s) == s \in Sockets /\ conn[s].handler \in {"hello", "auth", "serving"}
Ended(s) == ~Served(s) /\ conn[s].unread = <<>>
Message(t, i) == [type |-> t, id |-> i]

NotPrinting == [at |-> 0, received |-> 0, rttSum |-> 0, jitterSum |-> 0, prev |-> -1]

Init ==
  /\ main = "dial" /\ reader = "off" /\ ack = "off" /\ stage = "connect"
  /\ fd = 0 /\ ackFd = 0 /\ conn = [s \in Sockets |-> Free]
  /\ inbox = <<>> /\ stopped = FALSE
  /\ running = TRUE /\ reconnecting = FALSE /\ process = "alive"
  /\ server = "up" /\ stops = 0 /\ texts = 0
  /\ pingSent = {} /\ pingRtt = [p \in Pings |-> NoRtt]
  /\ stats = <<>> /\ togo = 0 /\ print = NotPrinting /\ saved = {}
  /\ handled = {} /\ before = {}
  /\ lines = 0 /\ failed = FALSE /\ thrown = FALSE

Alive == process = "alive"
Dialing == main = "dial" \/ reader = "dial"
At(p) == Alive /\ Dialing /\ stage = p

------------------------------------------------------------------------------
(* Variants of operations below, each with one plausible slip. *)

AckEnds_StopsInbox ==
  /\ Alive /\ ack = "recv" /\ Ended(ackFd)
  /\ ack' = "ended" /\ stopped' = TRUE
  /\ UNCHANGED <<main, reader, stage, fd, ackFd, conn, inbox, flags, process, world, pingVars, lines, causes>>
RegisterPing_IdBefore ==
  /\ Alive /\ main = "register"
  /\ pingSent' = pingSent \cup {Len(stats)}
  /\ stats' = Append(stats, NoRtt)
  /\ main' = "ping"
  /\ UNCHANGED <<reader, ack, stage, fd, ackFd, conn, inboxVars, flags, process, world,
                 pingRtt, togo, print, saved, handled, before, lines, causes>>
Save_LooksAgain ==
  /\ Alive /\ main = "print" /\ print.at > Len(stats)
  /\ saved' = {[received |-> print.received, rttSum |-> print.rttSum,
                jitterSum |-> print.jitterSum, packets |-> [p \in DOMAIN stats |-> pingRtt[p]]]}
  /\ main' = "prompt" /\ print' = NotPrinting
  /\ UNCHANGED <<reader, ack, stage, fd, ackFd, conn, inboxVars, flags, process, world,
                 pingSent, pingRtt, stats, togo, handled, before, lines, causes>>

------------------------------------------------------------------------------
(* Writing *)

\* ::send() on _socket_fd is answered by k if there is a handler; else the first write
\* is accepted and draws a reset, or throws, and later ones throw or raise SIGPIPE.
Sent(k) ==
  /\ fd # 0 /\ conn[fd].handler # "none" /\ conn[fd].state # "reset"
  /\ conn' = [conn EXCEPT ![fd] = IF Served(fd) THEN k ELSE [@ EXCEPT !.state = "reset"]]
  /\ UNCHANGED process
SendThrows == ~Served(fd) /\ UNCHANGED <<conn, process>>
SendKills ==
  /\ fd # 0 /\ (conn[fd].state = "reset" \/ conn[fd].handler = "none")
  /\ process' = "killed"
  /\ UNCHANGED conn

\* A handler past the handshake leaves at a HELLO or AUTH; one in auth() takes nothing else.
Broken(k) == [k EXCEPT !.handler = "gone"]
AnswersHello(k) ==
  IF k.handler = "hello"
    THEN [k EXCEPT !.handler = "auth", !.unread = Append(@, Message("WELCOME", 0))]
    ELSE Broken(k)
AnswersAuth(k) ==
  IF k.handler # "auth" THEN {Broken(k)}
  ELSE {[k EXCEPT !.handler = "serving", !.unread = Append(@, Message("AUTH", 0))],
        [Broken(k) EXCEPT !.unread = Append(@, Message("ERROR", 0))]}
Takes(k, serving) ==
  CASE k.handler = "hello" -> AnswersHello(k)
    [] k.handler = "auth" -> Broken(k)
    [] OTHER -> serving

------------------------------------------------------------------------------
(* connectWithRetry(), by the main thread first and by msg_reader later *)

Passed(next) == stage' = next /\ UNCHANGED causes
Failed == stage' = "failed" /\ failed' = TRUE /\ UNCHANGED thrown

Connect ==
  /\ At("connect")
  /\ \E s \in Sockets \ InUse :
       /\ \A r \in Sockets \ InUse : s <= r
       /\ fd' = s
       /\ conn' = [conn EXCEPT ![s].state = "open",
                               ![s].handler = IF server = "up" THEN "hello" ELSE "none"]
  /\ IF server = "up" THEN Passed("hello") ELSE Failed
  /\ UNCHANGED <<main, reader, ack, ackFd, inboxVars, flags, process, world, pingVars, lines>>

\* enterNickname() takes the next line typed, sendHello() sends it.
Hello ==
  /\ At("hello") /\ lines < MaxLines
  /\ lines' = lines + 1
  /\ \/ fd # 0 /\ Sent(AnswersHello(conn[fd])) /\ Passed("welcome")
     \/ SendThrows /\ Failed
     \/ SendKills /\ UNCHANGED <<stage, causes>>
  /\ UNCHANGED <<main, reader, ack, fd, ackFd, inboxVars, flags, world, pingVars>>
SendAuth ==
  /\ At("auth")
  /\ \/ fd # 0 /\ (\E k \in AnswersAuth(conn[fd]) : Sent(k)) /\ Passed("reply")
     \/ SendThrows /\ Failed
     \/ SendKills /\ UNCHANGED <<stage, causes>>
  /\ UNCHANGED <<main, reader, ack, fd, ackFd, inboxVars, flags, world, pingVars, lines>>

\* recvWelcome() and auth() fail at any other type, and at the end of the stream.
DialRecv(p, type, next) ==
  /\ At(p)
  /\ IF fd = 0 THEN Failed /\ UNCHANGED conn
     ELSE IF conn[fd].unread # <<>>
       THEN /\ conn' = [conn EXCEPT ![fd].unread = Tail(@)]
            /\ IF Head(conn[fd].unread).type = type THEN Passed(next) ELSE Failed
     ELSE Ended(fd) /\ Failed /\ UNCHANGED conn
  /\ UNCHANGED <<main, reader, ack, fd, ackFd, inboxVars, flags, process, world, pingVars, lines>>
RecvWelcome == DialRecv("welcome", "WELCOME", "auth")
RecvAuth == DialRecv("reply", "AUTH", "start")

\* startAckReader(): to assign to a thread that is joinable ends the program.
StartAckReader ==
  /\ At("start")
  /\ IF ack = "off"
       THEN /\ ack' = "check" /\ stage' = "connect"
            /\ main' = IF main = "dial" THEN "prompt" ELSE main
            /\ reader' = IF main = "dial" THEN "loop" ELSE "clear"
            /\ UNCHANGED process
       ELSE process' = "aborted" /\ UNCHANGED threads
  /\ UNCHANGED <<fd, ackFd, conn, inboxVars, flags, world, pingVars, lines, causes>>

\* reset(): the inbox is stopped, the ack reader joined, the socket closed.
StopInbox ==
  /\ At("failed")
  /\ stopped' = TRUE /\ stage' = "join"
  /\ UNCHANGED <<main, reader, ack, fd, ackFd, conn, inbox, flags, process, world, pingVars, lines, causes>>
JoinAndClose ==
  /\ At("join") /\ ack \in {"off", "ended"}
  /\ ack' = "off" /\ stage' = "connect" /\ fd' = 0
  /\ conn' = [s \in Sockets |-> IF s = fd THEN Free ELSE conn[s]]
  /\ UNCHANGED <<main, reader, ackFd, inboxVars, flags, process, world, pingVars, lines, causes>>

------------------------------------------------------------------------------
(* The ack reader *)

AckCheck ==
  /\ Alive /\ ack = "check"
  /\ ack' = IF fd # 0 THEN "call" ELSE "ended"
  /\ UNCHANGED <<main, reader, stage, fd, ackFd, conn, inboxVars, flags, process, world, pingVars, lines, causes>>

\* _socket_fd is read again; recv() of descriptor -1 throws, and nothing catches.
AckCall ==
  /\ Alive /\ ack = "call"
  /\ ack' = "recv" /\ ackFd' = fd
  /\ process' = IF fd = 0 THEN "aborted" ELSE process
  /\ UNCHANGED <<main, reader, stage, fd, conn, inboxVars, flags, world, pingVars, lines, causes>>

\* An ACK ends the wait for it; a line that is empty ends the thread, one that is no message
\* in JSON throws; all else is enqueued, which throws if the inbox is stopped.
AckTakes ==
  /\ Alive /\ ack = "recv" /\ ackFd \in Sockets /\ conn[ackFd].unread # <<>>
  /\ conn' = [conn EXCEPT ![ackFd].unread = Tail(@)]
  /\ LET m == Head(conn[ackFd].unread)
         enqueued == m.type \notin {"ACK", "NONE"} IN
     \E garbled \in {FALSE, m.type = "NONE"} :
       /\ main' = IF m.type = "ACK" /\ main \in {"await", "awaitN"} /\ m.id = lines THEN "prompt" ELSE main
       /\ ack' = IF m.type = "NONE" THEN "ended" ELSE "check"
       /\ inbox' = IF enqueued /\ ~stopped THEN Append(inbox, m) ELSE inbox
       /\ process' = IF garbled \/ (enqueued /\ stopped) THEN "aborted" ELSE process
       /\ thrown' = (thrown \/ garbled)
  /\ UNCHANGED <<reader, stage, fd, ackFd, stopped, flags, world, pingVars, lines, failed>>

\* The end of the stream or a reset; any other error of recv() throws.
AckEnds ==
  /\ Alive /\ ack = "recv" /\ Ended(ackFd)
  /\ \/ ack' = "ended" /\ UNCHANGED <<process, thrown>>
     \/ process' = "aborted" /\ thrown' = TRUE /\ UNCHANGED ack
  /\ UNCHANGED <<main, reader, stage, fd, ackFd, conn, inboxVars, flags, world, pingVars, lines, failed>>

------------------------------------------------------------------------------
(* msg_reader *)

ReaderLoop ==
  /\ Alive /\ reader = "loop"
  /\ reader' = IF running THEN "pop" ELSE "done"
  /\ UNCHANGED <<main, ack, stage, fd, ackFd, conn, inboxVars, flags, process, world, pingVars, lines, causes>>

\* registerPong(): only a PING that is registered gets a round-trip time.
RegisterPong(p, rtt) ==
  /\ pingRtt' = IF p \in pingSent THEN [pingRtt EXCEPT ![p] = rtt] ELSE pingRtt
  /\ handled' = handled \cup {p}

\* printOfflineMessage() of a text that is "[OFFLINE]" and no more throws.
ReaderPop ==
  /\ Alive /\ reader = "pop" /\ inbox # <<>>
  /\ inbox' = Tail(inbox) /\ reader' = "loop"
  /\ LET m == Head(inbox) IN \E bare \in {FALSE, m.type = "TEXT"} :
       /\ IF m.type = "PONG" THEN \E rtt \in Rtts : RegisterPong(m.id, rtt) ELSE UNCHANGED <<pingRtt, handled>>
       /\ process' = IF bare THEN "aborted" ELSE process
       /\ thrown' = (thrown \/ bare)
  /\ UNCHANGED <<main, ack, stage, fd, ackFd, conn, stopped, flags, world,
                 pingSent, stats, togo, print, saved, before, lines, failed>>
ReaderLost ==
  /\ Alive /\ reader = "pop" /\ inbox = <<>> /\ stopped
  /\ reader' = IF ~running THEN "done" ELSE IF reconnecting THEN "loop" ELSE "dial"
  /\ reconnecting' = (reconnecting \/ running)
  /\ UNCHANGED <<main, ack, stage, fd, ackFd, conn, inboxVars, running, process, world, pingVars, lines, causes>>

\* is_reconnecting = false, notify_all(): the wake-up is that of ReconnectingClient.
Clear ==
  /\ Alive /\ reader = "clear"
  /\ reconnecting' = FALSE /\ reader' = "loop"
  /\ UNCHANGED <<main, ack, stage, fd, ackFd, conn, inboxVars, running, process, world, pingVars, lines, causes>>

------------------------------------------------------------------------------
(* main(): messages *)

\* Client::send() writes, then waits for the ACK of this line; an exception ends the
\* loop. /list and /history are never acknowledged and make the server wait for an ACK.
Send(next) ==
  /\ \E request \in BOOLEAN :
       \/ /\ fd # 0
          /\ Sent(Takes(conn[fd], IF request THEN [conn[fd] EXCEPT !.asked = TRUE]
                                             ELSE [conn[fd] EXCEPT !.due = lines']))
          /\ main' = next
       \/ SendThrows /\ main' = IF next = "awaitN" THEN "prompt" ELSE "join"
       \/ SendKills /\ UNCHANGED main
  /\ UNCHANGED <<reader, ack, stage, fd, ackFd, inboxVars, flags, world, pingVars, causes>>

\* /w, /list and /history; /history N catches the exception itself.
TypeCommand ==
  /\ Alive /\ main = "prompt" /\ lines < MaxLines
  /\ lines' = lines + 1
  /\ \E next \in {"await", "awaitN"} : Send(next)
TypeText ==
  /\ Alive /\ main = "prompt" /\ lines < MaxLines
  /\ lines' = lines + 1 /\ main' = "text"
  /\ UNCHANGED <<reader, ack, stage, fd, ackFd, conn, inboxVars, flags, process, world, pingVars, causes>>
SendText == Alive /\ main = "text" /\ ~reconnecting /\ UNCHANGED lines /\ Send("await")

\* No ACK after three attempts, or a later attempt that cannot be written.
GivesUp ==
  /\ Alive /\ main \in {"await", "awaitN"}
  /\ \/ main' = (IF main = "awaitN" THEN "prompt" ELSE "join") /\ UNCHANGED <<conn, process>>
     \/ SendKills /\ UNCHANGED main
  /\ UNCHANGED <<reader, ack, stage, fd, ackFd, inboxVars, flags, world, pingVars, lines, causes>>

\* /quit leaves the loop running.
Quit ==
  /\ Alive /\ main = "prompt" /\ lines < MaxLines
  /\ lines' = lines + 1
  /\ running' = FALSE /\ fd' = 0
  /\ conn' = [s \in Sockets |-> IF s = fd THEN [conn[s] EXCEPT !.state = "shut"] ELSE conn[s]]
  /\ UNCHANGED <<threads, ackFd, inboxVars, reconnecting, process, world, pingVars, causes>>

\* ~Client() destroys the ack reader, which ends the program unless reset() has joined it.
Join ==
  /\ Alive /\ main = "join" /\ reader = "done"
  /\ main' = "done"
  /\ process' = IF ack = "off" THEN process ELSE "aborted"
  /\ UNCHANGED <<reader, ack, stage, fd, ackFd, conn, inboxVars, flags, world, pingVars, lines, causes>>

------------------------------------------------------------------------------
(* main(): PINGs and the report *)

TypePing ==
  /\ Alive /\ main = "prompt" /\ lines < MaxLines
  /\ lines' = lines + 1
  /\ \E n \in 1 .. MaxPings - Len(stats) : togo' = n
  /\ main' = "register"
  /\ UNCHANGED <<reader, ack, stage, fd, ackFd, conn, inboxVars, flags, process, world,
                 pingSent, pingRtt, stats, print, saved, handled, before, causes>>
RegisterPing ==
  /\ Alive /\ main = "register"
  /\ pingSent' = pingSent \cup {Len(stats) + 1}
  /\ stats' = Append(stats, NoRtt)
  /\ main' = "ping"
  /\ UNCHANGED <<reader, ack, stage, fd, ackFd, conn, inboxVars, flags, process, world,
                 pingRtt, togo, print, saved, handled, before, lines, causes>>
SendPing ==
  /\ Alive /\ main = "ping"
  /\ togo' = togo - 1
  /\ \/ /\ fd # 0
        /\ Sent(Takes(conn[fd], [conn[fd] EXCEPT !.pings = @ \cup {Len(stats)}]))
        /\ main' = IF togo = 1 THEN "collect" ELSE "register"
     \/ SendThrows /\ main' = "join"
     \/ SendKills /\ UNCHANGED main
  /\ UNCHANGED <<reader, ack, stage, fd, ackFd, inboxVars, flags, world,
                 pingSent, pingRtt, stats, print, saved, handled, before, lines, causes>>

\* printPingResults() begins when the three seconds of /ping are over, or by /netdiag.
BeginPrint ==
  /\ Alive
  /\ \/ main = "collect" /\ UNCHANGED lines
     \/ main = "prompt" /\ stats # <<>> /\ lines < MaxLines /\ lines' = lines + 1
  /\ main' = "print"
  /\ print' = [NotPrinting EXCEPT !.at = 1]
  /\ before' = handled
  /\ UNCHANGED <<reader, ack, stage, fd, ackFd, conn, inboxVars, flags, process, world,
                 pingSent, pingRtt, stats, togo, saved, handled, causes>>

\* One element: getRtt() takes the lock for itself.
Distance(a, b) == IF a < b THEN b - a ELSE a - b
PrintNext ==
  /\ Alive /\ main = "print" /\ print.at <= Len(stats)
  /\ LET rtt == pingRtt[print.at] IN
       IF rtt = NoRtt THEN print' = [print EXCEPT !.at = @ + 1] /\ UNCHANGED stats
       ELSE /\ print' = [at |-> print.at + 1, received |-> print.received + 1,
                         rttSum |-> print.rttSum + rtt, prev |-> rtt,
                         jitterSum |-> print.jitterSum
                                       + IF print.prev >= 0 THEN Distance(rtt, print.prev) ELSE 0]
            /\ stats' = [stats EXCEPT ![print.at] = rtt]
  /\ UNCHANGED <<main, reader, ack, stage, fd, ackFd, conn, inboxVars, flags, process, world,
                 pingSent, pingRtt, togo, saved, handled, before, lines, causes>>

\* saveNetDiag(): the averages are the sums over their number of terms.
Save ==
  /\ Alive /\ main = "print" /\ print.at > Len(stats)
  /\ saved' = {[received |-> print.received, rttSum |-> print.rttSum,
                jitterSum |-> print.jitterSum, packets |-> stats]}
  /\ main' = "prompt" /\ print' = NotPrinting
  /\ UNCHANGED <<reader, ack, stage, fd, ackFd, conn, inboxVars, flags, process, world,
                 pingSent, pingRtt, stats, togo, handled, before, lines, causes>>

------------------------------------------------------------------------------
(* The server *)

serverKeeps == <<threads, fd, ackFd, inboxVars, flags, process, pingVars, lines, causes>>

\* A text, which may be "[OFFLINE]" and no more, or a line that is none: empty or no message.
TextArrives(s) ==
  /\ Served(s) /\ texts < MaxTexts
  /\ \E t \in {"TEXT", "NONE"} :
       conn' = [conn EXCEPT ![s].unread = Append(@, Message(t, 0))]
  /\ texts' = texts + 1
  /\ UNCHANGED <<serverKeeps, server, stops>>
AckArrives(s) ==
  /\ Served(s) /\ conn[s].due # 0
  /\ conn' = [conn EXCEPT ![s].due = 0, ![s].unread = Append(@, Message("ACK", conn[s].due))]
  /\ UNCHANGED <<serverKeeps, world>>
PongArrives(s) ==
  /\ Served(s)
  /\ \E p \in conn[s].pings :
       conn' = [conn EXCEPT ![s].pings = @ \ {p}, ![s].unread = Append(@, Message("PONG", p))]
  /\ UNCHANGED <<serverKeeps, world>>

\* A reply that gets no ACK ends the session; the server may end, with a FIN or a reset.
SessionEnds(s) ==
  /\ Served(s) /\ conn[s].asked
  /\ conn' = [conn EXCEPT ![s] = Broken(@)]
  /\ UNCHANGED <<serverKeeps, world>>
ServerStops ==
  /\ server = "up" /\ stops < MaxStops
  /\ server' = "down" /\ stops' = stops + 1
  /\ \E reset \in BOOLEAN :
       conn' = [s \in Sockets |->
                  IF ~Served(s) THEN conn[s]
                  ELSE [Broken(conn[s]) EXCEPT !.unread = IF reset THEN <<>> ELSE @]]
  /\ UNCHANGED <<serverKeeps, texts>>
ServerStarts ==
  /\ server = "down"
  /\ server' = "up"
  /\ UNCHANGED <<serverKeeps, conn, stops, texts>>

------------------------------------------------------------------------------
Redial ==
  \/ Connect \/ SendAuth \/ RecvWelcome \/ RecvAuth
  \/ StartAckReader \/ StopInbox \/ JoinAndClose
AckReader == AckCheck \/ AckCall \/ AckTakes \/ AckEnds
Reader == ReaderLoop \/ ReaderPop \/ ReaderLost \/ Clear
Main == SendText \/ GivesUp \/ Join \/ RegisterPing \/ SendPing \/ PrintNext \/ Save
User == Hello \/ TypeCommand \/ TypeText \/ Quit \/ TypePing
Server ==
  \/ ServerStops \/ ServerStarts
  \/ \E s \in Sockets : TextArrives(s) \/ AckArrives(s) \/ PongArrives(s) \/ SessionEnds(s)
Next == Redial \/ AckReader \/ Reader \/ Main \/ BeginPrint \/ User \/ Server

Spec == Init /\ [][Next]_vars

------------------------------------------------------------------------------
(* Properties *)

\* std::terminate() has one of five causes: an attempt to connect that has failed, after
\* which the ack reader meets a stopped inbox; /quit, after which it calls recv(-1) or is
\* destroyed without a join; a text that is "[OFFLINE]" and no more; a line that is no
\* message; and an error of recv() that is no reset.  A client that meets none of them
\* is never ended by its threads, by a message that comes late or by startAckReader().
AbortHasACause == process = "aborted" => failed \/ ~running \/ thrown

\* A report counts as received every PING whose PONG msg_reader had handled when the
\* report was begun, and no PING whose PONG it has not handled.  How late the PONG came
\* makes no difference, though lab6/task.md:201-203 counts a PING that
\* is not answered in time as lost.
ReportIsExact ==
  main = "print" /\ print.at > Len(stats) =>
    \A p \in DOMAIN stats :
      /\ p \in before => stats[p] # NoRtt
      /\ stats[p] # NoRtt => p \in handled

\* The averages in the file are those of the packets beside them, although PONGs come
\* while they are computed: the mean of the times, and the mean distance of one packet
\* received to the next received, across those lost, where the example of lab6/task.md:252-253
\* starts anew.
Accumulated(step, first, s) ==
  LET f[i \in 0 .. Len(s)] == IF i = 0 THEN first ELSE step[<<f[i - 1], s[i]>>] IN f[Len(s)]
Keep == [p \in Seq(Rtts) \X (Rtts \cup {NoRtt}) |-> IF p[2] = NoRtt THEN p[1] ELSE Append(p[1], p[2])]
Add == [p \in Nat \X Nat |-> p[1] + p[2]]
Times(s) == Accumulated(Keep, <<>>, s)
Total(s) == Accumulated(Add, 0, s)
Distances(t) == [i \in DOMAIN t |-> IF i = 1 THEN 0 ELSE Distance(t[i - 1], t[i])]
SavedReportAgrees ==
  \A r \in saved :
    LET t == Times(r.packets)
    IN  r.received = Len(t) /\ r.rttSum = Total(t) /\ r.jitterSum = Total(Distances(t))

==============================================================================
