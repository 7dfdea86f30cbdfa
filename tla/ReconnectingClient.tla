-------------------------- MODULE ReconnectingClient --------------------------
(***************************************************************************)
(* The clients of labs 3, 4 and 5: a main thread that reads lines from     *)
(* stdin and writes messages, and msg_reader, which reads the socket and,  *)
(* when the connection is lost, runs connectWithRetry().  Both threads use *)
(* Client::_socket_fd and stdin without a lock; is_reconnecting and        *)
(* reconnect_cv make the main thread wait while the reader reconnects.     *)
(* The three programs differ in their handshake and their commands.        *)
(* The server is the environment: it answers what it reads at once, may    *)
(* write to a client from accept() on (broadcast() reaches sessions whose  *)
(* handshake is not over), and stops and starts again.                     *)
(***************************************************************************)
EXTENDS Integers, Sequences, FiniteSets

CONSTANTS
  Labs,        \* the programs looked at: a subset of {3, 4, 5}
  MaxSockets,  \* bound on the sockets the client has open at one time
  MaxLines,    \* bound on the lines the user types
  MaxStops,    \* bound on the times the server stops
  MaxTexts     \* bound on the texts of other clients that reach this one

ASSUME ClientAssumption ==
  /\ Labs \subseteq {3, 4, 5}
  /\ MaxSockets \in Nat
  /\ MaxLines \in Nat /\ MaxStops \in Nat /\ MaxTexts \in Nat

Sockets == 1 .. MaxSockets

VARIABLES
  lab,          \* the program that runs
  main,         \* where the main thread is
  reader,       \* where msg_reader is
  step,         \* connectWithRetry(): index into Dial, 0 in its exception handler
  fd,           \* Client::_socket_fd, 0 for -1
  readFd,       \* the descriptor the running recv() was called with
  conn,         \* conn[s]: socket s and the connection it belongs to
  running,      \* is_running
  reconnecting, \* is_reconnecting
  process,      \* "killed" by SIGPIPE or "aborted" by an uncaught exception
  server,       \* whether the server accepts connections
  lines, stops, texts,  \* what the bounds count
  repairs       \* history: how often the reader has started to reconnect

threads == <<main, reader, step>>
flags == <<running, reconnecting, process>>
world == <<server, stops, texts>>
vars == <<lab, threads, fd, readFd, conn, flags, world, lines, repairs>>

\* connectWithRetry(), one element per call that can fail or block.  In lab 3
\* sendHello() asks for the nickname, in labs 4 and 5 enterNickname() before it does.
Lab3Dial == <<"connect", "hello", "welcome">>
Lab4Dial == <<"connect", "hello", "welcome", "auth", "reply">>
Lab5Dial == Lab4Dial
Dial == CASE lab = 3 -> Lab3Dial [] lab = 4 -> Lab4Dial [] lab = 5 -> Lab5Dial

Dialing == main = "dial" \/ reader = "dial"
Stage == IF Dialing /\ step > 0 THEN Dial[step] ELSE "none"

\* A socket: what the client knows of it, the state of the server's handler for it,
\* whether that handler has accepted the client's MSG_AUTH, and the messages not yet
\* read.
Free == [state |-> "free", handler |-> "none", authenticated |-> FALSE, unread |-> <<>>]
Raw == [Free EXCEPT !.state = "open"]
Accepted == [Raw EXCEPT !.handler = "hello"]
InUse == {s \in Sockets : conn[s].state # "free"}
Served(s) == s \in Sockets /\ conn[s].handler \in {"hello", "auth", "serving"}
Ended(s) == ~Served(s) /\ conn[s].unread = <<>>

Init ==
  /\ lab \in Labs
  /\ main = "dial" /\ reader = "off" /\ step = 1
  /\ fd = 0 /\ readFd = 0
  /\ conn = [s \in Sockets |-> Free]
  /\ running = TRUE /\ reconnecting = FALSE /\ process = "alive"
  /\ server = "up" /\ lines = 0 /\ stops = 0 /\ texts = 0 /\ repairs = 0

Alive == process = "alive"

------------------------------------------------------------------------------
(* Writing *)

\* The server's handler reads message m: recvHello() takes any type, auth() only
\* MSG_AUTH (an empty nickname is refused), and afterwards a second HELLO or AUTH
\* ends the session.  registerNickname() comes after auth() has written its answer:
\* whether the registry has the nickname yet is nothing the client can know.
Answers(k, m) ==
  CASE k.handler = "hello" ->
         {[k EXCEPT !.handler = IF lab = 3 THEN "serving" ELSE "auth", !.unread = Append(@, "WELCOME")]}
    [] k.handler = "auth" /\ m = "AUTH" ->
         {[k EXCEPT !.handler = "serving", !.authenticated = TRUE, !.unread = Append(@, "AUTH")],
          [k EXCEPT !.handler = "gone", !.unread = Append(@, "ERROR")]}
    [] k.handler = "auth" /\ m # "AUTH" -> {[k EXCEPT !.handler = "gone"]}
    [] k.handler = "serving" /\ m \in {"HELLO", "AUTH"} -> {[k EXCEPT !.handler = "gone"]}
    [] OTHER -> {k}

\* ::send() of message m.  The first write to a peer that has gone is accepted and
\* draws a reset, or throws; the next one throws or raises SIGPIPE, and so does one
\* to a socket whose connect() has failed.
Sent(m) ==
  /\ fd # 0
  /\ conn[fd].handler # "none" /\ conn[fd].state # "reset"
  /\ \E k \in Answers(conn[fd], m) :
       conn' = [conn EXCEPT ![fd] = IF Served(fd) THEN k ELSE [@ EXCEPT !.state = "reset"]]
  /\ UNCHANGED process
SendThrows ==
  /\ ~Served(fd)
  /\ UNCHANGED <<conn, process>>
SendKills ==
  /\ fd # 0 /\ (conn[fd].state = "reset" \/ conn[fd].handler = "none")
  /\ process' = "killed"
  /\ UNCHANGED conn

------------------------------------------------------------------------------
(* connectWithRetry(), by the main thread first and by the reader later *)

\* It returns: main() starts the reader, the reader goes on.
Returned ==
  /\ main' = IF main = "dial" THEN "prompt" ELSE main
  /\ reader' = IF main = "dial" THEN "loop" ELSE "clear"
  /\ step' = 1
Passed == IF step = Len(Dial) THEN Returned ELSE step' = step + 1 /\ UNCHANGED <<main, reader>>
Failed == step' = 0 /\ UNCHANGED <<main, reader>>

\* Variants of the operations below, each with one plausible slip.
Retry_WithoutReset ==
  /\ Alive /\ Dialing /\ step = 0
  /\ step' = 1
  /\ UNCHANGED <<lab, main, reader, fd, readFd, conn, flags, world, lines, repairs>>
DialRecv_AnyReply ==
  /\ Alive /\ Stage \in {"welcome", "reply"} /\ readFd # 0
  /\ IF conn[readFd].unread # <<>> THEN Passed ELSE Ended(readFd) /\ Failed
  /\ conn' = [conn EXCEPT ![readFd].unread = IF @ = <<>> THEN @ ELSE Tail(@)]
  /\ UNCHANGED <<lab, fd, readFd, flags, world, lines, repairs>>
Clear_Forgotten ==
  /\ Alive /\ reader = "clear"
  /\ reader' = "notify"
  /\ UNCHANGED <<lab, main, step, fd, readFd, conn, flags, world, lines, repairs>>
Notify_Forgotten ==
  /\ Alive /\ reader = "notify"
  /\ reader' = "loop"
  /\ UNCHANGED <<lab, main, step, fd, readFd, conn, flags, world, lines, repairs>>
Quit_WithoutShutdown ==
  /\ Alive /\ main = "prompt"
  /\ running' = FALSE /\ fd' = 0 /\ main' = "join"
  /\ UNCHANGED <<lab, reader, step, readFd, conn, reconnecting, process, world, lines, repairs>>

\* Client::connect(): _socket_fd is overwritten, whatever it was.
Connect ==
  /\ Alive /\ Stage = "connect"
  /\ \E s \in Sockets \ InUse :
       /\ \A r \in Sockets \ InUse : s <= r
       /\ fd' = s
       /\ conn' = [conn EXCEPT ![s] = IF server = "up" THEN Accepted ELSE Raw]
  /\ IF server = "up" THEN Passed ELSE Failed
  /\ UNCHANGED <<lab, readFd, flags, world, lines, repairs>>

\* enterNickname() takes the next line typed, whichever thread asks for it, and
\* sendHello() sends it; recvWelcome() then reads the socket.
Hello ==
  /\ Alive /\ Stage = "hello" /\ lines < MaxLines
  /\ lines' = lines + 1
  /\ \/ Sent("HELLO") /\ Passed
     \/ SendThrows /\ Failed
     \/ SendKills /\ UNCHANGED threads
  /\ readFd' = fd
  /\ UNCHANGED <<lab, fd, running, reconnecting, world, repairs>>

\* Client::auth() sends MSG_AUTH, then reads the socket.
Auth ==
  /\ Alive /\ Stage = "auth"
  /\ \/ Sent("AUTH") /\ Passed
     \/ SendThrows /\ Failed
     \/ SendKills /\ UNCHANGED threads
  /\ readFd' = fd
  /\ UNCHANGED <<lab, fd, running, reconnecting, world, lines, repairs>>

\* recvWelcome() takes a message of any type, auth() nothing but MSG_AUTH.
DialRecv ==
  /\ Alive /\ Stage \in {"welcome", "reply"} /\ readFd # 0
  /\ IF conn[readFd].unread # <<>>
       THEN IF Stage = "welcome" \/ Head(conn[readFd].unread) = "AUTH" THEN Passed ELSE Failed
       ELSE Ended(readFd) /\ Failed
  /\ conn' = [conn EXCEPT ![readFd].unread = IF @ = <<>> THEN @ ELSE Tail(@)]
  /\ UNCHANGED <<lab, fd, readFd, flags, world, lines, repairs>>

\* The exception handler: two seconds later, reset() closes the socket.
Retry ==
  /\ Alive /\ Dialing /\ step = 0
  /\ conn' = [s \in Sockets |-> IF s = fd THEN Free ELSE conn[s]]
  /\ fd' = 0 /\ step' = 1
  /\ UNCHANGED <<lab, main, reader, readFd, flags, world, lines, repairs>>

------------------------------------------------------------------------------
(* msg_reader *)

ReaderLoop ==
  /\ Alive /\ reader = "loop"
  /\ reader' = IF running THEN "call" ELSE "done"
  /\ UNCHANGED <<lab, main, step, fd, readFd, conn, flags, world, lines, repairs>>

\* recv() of descriptor -1 throws, and nothing in the thread catches.
Call ==
  /\ Alive /\ reader = "call"
  /\ process' = IF fd = 0 THEN "aborted" ELSE process
  /\ reader' = "recv" /\ readFd' = fd
  /\ UNCHANGED <<lab, main, step, fd, conn, running, reconnecting, world, lines, repairs>>

\* A message is shown, whatever its type.  In lab 5 a text that is "[OFFLINE]" and
\* nothing more makes printOfflineMessage() throw, and nothing in the thread catches.
Show ==
  /\ Alive /\ reader = "recv" /\ conn[readFd].unread # <<>>
  /\ process' \in {"alive"} \cup IF lab = 5 /\ Head(conn[readFd].unread) = "TEXT" THEN {"aborted"} ELSE {}
  /\ conn' = [conn EXCEPT ![readFd].unread = Tail(@)]
  /\ reader' = "loop"
  /\ UNCHANGED <<lab, main, step, fd, readFd, running, reconnecting, world, lines, repairs>>
Lose ==
  /\ Alive /\ reader = "recv" /\ Ended(readFd)
  /\ reader' = "lost"
  /\ UNCHANGED <<lab, main, step, fd, readFd, conn, flags, world, lines, repairs>>
TestRunning ==
  /\ Alive /\ reader = "lost"
  /\ reader' = IF running THEN "claim" ELSE "done"
  /\ UNCHANGED <<lab, main, step, fd, readFd, conn, flags, world, lines, repairs>>
Claim ==
  /\ Alive /\ reader = "claim"
  /\ reconnecting' = TRUE
  /\ IF reconnecting THEN reader' = "loop" /\ UNCHANGED repairs
                     ELSE reader' = "dial" /\ repairs' = repairs + 1
  /\ UNCHANGED <<lab, main, step, fd, readFd, conn, running, process, world, lines>>

\* is_reconnecting = false, and then notify_all(), both without reconnect_mtx.
Clear ==
  /\ Alive /\ reader = "clear"
  /\ reconnecting' = FALSE /\ reader' = "notify"
  /\ UNCHANGED <<lab, main, step, fd, readFd, conn, running, process, world, lines, repairs>>
Notify ==
  /\ Alive /\ reader = "notify"
  /\ main' = IF main = "asleep" THEN "test" ELSE main
  /\ reader' = "loop"
  /\ UNCHANGED <<lab, step, fd, readFd, conn, flags, world, lines, repairs>>

------------------------------------------------------------------------------
(* main() *)

\* A line of text: the main thread tests the predicate of reconnect_cv, sleeps
\* while it is false, and sends.  "doze" is between the test and falling asleep.
TypeText ==
  /\ Alive /\ main = "prompt" /\ lines < MaxLines
  /\ lines' = lines + 1 /\ main' = "test"
  /\ UNCHANGED <<lab, reader, step, fd, readFd, conn, flags, world, repairs>>
Test ==
  /\ Alive /\ main = "test"
  /\ main' = IF reconnecting THEN "doze" ELSE "write"
  /\ UNCHANGED <<lab, reader, step, fd, readFd, conn, flags, world, lines, repairs>>
FallAsleep ==
  /\ Alive /\ main = "doze"
  /\ main' = "asleep"
  /\ UNCHANGED <<lab, reader, step, fd, readFd, conn, flags, world, lines, repairs>>
SpuriousWake ==
  /\ Alive /\ main = "asleep"
  /\ main' = "test"
  /\ UNCHANGED <<lab, reader, step, fd, readFd, conn, flags, world, lines, repairs>>

\* An exception of send() ends the loop: the main thread joins the reader.
MainSends(m) ==
  /\ \/ Sent(m) /\ main' = "prompt"
     \/ SendThrows /\ main' = "join"
     \/ SendKills /\ UNCHANGED main
  /\ UNCHANGED <<lab, reader, step, fd, readFd, running, reconnecting, world, repairs>>
WriteText == Alive /\ main = "write" /\ MainSends("TEXT") /\ UNCHANGED lines

\* The commands of each lab that send a message do not wait for the reader.
Lab3Command == lab = 3 /\ MainSends("PING")
Lab4Command == lab = 4 /\ \E m \in {"PING", "PRIVATE"} : MainSends(m)
Lab5Command == lab = 5 /\ \E m \in {"PING", "PRIVATE", "LIST", "HISTORY"} : MainSends(m)
TypeCommand ==
  /\ Alive /\ main = "prompt" /\ lines < MaxLines
  /\ lines' = lines + 1
  /\ Lab3Command \/ Lab4Command \/ Lab5Command

\* /quit: is_running, then shutdown(SHUT_WR), which sets _socket_fd to -1.
Quit ==
  /\ Alive /\ main = "prompt"
  /\ running' = FALSE /\ main' = "join" /\ fd' = 0
  /\ conn' = [s \in Sockets |-> IF s = fd THEN [conn[s] EXCEPT !.state = "shut"] ELSE conn[s]]
  /\ UNCHANGED <<lab, reader, step, readFd, reconnecting, process, world, lines, repairs>>
Join ==
  /\ Alive /\ main = "join" /\ reader = "done"
  /\ main' = "done"
  /\ UNCHANGED <<lab, reader, step, fd, readFd, conn, flags, world, lines, repairs>>

------------------------------------------------------------------------------
(* The server *)

\* A text of another client is broadcast to every session in the registry.
TextArrives(s) ==
  /\ Served(s) /\ texts < MaxTexts
  /\ conn' = [conn EXCEPT ![s].unread = Append(@, "TEXT")]
  /\ texts' = texts + 1
  /\ UNCHANGED <<lab, threads, fd, readFd, flags, server, stops, lines, repairs>>

\* The handler reads the end of the stream and the session is closed.
SeesShutdown(s) ==
  /\ Served(s) /\ conn[s].state = "shut"
  /\ conn' = [conn EXCEPT ![s].handler = "gone"]
  /\ UNCHANGED <<lab, threads, fd, readFd, flags, world, lines, repairs>>

\* The server ends, by a FIN or a reset.  A reset discards what is unread, and the
\* recvMsg() of labs 3 and 4 then returns a message of zeros before the end.
ServerStops ==
  /\ server = "up" /\ stops < MaxStops
  /\ server' = "down" /\ stops' = stops + 1
  /\ \E reset \in BOOLEAN :
       conn' = [s \in Sockets |->
                  IF ~Served(s) THEN conn[s]
                  ELSE [conn[s] EXCEPT !.handler = "gone",
                                       !.unread = IF ~reset THEN @ ELSE IF lab = 5 THEN <<>> ELSE <<"ZERO">>]]
  /\ UNCHANGED <<lab, threads, fd, readFd, flags, texts, lines, repairs>>
ServerStarts ==
  /\ server = "down"
  /\ server' = "up"
  /\ UNCHANGED <<lab, threads, fd, readFd, conn, flags, stops, texts, lines, repairs>>

------------------------------------------------------------------------------
Redial == Connect \/ Auth \/ DialRecv \/ Retry
ReaderStep ==
  \/ ReaderLoop \/ Call \/ Show \/ Lose
  \/ TestRunning \/ Claim \/ Clear \/ Notify
MainStep == Test \/ FallAsleep \/ WriteText \/ Join
User == Hello \/ TypeText \/ TypeCommand \/ Quit
Server ==
  \/ ServerStops \/ ServerStarts
  \/ \E s \in Sockets : TextArrives(s) \/ SeesShutdown(s)
Next == Redial \/ ReaderStep \/ MainStep \/ User \/ SpuriousWake \/ Server

SafeSpec == Init /\ [][Next]_vars

\* Threads that can run do; a server that is down is started again, and a handler
\* reads the end of its stream.  The user need not type.
Spec ==
  /\ SafeSpec
  /\ WF_vars(Redial) /\ WF_vars(ReaderStep) /\ WF_vars(MainStep)
  /\ WF_vars(ServerStarts) /\ \A s \in Sockets : WF_vars(SeesShutdown(s))

------------------------------------------------------------------------------
(* Properties *)

\* In labs 4 and 5 connectWithRetry() returns only on a connection whose handler has
\* accepted the MSG_AUTH sent on it, although a broadcast or a line of the main thread
\* may have come in the middle of the handshake.  The handler registers the nickname
\* after it has answered, perhaps after the return.
ReadyMeansAuthenticated ==
  lab \in {4, 5} /\ ~Dialing /\ fd # 0 => conn[fd].authenticated

\* The sockets in use: one, one more for each reconnection, which leaves the lost
\* socket open, and one that /quit has shut down while the reader reconnects.
BoundedDescriptors ==
  Cardinality(InUse) <= 1 + repairs + (IF running THEN 0 ELSE 1)

\* A main thread that falls asleep while the reader reconnects, at whatever step and
\* however many attempts fail, is woken, or the reader asks the user for a nickname,
\* whose answer nothing can promise.  After that answer it holds again.
SleeperIsWoken ==
  (Alive /\ main = "asleep" /\ reconnecting /\ Stage # "hello")
    ~> (main # "asleep" \/ ~Alive \/ Stage = "hello")

\* A connection lost is made again as far as the program can go by itself: to the
\* request for a nickname, on a socket that is connected.
LossIsRepaired ==
  (Alive /\ running /\ reader = "lost")
    ~> (~Alive \/ ~running \/ (Stage = "hello" /\ fd # 0))

\* /quit ends the program when the reader waits for messages at that time.
QuitEnds == (~running /\ reader \in {"loop", "call", "recv"}) ~> (main = "done" \/ ~Alive)

==============================================================================
