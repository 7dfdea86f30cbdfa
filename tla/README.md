# Formal model of NetworksLabs

NetworksLabs is a series of six C++ network programs that grow into one: a UDP echo (lab 1), a TCP
echo with fixed-size messages (lab 2), a multi-client server on a thread pool with clients that
reconnect (lab 3), authentication, nicknames and private messages (lab 4), a history file and
store-and-forward of private messages (lab 5), and acknowledgements with time-outs and retries, a
network emulator and connection diagnostics (lab 6). Each lab starts from a copy of the previous
one, so lab 6 (`src/lab6/src`) holds the most complete program, but its threads, its framing and its
reconnection differ from those of the labs before. This project models lab 6 in detail, and of the
earlier labs their servers, their clients and their wire formats.

## 1. Inventory

### Components, their state and their operations

| component | state | operations | what makes it correct |
|---|---|---|---|
| `ThreadSafeQueue<T>` (`thread_pool/thread_safe_queue.hpp`, the same in labs 3-6) | `queue_`, `stop_`, `mtx_`, `cv_` | `enqueue` (throws after `stop`), `pop` (blocks; `nullopt` once stopped and drained), `stop`, destructor | FIFO; no value lost or handed over twice; no wake-up lost although every notification is sent after the unlock; values accepted before `stop()` are still handed over; `stop()` releases every consumer |
| `ThreadPool` (`thread_pool/thread_pool.{hpp,cpp}`, labs 3-6) | `threads_`, `tasks_`, `is_running_` | constructor, `enqueueConnection`, `shutdown`, `joinAll`, destructor | every accepted task runs exactly once; the destructor returns only when all have; one handler that hangs costs one worker |
| `Messenger` (lab 6, `messaging/messaging.{hpp,cpp}`) | `_pending_acks` under `_ack_mtx`/`_ack_cv`, the static `Id_Count` | `sendMsg` (up to `MAX_ACK_RETRIES` writes, each followed by a wait of `ACK_TIMEOUT_MS`), `waitACK`, `notifyACK`, `rawSend`, `rawRecv` | `sendMsg` returns normally only for a processed message; messages are handled in order |
| `ClientSession` (lab 6, `server/client_session.{hpp,cpp}`) | `_conn_fd`, `nickname`, `_inbox`, `_ack_reader`, its own `_mtx` | handshake (`recvHello`, `sendWelcome`, `auth`), `startAckReader`, `recv`, `send`, `rawSend`, `sendAckFor`, `sendPong`, `close`, destructor | a wait for an ACK ends; the reader thread ends; no use after destruction |
| `SessionRegistry` (lab 6, `server/session_registry.{hpp,cpp}`) | `_sessions`, `_nickname_to_fd`, `_offline_queue`, all under `_mtx` | `add`, `remove`, `registerNickname`, `broadcast`, `sendPrivate`, `deliverOffline`, `getUserList`; `appendHistory` and `markDelivered`, which run under the `_mtx` of their callers; `getHistory`, which takes no lock | entries lead to open sessions and to the right client; nothing acknowledged is lost; the lock is released |
| history file (labs 5 and 6, `chat_history.jsonl`) | JSON lines, one per message, with `delivered` | append, rewrite, read | no record lost, doubled or torn; an answer is a part of the history |
| server `main` (lab 6, `server/main.cpp`, `server/server.cpp`) | the pool, the registry, the emulator | accept loop; one handler per connection, a branch per message type | every session is removed however it ends |
| `NetEmulator` (lab 6, `net_emulator/`) | its configuration and random generator | `apply`: delay, drop or corrupt a message | - |
| client of lab 6 (`client/main.cpp`, `client/client.cpp`) | `_socket_fd`, `_inbox`, `_ack_reader`, `is_running`, `is_reconnecting`, `_ping_sent`, `_ping_rtt`, `stats`, the file `net_diag_<nickname>.json` | three threads: commands, reading loop with reconnection, ack reader; `/ping N`, `/netdiag`, `/quit` | what ends the program by an exception is known; the statistics describe the pings sent |
| clients of labs 3-5 (`client/main.cpp`, `client/client.cpp`) | `_socket_fd`, `is_running`, `is_reconnecting`, `reconnect_cv` | two threads: commands, reading loop with `connectWithRetry` | a lost connection is made again, with the whole handshake; a sleeping main thread is woken; `/quit` ends the program |
| servers of labs 3-5 (`server/*.cpp`) | `_sessions`, from lab 4 `_nickname_to_fd`, in lab 5 `_offline_queue` | accept loop, handshake, a branch per message type, clean-up | a client that leaves is removed; queued messages are handed over once and in order |
| wire formats of labs 1-5 (`messaging.cpp`) | what has been sent and not yet read | `sendMsg`, `recvMsg`, with partial `send()` and `recv()` | messages arrive whole, once and in order |
| programs of labs 1 and 2 | one request at a time | echo; HELLO/WELCOME, text, `/ping`, `/quit` | the answer the client waits for comes and is the one to its request |
| JSON conversion, logger, time formatting, `nlohmann/json` | - | pure conversion and output | not modelled |

### How they interact

**Lab 6.** The accept loop makes a `ClientSession` and enqueues its handler in the pool. The worker that takes
it runs the whole session: `registry.add`, the handshake, `registerNickname`, the start of the
session's ack reader thread, `deliverOffline`, then the loop `recv` - `emulator.apply` - branch.
The ack reader is the only one to read the socket from then on: it hands ACKs to the Messenger and
everything else to `_inbox`, where the worker waits. All workers share the registry. `broadcast`,
`sendPrivate` and `deliverOffline` call into other sessions *while they hold the registry's lock*,
and a session's own lock is held by `send()` for as long as it waits for an ACK - up to three
time-outs. The client has the same pair of threads (ack reader and message reader) besides the
main thread that types and sends.

**Labs 3 to 5.** There are no ACKs: a handler reads its socket itself and writes to others under their mutex.
No critical section waits for an answer, but a `::send()` inside one blocks while its client stays connected
and does not read, and the registry's mutex is held until it goes on. Ten workers (`THREAD_COUNT`) serve the
connections, the eleventh waits in the pool's queue. The client has a main thread and `msg_reader`, which also
reconnects; both use the descriptor and stdin without a lock.

**Labs 1 and 2.** One client and one server, each a single thread.

### What is hard

* Wake-ups after unlocking, the end of the queue, spurious wake-ups.
* ACKs that arrive late, for a message that has been sent again or given up.
* Two levels of locks and a wait under both; exceptions thrown while the registry is locked.
* Raw pointers in the registry to sessions that live on a worker's stack, keyed by descriptors
  that the kernel reuses as soon as they are closed.
* Clients that leave in the middle of anything: end of stream, reset, SIGPIPE.
* Threads that wait on a queue nobody will fill or stop.
* A client that reconnects while its main thread writes, quits or asks for a line of stdin.
* A file rewritten in place, read without a lock, and a process that may end in between.
* Messages cut into pieces by `send()` and `recv()`.
* PONGs that arrive while the report of the pings is made.
* Files that cannot be opened, lines that are no message, texts longer than the payload.

`PROJECT.json` lists each hazard at its line, with the properties that guard against it.

## 2. Modules

| module | models | code |
|---|---|---|
| `FifoChannel` | abstract: a closable FIFO channel | the promise of `ThreadSafeQueue` |
| `ThreadSafeQueue` | the queue, its waiting consumers and its notifications | `thread_safe_queue.hpp` |
| `ThreadPool` | the pool: it extends `ThreadSafeQueue` by the owner and the workers | `thread_pool.{hpp,cpp}` |
| `AtLeastOnce` | abstract: a transport that processes each message at least once if it says so | the promise of `sendMsg` |
| `AckedDelivery` | both ends of one connection: sendMsg and its retries, both ack readers, the emulator, the worker's loop | lab 6 `messaging.cpp`, `client_session.cpp`, `client.cpp`, `main.cpp` |
| `ChatServer` | accept loop, pool, every handler, the registry, the ack readers, clients as environment | lab 6 `server/*.cpp` |
| `MCChatServer` | `ChatServer` with symmetry sets | - |
| `HistoryFile` | appending to, rewriting and reading the history, with ends of the process | `session_registry.cpp` of labs 5 and 6 |
| `InboxClient` | the three threads of the client, its reconnection and its ping reports, the server as environment | lab 6 `client/*.cpp` |
| `ReconnectingClient` | the two threads of the clients and their reconnection, the server as environment | labs 3-5 `client/*.cpp` |
| `EarlierServers` | handlers and registry, clients as environment | labs 3-5 `server/*.cpp` |
| `Wire` | messages in parts between one client and its server; the conversation of labs 1 and 2 | labs 1-5 `messaging.cpp`, labs 1-2 whole |
| `ThreadPoolProof` (queue and pool), `MessagingProof` (`AckedDelivery` and `Wire`), `ChatServerProof`, `HistoryFileProof`, `InboxClientProof`, `ReconnectingClientProof`, `EarlierServersProof` | the theorems about these modules, with their proofs | - |
| `SequenceLemmas` | what appending to, removing from and joining queues does to their elements; induction, and that a recursion along a sequence defines a function; for the proofs | - |

Composition: `ThreadPool` extends `ThreadSafeQueue`, its steps using the queue's; `ThreadSafeQueue` and
`AckedDelivery` name the mapping under which they implement `FifoChannel` and `AtLeastOnce`. `ChatServer` and
`EarlierServers` take the pool as what `ThreadPool` shows it to be (a worker runs a connection once),
`ChatServer` and `InboxClient` take a send with its ACK as what `AckedDelivery` shows (it ends with an ACK or
with an exception), and all modules but `Wire` take messages as whole.

A variant of an operation with one plausible slip, named `Operation_Slip`, stands beside the operations
it is a variant of; no specification uses it. It shows that a property notices the slip.

### ThreadSafeQueue

`queue_` and `stop_` are the code's. `mtx_` makes each critical section one step, so `PopTake`,
`PopNull` and `PopSleep` are the three outcomes of `pop()` once it has the lock, and `popper[c]`
says whether consumer `c` is outside, about to (re)evaluate the predicate, asleep on `cv_`, or has
got `nullopt`. `caller[t]` holds the notification that thread `t` owes: `Enqueue`/`Stop` unlock first,
`NotifyOne`/`NotifyAll` follow as steps of their own. `SpuriousWake` wakes anyone at any time.
`accepted` and `taken` are history variables. `EnqueueThrows` is `enqueue()` after `stop()`.

### ThreadPool

The module extends that of the queue: `Items` are the tasks, the only caller that calls is the thread that
owns the pool (`owner`), and the consumers are the workers. `PoolInit`, `PoolNext` and `PoolSpec` are the
pool's; `Init` and `Next` remain those of the queue alone, and `PoolUsesQueue` (section 4) says that they
agree. The constructor starts workers one by one while those started already run; the destructor stops the
queue and joins in order. `stuck`, chosen once in the initial state, are the tasks that never return: in this
program, the handler of a client that leaves while the handler waits.

### AckedDelivery

`toServer` and `toClient` are the two directions of a TCP connection that stays up. `Send`, `Resend`,
`GiveUp` and `AckArrives` are the client's `sendMsg()`; a time-out may expire at any time, since
nothing bounds the emulator's delay, the handler's work or the network by `ACK_TIMEOUT_MS`. The ids
of the client's messages are 1, 2, ... (`Id_Count` in the client is incremented by its main thread
only, apart from PONG and handshake messages, which carry no ACK). `ClientReads` and `ServerReads`
are the two ack readers, `Drop` and `Handle` the worker with its emulator, `SendAck` the ACK sent
*after* processing. `TEXT` stands for every message acknowledged by the server. The answers to `LIST` and
`HISTORY` are sent by the server's own `sendMsg()`, whose ACK the client never sends
(`ReplyTimesOut`). The emulator's corruption changes a converted copy that the handlers do not use,
so it is not modelled. `/ping` bypasses `sendMsg` and is part of `InboxClient`.

### ChatServer

`pc[c]` is where the handler of connection `c` is; each value is a point where another thread can
interfere: before a blocking read, before `registry._mtx` is taken, inside a wait for an ACK.
`new` and `queued` come before a worker takes the connection, `cleanup` is the exception handler
or the break out of the loop before `registry.remove`, `destroy` and `joining` are `~ClientSession()`.
A step is atomic when nothing another thread can see happens in between: a critical section of
`registry._mtx` without a wait is one step guarded by `RegistryFree`; one with a wait keeps
`lockedBy = c` over several (`deliver`, `sending`). A session's own `_mtx` is held exactly in
`deliver` and `reply` (`Waiting`), so writing to that session waits for the end of that state.

* `sessions`, `nickToFd`, `offline` are the registry's maps; a pointer is the connection it belongs
  to, a missing key `NoConn`/`NoFd`. A destroyed session keeps its identity, so a dangling pointer is
  visible as one.
* `fd[c]` is `_conn_fd`; `Accept` gives out the lowest free descriptor, as POSIX requires.
* `server` is "down" once SIGPIPE or a write through freed memory has ended the process; nothing
  happens any more.
* `Outcomes` is what a write can do: succeed, throw, or end the process. A write to a client that has
  left may be accepted by the kernel or fail; after a first one has drawn a reset (`probed`), it may
  raise SIGPIPE, which the program neither blocks nor ignores. A write through a dangling pointer
  does anything: here it throws or ends the process. `DeadSend` selects the outcomes of a run.
* `inbox[c]` is `_inbox` together with what the socket holds in front of it.
* `ClientsAck` says whether clients acknowledge what `session.send()` sends. The client in the
  repository never does, so that its waits end by time-out, which the model allows in both cases;
  a client that acknowledges takes the other path through the same code of the server.
* `history` is the set of ids `appendHistory` has recorded. It returns without a record when the file cannot
  be opened, and its callers go on as if it had one: `AppendHistory` does either, and `unopened` (a history
  variable, as `out` and `acked` are) collects the ids of the second kind.
* Clients may send `MSG_AUTH` with an empty nickname, whatever nickname their HELLO had (`AuthRefuses`, in
  runs with `EmptyAuth`), and lines that are empty or no JSON, which end the ack reader of a client that stays
  connected (`ReaderEnds`, in runs with `Malformed`) and make `auth()` throw (`AuthFails`).
* `stringToMsg()` copies a text of any length into the 256 bytes of the payload: a long list or history, or a
  queued message with `[OFFLINE] ` before it. `OverflowPayload` is the end of the process that may come of it;
  that nothing comes of it is the ordinary step.
* `::send()` itself is taken not to block: a client that stays connected and stops reading until its socket is
  full would hold the registry, or its session, for as long as it likes. `EarlierServers` has this case.
* `markDelivered` changes nothing this module holds: a message queued offline was never recorded.
  The file itself is the subject of `HistoryFile`.
* `recv()` returning `nullopt` needs `_inbox.stop()`, which only `close()` in the handler itself calls,
  after which it does not call `recv()`: the branch cannot be reached.
* A message is known by its place in the order of sending. The program's ids coincide for different
  clients, as every process counts from 0, and nothing in the registry tells messages apart by them.

### HistoryFile

The file is a sequence of records and line ends; a record is its number. `appendHistory()` opens the file,
writes and closes it: a record that fits the stream's buffer reaches the file with its line end
(`AppendShort`), a long one before it (`AppendLong`, then `Newline`). `deliverOffline()` is `Deliver`, `Sent`
or `SendThrows`, and `markDelivered()`'s `ReadLines`, `Truncate`, `WriteBack` (a buffer at a time) and `Pop`,
all under `mtx`, which stands for `SessionRegistry::_mtx`. Each time the file is opened this may fail:
`AppendFails` (the message goes unrecorded), `MarkFails` (the file stays as it is, the message is popped all
the same), `NoHistory` (an empty answer); what is written to a file that is open is taken to arrive. Readers
take no lock: `ReadSome` fills a buffer from where the last one ended, `Answer` parses what has been read and
keeps the last `n`. `Parsed` goes through the file line by line, as `getHistory()` does, and keeps the lines
that hold exactly one record, since two records without a line end between them do not parse and are skipped.
`Crash` leaves only the file. Every record is appended with `delivered = true` and `is_offline = false`, which
is what `markDelivered()` sets: a rewrite changes no record, so a record needs no fields here.

### InboxClient

`main`, `reader` and `ack` are the three threads, `stage` the place in `connectWithRetry()`, which the main
thread runs first and `msg_reader` later. `conn[s]` is a socket together with the server's handler for it
(environment): what it has answered and the client has not read, the ACK that is due, PINGs it has not
answered. `StartAckReader` assigns to `_ack_reader`, which ends the process if a thread still runs there;
`StopInbox` and `JoinAndClose` are `reset()`. `AckCheck`, `AckCall`, `AckTakes`, `AckEnds` are the ack reader;
between the test of `_socket_fd` and `recv()` another thread may change it. An exception that no thread
catches makes `process` "aborted", SIGPIPE "killed". Besides texts the server may send lines that are none: an
empty one ends the ack reader, one that is no JSON makes it throw (`AckTakes`), as does an error of `recv()`
that is no reset (`AckEnds`). A text that is exactly `[OFFLINE]` makes `printOfflineMessage()` take a
`substr(10)` of nine characters, and `msg_reader` throws (`ReaderPop`). `thrown` remembers that one of these
has happened. `Join` is the end of `main()`: `~Client()` destroys `_ack_reader`, which calls `std::terminate`
unless `reset()` has joined it. `Send` abstracts the retries of `AckedDelivery`: it ends with the ACK, or
`GivesUp`. `RegisterPing`, `SendPing`, `BeginPrint`, `PrintNext`, `Save` are `/ping` and `printPingResults()`,
one step per element, since `getRtt()` takes the lock for each; the three seconds of waiting may end at any
time. An average is represented by its sum, the number of terms being determined by the packets.

### ReconnectingClient

`lab` chooses the program: it decides what `Dial`, the steps of `connectWithRetry()`, are, and which commands
there are. `step` is the place in it, 0 its exception handler, whose `reset()` closes the socket. `reader`
walks through `msg_reader`: the call of `recv()` with the descriptor of that moment (`readFd`), the test of
`is_running`, the exchange of `is_reconnecting` (`Claim`), the reconnection, `Clear` and `Notify`. The main
thread falls asleep in two steps (`Test`, `FallAsleep`), so that the notification, which is sent without the
mutex, may come in between. `Sent`, `SendThrows` and `SendKills` are the outcomes of a write. The server
(environment) answers what it reads at once and may broadcast to a session whose handshake is not over. It
accepts `MSG_AUTH` (`authenticated`) when it writes its answer; the nickname is registered afterwards, which
the client cannot observe, so the model has no step for it. In lab 5 a text that is exactly `[OFFLINE]` ends
the program (`Show`). A reset in labs 3 and 4 yields a message of zeros first, because `recvMsg()` adds -1 to
the length.

### EarlierServers

`lab` chooses the program again; `Lab3Branch`, `Lab4Branch`, `Lab5Branch` are the loops of the handlers. A
critical section of the registry waits for no answer and is one step, unless a write in it blocks: a client
may be "deaf", connected with its buffers full, and then the handler stays in `sending` or `delivering` with
the mutex (`Blocks`, `RegistryFree`) until the client reads again or leaves (`GoesOn`, `DeliverOffline`).
`tasks` is the pool's queue, from which one of `THREAD_COUNT` workers takes a connection (`AddSession`).
`Conns` are names of sessions, used again once a session is destroyed and nothing refers to it; `early`
collects the sessions that were closed or destroyed without or before `remove()` (BYE, an unexpected type, a
`MSG_AUTH` without a nickname). `Outcomes` is as in `ChatServer`. `DeliverOffline` writes the first `k` of the
queued messages and then all are written or the next one fails; what is not written stays queued. `Readable`,
`AtEnd` and `Zeros` are what `recvMsg()` returns while the client is connected, at the end of the stream, and
after a reset. In lab 5 a connected client may also send an empty line, which `recvMsg()` takes for the end of
the stream, or one that is no JSON, which throws (`Malformed`); the structs of labs 3 and 4 are taken to be
well-formed. A private message without a receiver is queued for the empty nickname in lab 5. `OverflowPayload`
is as in `ChatServer`. Lab 4's `sendPrivate()` to an unknown nickname dereferences the iterator it has found
to be `end()`: the process ends (`Lab4Private`).

### Wire

One client, its server and, in labs 3 to 5, other handlers that write to the same client. A direction
holds the parts on the way, those the sender has not written yet, and what `recvMsg()` has read. A struct
message of labs 2 to 4 has three parts, the third being the bytes after the first 1024, where
`recvMsg()` stops asking for more; a line of lab 5 ends with its third part; a datagram of lab 1 is one
part and may be lost. `Written` lets `send()` take any number of parts, `RecvStruct` lets `recv()` return
any number. Pointer arithmetic by structs puts a second read beside the message: `lost`. The programs of labs
1 and 2 are complete; those of labs 3 to 5 only send and read here.

## 3. What is checked

| run | instance | shows |
|---|---|---|
| `queue` | 2 callers, 3 consumers, up to 3 values | FIFO, no lost wake-up (`NoLostWakeup`), `NullMeansDrained`, `StopReleasesConsumers`, refinement of `FifoChannel` |
| `pool` | 2 workers, 3 tasks, at most 1 stuck | each task once (`TaskHasOnePlace`); the destructor waits for all (`DestroyedMeansDone`, `DestructorReturns`); a stuck task costs one worker (`EveryTaskFinishes`) |
| `delivery` | 3 messages, each a text or a request (`LIST`, `HISTORY`), 3 attempts, 2 drops | `DeliveredWasProcessed`, `HandledInOrder`, `TextsAreProcessed`, refinement of `AtLeastOnce` |
| `server` | 3 connections, 2 descriptors, 2 workers, 2 nicknames, 2 messages (`TEXT`, `PRIVATE`), writes to a departed client succeed or throw, a history file that may not open | `RegistryHoldsOpenSessions`, `NicknamesLeadHome`, `PrivateOnlyToAddressee`, and nothing acknowledged is lost, but for texts whose record could not be written (`AckedIsKept`) |
| `server_live` | 2 connections, 2 workers, 2 nicknames, 2 messages (`PRIVATE`, `LIST`), writes to a departed client throw | `RegistryIsReleased` and `HandlingEnds`, while handlers wait for each other |
| `server_kinds` | 2 connections, 2 workers, a nickname and the empty one, `MSG_AUTH` with an empty nickname, 1 message of any of the 8 types or a line that is none, 1 drop, every outcome of a write | workers are returned (`WorkerIsReturned`), also when the registry has been left stale |
| `departed` | 2 connections of lab 6 | `DepartedIsRemoved` is violated, see Findings |
| `earlier_servers` | labs 3, 4, 5; 3 connections for 2 workers, 3 descriptors, 1 nickname for all, 2 messages of every type, clients that stop reading | `OnlyEarlyExitsStay`, `QueuedOnceInOrder`, and `DepartedIsRemoved`, which holds in these labs as long as no client stops reading for ever |
| `client` | labs 3, 4, 5; 5 lines typed, 3 stops of the server, 2 texts of others | `ReadyMeansAuthenticated`, `BoundedDescriptors`, `SleeperIsWoken`, `LossIsRepaired`, `QuitEnds` |
| `inbox_client` | 3 sockets, 3 lines, up to 3 PINGs, 1 stop of the server, 1 text or line that is no message | `AbortHasACause`, `ReportIsExact`, `SavedReportAgrees` |
| `history` | 2 handlers, 2 readers, 5 messages, 2 answers, 2 ends of the process | `RecordsAreKept`, `AnswerIsConsecutive`, `UndisturbedAnswerIsComplete` |
| `wire` | labs 1 to 5; 3 messages of the client, 2 of other handlers | `MessagesArriveWhole`, `AnswerFollowsRequest`, `AnswerComes` |

The properties are stated, with the code they are about, at the end of each module. Every property of a
passing run has a mutant in `PROJECT.json`: an operation replaced by its variant with a slip, under
which the same run finds that property violated.

What some of the less obvious ones say:

* `AckedIsKept`: a private message is acknowledged after it has been written or queued, a text after
  `broadcast()`. The record of a text is missing only if the history file could not be opened, which
  `appendHistory()` reports to nobody.
* `RegistryIsReleased` and `HandlingEnds`: the waits meant are those for ACKs and for the locks of other
  sessions, each bounded by time-outs. A `::send()` to a client that stays and does not read is not among them
  (section 6).
* `DepartedIsRemoved` (labs 3 to 5): with such clients, since there a `::send()` is the only wait under the
  mutex. Again and again all who have left and have been given a worker are out of the registry, unless some
  client stops reading for ever: its writer then keeps the mutex that `remove()` needs. A connection still in
  the pool's queue is not in the registry yet and waits there for one of the workers.
* `ReadyMeansAuthenticated`: the main thread writes PINGs and private messages into the middle of the reader's
  handshake and broadcasts arrive there; still `connectWithRetry()` only returns on a connection whose handler
  has accepted the client's `MSG_AUTH`, because `auth()` insists on that type. It says no more: the handler
  answers in `auth()` and registers the nickname afterwards (`lab5/src/server/client_session.cpp:106`,
  `server/main.cpp:25-26`), perhaps after `connectWithRetry()` has returned. In lab 3 there is no such reply,
  and a returned handshake proves nothing.
* `BoundedDescriptors`: a reconnection overwrites `_socket_fd` and leaves the lost socket open, but a
  retry closes what it opened: sockets grow with the losses, not with the attempts.
* `SleeperIsWoken`: one who is asleep while the reader reconnects, at whatever step, however many attempts
  fail, is woken, or comes to where the user is asked for a nickname. That is not all one would want: the
  notification is sent without the mutex, and a main thread that has tested the predicate before and falls
  asleep after it stays asleep until the next reconnection (see below). `FallAsleep` has that case, the
  property does not exclude it.
* `AbortHasACause`: the inbox is stopped only by a failed attempt to connect, and `_socket_fd` taken away only
  by that or `/quit`. Before either, three things end the program by an exception: a text that is `[OFFLINE]`
  and no more, a line that is no message, and an error of `recv()` that is no reset. Nothing else does, late
  ACKs and PONGs, lost connections and the assignment to `_ack_reader` included.
* `ReportIsExact` and `SavedReportAgrees`: PONGs are registered while the report is computed; a report has all
  that were registered before and none that were not, and its averages fit its packets. They describe the
  code, which differs from its task: a PONG counts however late it comes, where `lab6/task.md:201-203` has the
  PING lost; and the jitter is taken across a lost PING, where the example of `lab6/task.md:252-253` (again at
  608-615) has `Jitter=0.0ms` after a time-out, and the average of 2.8 at line 260 counts that zero. The
  mutants take away what the code does promise, so the properties do not depend on which of the two readings
  one prefers.
* `RecordsAreKept`: only an end of the process between truncation and rewriting, or before a line
  end, loses records; the first loses those not yet written back, the second glues two together.
* `UndisturbedAnswerIsComplete`: a reader without a lock misses records only if a rewrite overlaps it.
* `MessagesArriveWhole`: for lab 5 without a condition; for labs 2 to 4 as long as `recv()` returns whole
  structs (`short` records when it has not, and the property leaves those states out).

**Bounds.** Three consumers and two callers give a stolen wake-up room: two consumers sleep while the third
intervenes. Three tasks on two workers leave one in the queue while both are busy. Three messages with three
attempts let copies of one message overlap the next two; two drops are the most three attempts can lose
without losing the message. Three connections on two descriptors make the third reuse one that another session
has just given back, while two workers handle two of them at the same time; two nicknames give a private
message a receiver and a bystander, and the third connection makes one nickname come back (offline delivery)
or be taken twice. A SIGPIPE that ends the process changes nothing else, so the invariants of `server` cannot
break by it; that outcome is left to `server_kinds`.
Liveness allows no symmetry, so `server_live` and `server_kinds` have two connections: two
handlers are what waiting for each other takes, and two messages what it takes to queue one and deliver it
while another handler waits for the registry. `server_live` has the types that hold a lock across a wait
(`PRIVATE` the registry's, `LIST` a session's own) and the one outcome of a write that ends a handler, so that
a handler meets another one in each of these waits. `server_kinds` adds every other type, the drop, the empty
nickname, lines that are no message and the other outcomes, with one message in all: how a session ends is
what `WorkerIsReturned` is about, and the handlers of the two connections still meet in the registry and in
`deliverOffline()`.

`EarlierServers` has three clients for two workers, so that one waits in the pool's queue until another has
been removed, and the session it gets meets what the first two have left. All three use one nickname, the
empty one (`Names` is empty; a HELLO may carry it, and the registry treats it as any other), so that what is
registered or queued for it changes hands twice, and every private message goes to it. Two messages are enough
to have order in a queue. The theorems about this module hold for any nicknames and any number of clients. In
`ReconnectingClient` three stops of the server give a loss, a failed retry and a second loss; five lines are
the nickname three times, a text and a command; with these bounds no attempt to connect ever finds the six
sockets taken, so that their number cuts nothing off. `InboxClient` has one stop (a loss before, during or
after the handshake and the failed attempt that follows), three lines (the nickname, and two that may be two
`/ping`, a `/ping` and `/netdiag` or `/quit`), and three PINGs, the fewest for two neighbouring distances and
for one across a lost PING; two round-trip times make neighbours differ. One text is enough for the one that
makes `msg_reader` throw, or for the line that makes the ack reader throw. `HistoryFile` has five messages, so
that records lie before, between and after a queued message and its rewrite; two handlers compete for the
mutex, two readers overlap, and a second end of the process meets what the first left. `Wire` has three
messages of the client (a text, a request and what follows it) and two of other handlers, the fewest for them
to interleave; three parts are the pieces the code treats differently.

**Symmetry.** Connections and nicknames are interchangeable in `ChatServer` (descriptors are not: they
are ordered). The symmetry set is used only in `server`, which checks state invariants.

**Deadlock.** The systems may stop: a pool is destroyed, a user stops typing, the process ends. All runs
say `CHECK_DEADLOCK FALSE`, and what must not stop is stated as liveness.

**Fairness.** Only steps that a scheduled thread takes by itself are fair, weakly: a thread that can run does,
a critical section or wait that can end does (waits for ACKs have time-outs). Nothing obliges callers to
enqueue, the owner to destroy the pool, the user to type, a client to connect, speak or leave. In `ChatServer`
the fairness is per connection (`WorkerStep(c)`), since each handler has a thread of its own: it does not
assume that a handler that competes for the registry wins, except that `HandlingEnds` is checked with a
bounded number of messages, so that competition ends. The ack reader notices that a client has left; that a
reader notices `close()` of its own descriptor is *not* assumed, which is why `WorkerIsReturned` speaks of
clients that have left. `EarlierServers` has weak fairness per handler, for the steps that need nothing from
the client, taking a connection out of the pool's queue included; that clients go on reading is not assumed
but a premise of `DepartedIsRemoved`, in which "again and again" makes up for a mutex that a handler may miss
while others take it. `ReconnectingClient` has it for the reconnection, for each of the two threads, for the
restart of a server that is down (`LossIsRepaired` is about a server that comes back), and for a server's
handler reading the end of its stream. `Wire` has it for the steps of the client and of the server other than
typing; datagrams may be lost for ever, and `AnswerComes` is about lab 2. `HistoryFile` and `InboxClient` are
checked for safety only.

### Findings

**A departed client stays** (run `departed`): the task of lab 5, which lab 6 continues, wants a client whose
connection is lost removed from the list (`lab5/task.md:396-397`). In lab 6 the ack reader ends at the end of
the stream without stopping the inbox (`lab6/src/server/client_session.cpp:141`), so the handler waits in
`recv()` for ever: the session stays registered and its worker is lost to the pool. In labs 3 to 5, where the
handler itself reads the socket, the same property holds (run `earlier_servers`).

### Observed while modelling

These follow from reading the code; each is part of a model, and properties are stated so that they are
true with them. No run is spent on showing them.

* `appendHistory()` returns without a record when the history file cannot be opened
  (`lab6/src/server/session_registry.cpp:9-12`), and the handler acknowledges the text all the same
  (`server/main.cpp:57-58`), though every message is to be saved (`lab5/task.md:147`) and the ACK to follow
  the processing (`lab6/task.md:141`).
* The clients of labs 3 to 6 notify `reconnect_cv` without its mutex (`lab5/src/client/main.cpp:37`): a main
  thread between the test of the predicate and its sleep misses it and stays asleep, no line of the user being
  read (`lab3/task.md:15`, 85-86), until another reconnection.
* A PONG that arrives after the three seconds counts as received in the next `/netdiag`
  (`lab6/task.md:201-203` has it lost), and the jitter is taken across lost PINGs (`lab6/task.md:252-253`).
* In the client of lab 6 a text of exactly `[OFFLINE]` (`messaging.cpp:191`; in lab 5 the same), a line that
  is no message, and an error of `recv()` other than a reset throw in a thread that catches nothing. The end
  of `main()` destroys a `_ack_reader` that `reset()` has not joined, which is `std::terminate`.
* `stringToMsg()` copies texts of any length into a payload of 256 bytes
  (`lab6/src/messaging/messaging.cpp:140`): lists and histories of many entries and queued texts with
  `[OFFLINE] ` before them write past it (`OverflowPayload`).
* A nickname in use is registered again by whoever claims it, and erased when that client leaves: private
  messages for the first are then queued although he is connected. Answered is a `MSG_AUTH` before its
  nickname is registered.
* `::send()` is called with the registry's mutex held; a client that stays and does not read stops all who
  need the registry.
* Lab 6 has no deduplication: a text whose ACK is late is processed again (`lab6/task.md:705` wants it
  processed once). `AtLeastOnce` is what holds.
* `/list` and `/history` of lab 6 are never acknowledged on either side (`lab6/task.md:62`): the client
  gives up, and so does the server, which ends the session (`ReplyTimesOut`, `SessionEnds`).
* `sendPrivate()` returns before `appendHistory()` when the receiver is absent, so a queued message is
  never recorded (`lab5/task.md:201` wants `delivered=false`), and `markDelivered()` has nothing to change.
* `MSG_BYE` closes the session before `remove(session.fd())`, which is then `remove(-1)`: nickname, descriptor
  and a pointer to the session stay, and the next owner of the descriptor is written the private messages for
  the old nickname (`lab4/task.md:126-127`). The same order in `auth()` for a `MSG_AUTH` with an empty
  nickname, and the early return for an unexpected type, leave the registry stale too. All servers from lab 3
  on.
* No program blocks or ignores SIGPIPE, so a departed client can end the server (`lab3/task.md:177`).
* `sendPrivate()`, unlike `broadcast()`, lets the exception of the receiver's write reach the sender's
  handler: a receiver who has just left ends the sender's session.
* Lab 4's `sendPrivate()` to an unknown nickname dereferences `end()`.
* `recvMsg()` of labs 3 and 4 turns a reset into a message of zeros before it reports the end; `recvMsg()` of
  labs 2 to 4 stops at 1024 of 1032 bytes and moves by structs after a partial read.
* The client of labs 3 to 5 leaves the lost socket open when it reconnects. A `/quit` during a reconnection
  does not end it: the reader goes on until it is connected.
* The client of lab 6 does not reconnect after a loss (`lab3/task.md:89-92`): its ack reader ends without
  stopping the inbox, so `msg_reader` never learns of it. Its inbox, once stopped by a failed attempt, is
  not renewed, and the first message after that ends the process. Its `/quit` does not leave the loop.
* `/quit` of lab 2 closes the socket without `MSG_BYE` (`lab2/task.md:56`).
* `buffer[n]` in lab 1 is one beyond the buffer for a datagram of full length.
* `getHistory()` takes no lock (`lab6/task.md:557`): during a rewrite it answers with a part of the history.

## 4. What is proved

The theorems hold for every value of the constants that the modules' assumptions allow: any finite numbers of
threads, connections and workers, any set of descriptors, any number of messages and drops. All are safety
properties of the specification without fairness (`SafeSpec`, `PoolSafeSpec`, `WireSafeSpec`, and `Spec` where
a module states no fairness). The operators the models are built from are reasoned about in `SequenceLemmas`:
what queue operations do to places, and how many elements of a kind there are (`Places`); recursive functions
by induction over the natural numbers (`EveryNumber`, from the well-foundedness of their order) and the fact
that a recursion along a sequence defines a function (`AccumulationExists`).

**Queue** (`ThreadPoolProof`; assumption: finite sets of callers and consumers, a natural bound).
`QueueTypeOK`; `QueueHandsOverInOrder`, inductive as it stands; `QueueLosesNoWakeup`: whenever a consumer
sleeps, the values stored are at most the `notify_one()` calls still owed plus the consumers awake in
`pop()`. It is inductive with the type invariant, because a push adds an owed call, an owed call that
wakes somebody turns into a consumer awake, and one that finds nobody asleep leaves no sleeper;
`QueueStopWakesSleepers` (not a property of a run: the runs check the liveness it is the safety part of),
`QueueNullMeansDrained`; and `QueueImplementsChannel`, the step simulation
under the refinement mapping of `ThreadSafeQueue`: enqueueing, taking and stopping are `Send`,
`Receive` and `Close`, everything else stutters.

**Pool** (`ThreadPoolProof`; assumption: the owner is a caller, a positive number of workers, which are the
consumers). `PoolUsesQueue`: every step of the pool is a step of the queue or leaves it alone, so that what is
proved of the queue holds of the pool's. `PoolRunsTasksOnce` and `PoolDestructorWaits` rest on `Ordered`: the
type invariant, `QueuedOnce` (the queue holds no task twice), `Idle` (a worker inside `pop()` runs nothing,
and one that has got its null result leaves the queue stopped and empty) and `Joining` (a worker that has been
joined has got its null result). `TaskHasOnePlace` alone is not inductive: a task queued twice would be taken
twice. The lemmas `PushAdds` and `PopRemoves` reduce the queue's steps to the set of tasks it holds.

**Delivery** (`MessagingProof`; assumption: at least one attempt, natural bounds, known kinds).
`DeliveryTypeOK` carries `InProgress`: the message being sent or handled is a message. `DeliveryIsTruthful` (a
`sendMsg()` that returns was processed) is not inductive: nothing in it speaks of ACKs under way.
`AckedWasProcessed` follows an ACK from the worker about to send it through the socket to `_pending_acks`.
`DeliveryInOrder` rests on `Ordered`: from the processed messages through the inbox and the socket to the
message being sent, ids never decrease, so a late copy can only come before younger messages.
`DeliveryImplementsAtLeastOnce` is the step simulation: `Send` is `Offer`, `Handle` is `Process`, `AckArrives`
and `GiveUp` are `Conclude`. `Process` may happen only as often as there are attempts, so the proof counts:
the copies of a message that have been handled, lie in the inbox or are on the way are together at most the
attempts made (`CopiesBounded`), and every message before the one being sent has its verdict (`Concluded`).

**Wire** (`MessagingProof`, next to the delivery of lab 6, which takes for granted what is shown here of a
line of JSON; assumption: natural bounds, `NoMsg` is no message). `WireMessagesArriveWhole` says nothing of
the parts under way, so it is not inductive. `Framed` speaks of them: what `recvMsg()` has read, what is on
the way and what `send()` has not taken, one behind the other (`Whole`), are the parts of the messages sent
and not yet received, in order (`Spells`), and never more than two parts of a message have been read without
its last. `send()` and `recv()` then only move parts from one place to the next, which leaves `Whole` what it
is (`WrittenFramed`, `ReadFirst`); `sendMsg()` adds the parts of one message behind it (`BeganFramed`), and
this is where the mutex is needed; a `recvMsg()` that returns takes those of one off its beginning
(`ReceivedFramed`). In labs 2 to 4 the third part of a struct is not asked for: there the step holds only
while `recv()` returns a whole struct, and `short` remembers that it has not. In lab 1 a datagram may be lost,
but there is never more than one under way. For that, for `WireAnswerFollowsRequest`, and for
`WireNeverBothWait` (not a property of a run but the safety part of `AnswerComes`: in lab 2 the request or its
answer is always under way), the invariant needs the conversation (`Talk`): a client that waits for nothing
has nothing coming and no request that is still to be answered (`Idle`); one that waits has its last message
answered by the message that is on its way or read, or nothing is on the way at all and the server has the
message still to handle (`Waiting`); and the texts the server of lab 2 has handled are shown (`TextsShown`).
These are predicates over two directions, so that what a step does to them is a lemma without actions
(`TalkAsked`, `TalkAnswered`, `TalkRead`, `TalkTaken`, `TalkShown`, and `TalkKept` for the steps that only
move parts).

**Server of lab 6** (`ChatServerProof`; assumption: finitely many connections, at least one worker).
`ServerTypeOK` holds for clients that do anything; it carries `Serving`: a handler past the handshake has a
nickname, one that handles a message has one with a receiver if it is private, and one inside a wait under the
registry's lock owns that lock. The other four assume `Orderly`: no client sends `BYE` or an unexpected type,
and none a `MSG_AUTH` with an empty nickname (lines that are no message are not excluded). These inputs make
the code close or destroy a session before it is removed, and then the properties are false. With them
excluded the server may still lose clients at any point, reuse descriptors at once, have two clients with one
nickname, and fail in any write. The inductive invariant is `Agreement`: a session has a descriptor exactly
while it is between `accept()` and its destruction, no two have the same, each session between `add()` and
`remove()` is found under its descriptor and no other is found, and a nickname's descriptor leads to a session
that has registered it. `RegistryHoldsOpenSessions` and `NicknamesLeadHome` alone are not inductive, since
they do not say that a descriptor about to be registered is free. Most steps only move a handler on: `Advance`
abstracts them, and `HandlersAdvance` shows once that they are such steps. `ServerKeepsPrivacy` adds
`Addressed` (messages are queued for the client they are for), and `ServerKeepsWhatItAcknowledged` adds
`Accounted` (a message about to be acknowledged is recorded or its record has failed for want of the file, is
written or queued) with the lemma `KeptStays`: delivery moves a message from the queue to its receiver.

**Servers of labs 3 to 5** (`EarlierServersProof`; assumption: finitely many sessions, descriptors and
sessions numbered). `EarlierOnlyEarlyExitsStay` excludes no input: the sessions that end by BYE, a refused
AUTH or an unexpected type are collected in `early`, and the theorem says that nothing else leaves anything
behind, whether clients read or leave others waiting in a write under the mutex. The invariant `Agreement`
adds to it where descriptors are: outside `early`, a session has one exactly between `accept()` and its
destruction, a session in `early` has none, and no two share one. The registry's entries for sessions in
`early` are left free, as the code leaves them. `EarlierQueuedOnceInOrder` (lab 5) says nothing of messages
that are neither queued nor written yet and is not inductive; `Fate` says of every message that was queued
that it waits, in one queue and once, or has been written, once, and that what waits for a nickname is younger
than what has been written to it. Three kinds of steps touch it: one forwards a message, one queues it, one
hands over a part of a queue (`Forwards`, `Enqueues`, `HandsOver`).

**Clients of labs 3 to 5** (`ReconnectingClientProof`; assumption: natural bounds).
`ClientReadyMeansAuthenticated` needs three things besides types. One thread dials at a time, and the reply to
`MSG_AUTH` is awaited on the socket the request was sent on, unless `/quit` has taken it away (`Handshake`):
the reader's `readFd` could otherwise belong to an older connection. And on every socket a `MSG_AUTH` that is
not yet read was written by a handler that had accepted the client's (`Honest`). No operation takes that back
(`SocketsKept`), so what the main thread writes and the server broadcasts in the meantime does not matter.
`ClientBoundedDescriptors` counts the sockets in use: those that reconnections and `/quit` may have left open
(`Left`) and one more, but none more where `connectWithRetry()` is about to take one (`Empty`); only this
second bound makes the first inductive, since an attempt takes a socket without a loss before it.

**Client of lab 6** (`InboxClientProof`; assumption: natural bounds, round-trip times that are numbers, and a
mark for a missing one that is none). `InboxAbortHasACause`: as long as no attempt has failed, nobody has
typed `/quit` and none of the three inputs that throw has come (`thrown`), the inbox is not stopped, the ack
reader starts only once, after the handshake, `_socket_fd` is a socket from the first `connect()` on, and
`msg_reader` is at work, so that `main()` does not end (`NoCauseYet`); a cause never goes away.
`InboxReportIsExact` follows a PING through its life: what the server has got was registered
(`OnlyRegistered`), `stats` has a place for each registered PING (`PingsRegistered`), a PING has a round-trip
time exactly when its PONG has been handled (`Measured`), and the report has passed over none that was handled
before it began (`Reported`). `InboxSavedReportAgrees` is about the recursive functions `Times`, `Total` and
`Distances`: the loop's local variables are their values for the elements it has looked at (`Sums`), because
they grow by one step of the recursion when a packet is added (`TimesGrow`, `TotalGrows`, `DistancesGrow`).

**History file** (`HistoryFileProof`; assumption: natural bounds, `Nobody` is no handler). Whether a file can
be opened is left open at every opening. The three properties of the run are theorems:
`HistoryRecordsAreKept`, `HistoryAnswerIsConsecutive`, `HistoryUndisturbedAnswerIsComplete`. The invariant
does not speak of the file but of what it will be when the rewrite going on is over: `Whole` is the file
followed by the lines still to be written back. Seen so, a rewrite does nothing, or gives the last line the
end it lacks, and whatever a handler does can only append to `Whole` (`Writes`, `HandlerWrites`,
`WritesAppend`). `WellFormed`: its records are in order, and unless damaged they are those appended, one on a
line. `ReadsWhole`: what a reader has collected, in pieces and across a truncation, is how `Whole` begins,
since the file is at every moment such a beginning too. What parses in a beginning of such a file are the
first records (`ParsedLines`, by induction along the file); that gives the run of consecutive records. An end
of the process makes the file itself the new `Whole`: a beginning of the old one, so that order remains even
when records are lost.

## 5. Only model-checked

Liveness under fairness, and refinement as far as it concerns fairness, are outside what the proof
system can do with ENABLED: `DepartedIsRemoved` and the other leads-to properties are checked only.
Every invariant that a run checks is stated by a theorem; those of `ChatServer` for `Orderly` clients,
the type invariant for all.

## 6. Not modelled, and the plan

| step | module | content |
|---|---|---|
| done | `ThreadSafeQueue`, `FifoChannel`, `ThreadPool` | queue and pool |
| done | `AckedDelivery`, `AtLeastOnce` | ACKs and retries |
| done | `ChatServer` | sessions, registry, accept loop of lab 6 |
| done | `InboxClient` | the client of lab 6 with its ping reports |
| done | `HistoryFile` | append, rewrite, unlocked reading, ends of the process |
| done | `ReconnectingClient`, `EarlierServers` | clients and servers of labs 3-5 |
| done | `Wire` | wire formats of labs 1-5, programs of labs 1 and 2 |
| done | proofs | the invariants of all modules, and the step simulations of the two refinements |

Not modelled, for a reason of the models: an ack reader of lab 6 that is still in `recv()` on a descriptor
that has been closed and given to another connection (it needs two sessions on one socket below whole
messages; `ChatServer` lets such a reader stay blocked, `joining`), and the race of worker threads on the
static `Id_Count` (the modules number messages by where they come from). A `::send()` of lab 6's server that
blocks because its client does not read is not modelled either: `ChatServer` takes `::send()` to return, and
`RegistryIsReleased` and `HandlingEnds` hold with that restriction; `EarlierServers` has such clients. What is
written to a history file that has been opened is taken to arrive there, and the structs of labs 3 and 4 are
taken to be well-formed. The move operations of `ClientSession` only hand a descriptor on before anything
interacts.

Left out for good: JSON conversion, time formatting, logging (pure conversion and output), the
third-party JSON library, argument parsing, `bind`/`listen` (they run before anything interacts), `/help`
and unknown commands (they print only).
