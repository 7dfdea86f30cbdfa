--------------------------------- MODULE Wire ---------------------------------
(***************************************************************************)
(* How messages cross the network in labs 1 to 5, and the request and      *)
(* answer of the two first labs.  Lab 1 sends datagrams; labs 2 to 4 send  *)
(* a struct Message over TCP and read it back with recv() calls of their   *)
(* own; lab 5 sends a line of JSON and reads up to the line end.  send()   *)
(* may take only a part of a message, recv() may return only a part.       *)
(* In labs 3 to 5 several handlers write to one client, under the mutex of *)
(* its session.  Handshakes of labs 3 to 5 are left to ReconnectingClient  *)
(* and EarlierServers.                                                     *)
(***************************************************************************)
EXTENDS Naturals, Sequences, SequencesExt

CONSTANTS
  Labs,      \* the programs looked at: a subset of 1 .. 5
  MaxTyped,  \* bound on the messages of the client
  MaxTexts,  \* bound on the messages other handlers write to the client
  NoMsg      \* no message has been read

Message(t, i) == [type |-> t, id |-> i]
Messages == [type : {"HELLO", "WELCOME", "TEXT", "PING", "PONG", "ECHO"}, id : Nat]

ASSUME WireAssumption ==
  /\ Labs \subseteq 1 .. 5
  /\ MaxTyped \in Nat /\ MaxTexts \in Nat
  /\ NoMsg \notin Messages

VARIABLES
  lab,        \* the program that runs
  clientMain, \* main thread of the client: "hello", "prompt", "await" (an answer)
              \* or "closed"
  server,     \* "serving", or "ended" with its program or session
  up, down,   \* the direction to the server and the one to the client
  typed,      \* number of the client's messages
  texts,      \* number of the messages of other handlers
  shown,      \* history: the client's texts the server has shown or sent on
  short       \* history: whether recv() has returned less than a struct Message

wireVars == <<lab, clientMain, server, up, down, typed, texts, shown, short>>

\* A message is cut into parts: a datagram has one; part 3 of a struct are the bytes
\* after the first 1024, of a line its end.
Parts == IF lab = 1 THEN 1 ELSE 3
Cut(m) == [i \in 1 .. Parts |-> <<m, i>>]

\* A direction: parts on the way, parts the sender has still to write and whether it is
\* the handler that writes, what recvMsg() has read, the message it has returned, and
\* histories: messages sent and received, and whether recvMsg() has lost the boundaries.
Quiet == [wire |-> <<>>, tx |-> <<>>, handler |-> FALSE, got |-> <<>>, msg |-> NoMsg,
          sent |-> <<>>, received |-> <<>>, lost |-> FALSE]

WireInit ==
  /\ lab \in Labs
  /\ clientMain = IF lab = 2 THEN "hello" ELSE "prompt"
  /\ server = "serving"
  /\ up = Quiet /\ down = Quiet
  /\ typed = 0 /\ texts = 0 /\ shown = {} /\ short = FALSE

\* Variants of operations, each with one plausible slip.
Began_WithoutMutex(d, m, handler) ==
  {[d EXCEPT !.tx = Cut(m) \o @, !.handler = handler, !.sent = Append(@, m)]}
Written_OnlyOnce(d) ==
  {[d EXCEPT !.wire = @ \o SubSeq(d.tx, 1, k), !.tx = <<>>] : k \in 1 .. Len(d.tx)}
ServerHandles_FallsThrough ==
  /\ server = "serving" /\ up.msg # NoMsg
  /\ up' = [up EXCEPT !.msg = NoMsg]
  /\ shown' = IF up.msg.type = "TEXT" THEN shown \cup {up.msg.id} ELSE shown
  /\ down.tx = <<>>
  /\ LET m == Message("PONG", up.msg.id)
     IN  down' = [down EXCEPT !.tx = Cut(m), !.handler = TRUE, !.sent = Append(@, m)]
  /\ UNCHANGED <<lab, clientMain, server, typed, texts, short>>

------------------------------------------------------------------------------
(* sendMsg() *)

\* It begins when the mutex of the session is free, or the only thread has nothing to
\* write.
Began(d, m, handler) ==
  IF d.tx = <<>>
    THEN {[d EXCEPT !.tx = Cut(m), !.handler = handler, !.sent = Append(@, m)]}
    ELSE {}

\* ::send() takes a part of what is left, and is called until nothing is.
Written(d) ==
  {[d EXCEPT !.wire = @ \o SubSeq(d.tx, 1, k), !.tx = SubSeq(@, k + 1, Len(@))] : k \in 1 .. Len(d.tx)}

ClientWrites ==
  /\ clientMain # "closed" /\ up' \in Written(up)
  /\ UNCHANGED <<lab, clientMain, server, down, typed, texts, shown, short>>
ServerWrites ==
  /\ server = "serving" /\ down' \in Written(down)
  /\ UNCHANGED <<lab, clientMain, server, up, typed, texts, shown, short>>

\* Writing to a client that has closed throws or raises SIGPIPE.
WriteFails ==
  /\ server = "serving" /\ clientMain = "closed" /\ down.tx # <<>>
  /\ server' = "ended"
  /\ UNCHANGED <<lab, clientMain, up, down, typed, texts, shown, short>>

\* A datagram of lab 1 may be lost.
LoseUp ==
  /\ lab = 1 /\ up.wire # <<>>
  /\ up' = [up EXCEPT !.wire = Tail(@)]
  /\ UNCHANGED <<lab, clientMain, server, down, typed, texts, shown, short>>
LoseDown ==
  /\ lab = 1 /\ down.wire # <<>>
  /\ down' = [down EXCEPT !.wire = Tail(@)]
  /\ UNCHANGED <<lab, clientMain, server, up, typed, texts, shown, short>>

------------------------------------------------------------------------------
(* recvMsg() *)

\* The parts p have been read for one message: it is m if they begin with its parts,
\* of a struct at least the first two.
Returned(d, p) ==
  IF \E i \in 2 .. 3 : lab # 1 /\ Len(p) >= i /\ p[i] # <<p[1][1], i>> THEN [d EXCEPT !.lost = TRUE]
  ELSE IF p[1][2] # 1 THEN [d EXCEPT !.lost = TRUE]
  ELSE [d EXCEPT !.got = <<>>, !.msg = p[1][1], !.received = Append(@, p[1][1])]
Rest(d, k) == [d EXCEPT !.wire = SubSeq(@, k + 1, Len(@))]

\* Lab 1: recvfrom() takes one datagram.
RecvDatagram(d) == {Returned(Rest(d, 1), SubSeq(d.wire, 1, 1))}

\* Labs 2 to 4: read until 1024 bytes have come, although a struct has 1032; &msg +
\* total_received moves by structs, so that a second read writes beside the message.
RecvStruct(d) ==
  {LET e == Rest(d, k)
       p == SubSeq(d.wire, 1, k)
   IN  IF d.got # <<>> THEN [e EXCEPT !.lost = TRUE]
       ELSE IF k = 1 THEN [e EXCEPT !.got = p]
       ELSE Returned(e, p) : k \in 1 .. Parts \cap 1 .. Len(d.wire)}

\* Lab 5: read byte after byte up to the line end.
RecvLine(d) ==
  LET e == Rest(d, 1)
      p == Append(d.got, d.wire[1])
  IN  {IF Last(p)[2] = Parts THEN Returned(e, p) ELSE [e EXCEPT !.got = p]}

Received(d) ==
  IF d.wire = <<>> \/ d.msg # NoMsg \/ d.lost THEN {}
  ELSE CASE lab = 1 -> RecvDatagram(d)
         [] lab \in 2 .. 4 -> RecvStruct(d)
         [] lab = 5 -> RecvLine(d)
Short(d, e) == short' = (short \/ (lab \in 2 .. 4 /\ Len(d.wire) - Len(e.wire) < Parts))

\* The clients of labs 1 and 2 read only for an answer, those of labs 3 to 5 have a
\* thread that reads; a handler reads when it has nothing to write.
ClientRecv ==
  /\ clientMain # "closed" /\ (lab \in 1 .. 2 => clientMain = "await" /\ up.tx = <<>>)
  /\ down' \in Received(down) /\ Short(down, down')
  /\ UNCHANGED <<lab, clientMain, server, up, typed, texts, shown>>
ServerRecv ==
  /\ server = "serving" /\ ~(down.tx # <<>> /\ down.handler)
  /\ up' \in Received(up) /\ Short(up, up')
  /\ UNCHANGED <<lab, clientMain, server, down, typed, texts, shown>>

------------------------------------------------------------------------------
(* The programs *)

\* sendHello(), then recvWelcome()
ClientHello ==
  /\ clientMain = "hello"
  /\ up' \in Began(up, Message("HELLO", 0), FALSE)
  /\ clientMain' = "await"
  /\ UNCHANGED <<lab, server, down, typed, texts, shown, short>>

\* A line of text.  In lab 1 the client waits for its echo.
TypeText ==
  /\ clientMain = "prompt" /\ typed < MaxTyped
  /\ typed' = typed + 1
  /\ up' \in Began(up, Message("TEXT", typed + 1), FALSE)
  /\ clientMain' = IF lab = 1 THEN "await" ELSE "prompt"
  /\ UNCHANGED <<lab, server, down, texts, shown, short>>

\* /ping; in lab 2 the client waits for the answer.
TypePing ==
  /\ lab # 1 /\ clientMain = "prompt" /\ typed < MaxTyped
  /\ typed' = typed + 1
  /\ up' \in Began(up, Message("PING", typed + 1), FALSE)
  /\ clientMain' = IF lab = 2 THEN "await" ELSE "prompt"
  /\ UNCHANGED <<lab, server, down, texts, shown, short>>

\* What recvMsg() has returned is printed, whatever its type.
ClientTakes ==
  /\ clientMain # "closed" /\ down.msg # NoMsg
  /\ down' = [down EXCEPT !.msg = NoMsg]
  /\ clientMain' = IF lab \in 1 .. 2 THEN "prompt" ELSE clientMain
  /\ UNCHANGED <<lab, server, up, typed, texts, shown, short>>

\* /quit of lab 2, and the end of a client of labs 3 to 5.
ClientCloses ==
  /\ lab # 1 /\ clientMain = "prompt" /\ up.tx = <<>>
  /\ clientMain' = "closed"
  /\ UNCHANGED <<lab, server, up, down, typed, texts, shown, short>>

\* Lab 1 sends the datagram back; the other servers show or forward a text, and answer
\* HELLO and PING.
AnswerType(m) ==
  CASE m.type = "HELLO" -> "WELCOME" [] m.type = "PING" -> "PONG" [] m.type = "TEXT" -> "ECHO"
ServerHandles ==
  /\ server = "serving" /\ up.msg # NoMsg
  /\ up' = [up EXCEPT !.msg = NoMsg]
  /\ IF up.msg.type = "TEXT" /\ lab # 1
       THEN shown' = shown \cup {up.msg.id} /\ UNCHANGED down
       ELSE down' \in Began(down, Message(AnswerType(up.msg), up.msg.id), TRUE) /\ UNCHANGED shown
  /\ UNCHANGED <<lab, clientMain, server, typed, texts, short>>

\* broadcast() or sendPrivate() by another client's handler
OtherWrites ==
  /\ lab \in 3 .. 5 /\ server = "serving" /\ texts < MaxTexts
  /\ texts' = texts + 1
  /\ down' \in Began(down, Message("TEXT", texts + 1), FALSE)
  /\ UNCHANGED <<lab, clientMain, server, up, typed, shown, short>>

\* recv() returns 0: the session of labs 3 to 5 ends, and so does the server of lab 2.
ServerEnds ==
  /\ server = "serving" /\ clientMain = "closed"
  /\ up.wire = <<>> /\ up.msg = NoMsg /\ ~(down.tx # <<>> /\ down.handler)
  /\ server' = "ended"
  /\ UNCHANGED <<lab, clientMain, up, down, typed, texts, shown, short>>

ClientProceeds == ClientWrites \/ ClientRecv \/ ClientTakes \/ ClientHello
ServerProceeds == ServerWrites \/ WriteFails \/ ServerRecv \/ ServerHandles \/ ServerEnds
WireNext ==
  \/ ClientProceeds \/ ServerProceeds
  \/ TypeText \/ TypePing \/ ClientCloses \/ OtherWrites \/ LoseUp \/ LoseDown

WireSafeSpec == WireInit /\ [][WireNext]_wireVars

\* Both programs go on when they can; nobody has to type.
WireSpec == WireSafeSpec /\ WF_wireVars(ClientProceeds) /\ WF_wireVars(ServerProceeds)

------------------------------------------------------------------------------
(* Properties *)

\* Whatever part of a message send() takes and however the handlers take turns, messages
\* arrive whole, once and in order: in lab 5 always, in labs 2 to 4 as long as recv()
\* returns a whole struct; in lab 1 up to the first that is lost.
MessagesArriveWhole ==
  \A d \in {up, down} :
    ~short => ~d.lost /\ IsPrefix(d.received, d.sent)

\* The answer a client of labs 1 and 2 waits for is the one to its last request, and the
\* server of lab 2 has shown every text typed before it.
AnswerFollowsRequest ==
  lab \in 1 .. 2 /\ ~short /\ down.msg # NoMsg =>
    /\ clientMain = "await" /\ down.msg.id = Last(up.sent).id
    /\ lab = 2 => \A m \in ToSet(up.sent) : m.type = "TEXT" => m.id \in shown

\* A client of lab 2 and its server never both wait for the other: until the client has
\* taken the answer, some part of its request or of the answer is still to be written, on
\* its way, or read, or a message still to be handled.
NeverBothWait ==
  lab = 2 /\ clientMain = "await" /\ ~short =>
    \E d \in {up, down} : d.got # <<>> \/ d.wire # <<>> \/ d.tx # <<>> \/ d.msg # NoMsg

\* A client of lab 2 that waits for an answer gets it, although recv() may return any part
\* of a message, unless that has made a recvMsg() lose the boundaries.
AnswerComes ==
  (lab = 2 /\ clientMain = "await") ~> (clientMain = "prompt" \/ short)

==============================================================================
