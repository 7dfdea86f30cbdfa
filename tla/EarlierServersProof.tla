-------------------------- MODULE EarlierServersProof --------------------------
(***************************************************************************)
(* Proofs about EarlierServers for any numbers of sessions, descriptors,  *)
(* nicknames and messages, and whatever clients send: the registry leads   *)
(* to no session that is not open, except to those that BYE, a refused     *)
(* AUTH or an unexpected type have ended before their removal; and         *)
(* lab 5's queues write each of their messages at most once and in order.  *)
(***************************************************************************)
EXTENDS EarlierServers, SequenceLemmas

\* Where a session is in the registry, and where it may have a nickname there.
Named == {"offline", "delivering", "loop", "sending", "cleanup"}
InRegistry == {"hello", "welcome", "auth", "register"} \cup Named

TypeOK ==
  /\ pc \in [Conns -> {"new", "queued", "closing", "destroyed"} \cup InRegistry]
  /\ fd \in [Conns -> Fds \cup {NoFd}]
  /\ nickname \in [Conns -> Nicks]
  /\ sessions \in [Fds -> Conns \cup {NoConn}]
  /\ nickToFd \in [Nicks -> Fds \cup {NoFd}]
  /\ early \subseteq Conns

\* The registry and the sessions agree about each other.
Agreement ==
  /\ \A c \in Conns \ early : fd[c] = NoFd <=> pc[c] \in {"new", "destroyed"}
  /\ \A c \in early : fd[c] = NoFd /\ pc[c] \in {"cleanup", "closing", "destroyed"}
  /\ \A c, d \in Conns : fd[c] # NoFd /\ fd[c] = fd[d] => c = d
  /\ \A f \in Fds : sessions[f] \in Conns \ early =>
       fd[sessions[f]] = f /\ pc[sessions[f]] \in InRegistry
  /\ early = {} =>
       \A n \in Nicks : nickToFd[n] # NoFd =>
         \E c \in Conns : fd[c] = nickToFd[n] /\ nickname[c] = n /\ pc[c] \in Named

\* What most steps do: the handler of a registered session moves on.
Advance(c) ==
  /\ pc[c] \in InRegistry \ {"cleanup"}
  /\ \E p \in InRegistry :
       /\ pc' = [pc EXCEPT ![c] = p]
       /\ pc[c] \in Named => p \in Named
  /\ \/ UNCHANGED nickname
     \/ pc[c] = "hello" /\ \E n \in Nicks : nickname' = [nickname EXCEPT ![c] = n]
  /\ UNCHANGED <<fd, sessions, nickToFd, early>>

\* The constants that stand for nothing are not among what they stand beside.
LEMMA Nothing == NoFd \notin Fds /\ NoConn \notin Conns /\ EmptyNick \in Nicks
  BY EarlierAssumption DEF Nicks

\* A step that only moves a handler on keeps the registry and the descriptors in agreement.
LEMMA AdvanceKeeps ==
  ASSUME TypeOK, Agreement, NEW c \in Conns, Advance(c)
  PROVE  TypeOK' /\ Agreement'
<1>1. PICK p \in InRegistry :
        /\ pc' = [pc EXCEPT ![c] = p]
        /\ pc[c] \in Named => p \in Named
  BY DEF Advance
<1>2. /\ pc[c] \in InRegistry \ {"cleanup"} /\ UNCHANGED <<fd, sessions, nickToFd, early>>
      /\ nickname' \in [Conns -> Nicks]
      /\ \A d \in Conns : d # c \/ pc[c] # "hello" => nickname'[d] = nickname[d]
  BY DEF Advance, TypeOK
<1>3. TypeOK'
  BY <1>1, <1>2 DEF TypeOK
<1>4. \A d \in Conns : pc[d] \in Named => pc'[d] \in Named /\ nickname'[d] = nickname[d]
  BY <1>1, <1>2 DEF TypeOK, Named
<1>5. \A d \in Conns : (pc[d] \in InRegistry <=> pc'[d] \in InRegistry) /\ (d # c => pc'[d] = pc[d])
  BY <1>1, <1>2 DEF TypeOK
<1>6. (\A d \in Conns \ early : fd[d] = NoFd <=> pc[d] \in {"new", "destroyed"})'
  BY <1>1, <1>2, <1>5 DEF TypeOK, Agreement, InRegistry, Named
<1>7. (\A d \in early : fd[d] = NoFd /\ pc[d] \in {"cleanup", "closing", "destroyed"})'
  BY <1>1, <1>2, <1>5 DEF TypeOK, Agreement, InRegistry, Named
<1> QED
  BY <1>2, <1>3, <1>4, <1>5, <1>6, <1>7 DEF TypeOK, Agreement

\* The steps of the handshake and of the loop that only let the handler move on.
LEMMA HandlersAdvance ==
  ASSUME TypeOK, NEW c \in Conns,
         \/ RecvHello(c) \/ HelloThrows(c) \/ SendWelcome(c) \/ AuthAccepts(c) \/ AuthThrows(c)
         \/ DeliverOffline(c) \/ Disconnected(c) \/ Blocks(c)
         \/ AuthRefuses(c) /\ UNCHANGED <<fd, early>>
  PROVE  Advance(c)
<1> USE DEF InRegistry, Named
<1>1. CASE RecvHello(c)
  <2>1. /\ pc[c] = "hello" /\ pc' = [pc EXCEPT ![c] = "welcome"]
        /\ UNCHANGED <<fd, sessions, nickToFd, early>>
    BY <1>1 DEF RecvHello, Goto, ghosts, registryVars
  <2>2. \E n \in Nicks : nickname' = [nickname EXCEPT ![c] = n]
    BY <1>1 DEF RecvHello
  <2>3. \E p \in InRegistry :
          /\ pc' = [pc EXCEPT ![c] = p]
          /\ pc[c] \in Named => p \in Named
    BY <2>1
  <2> QED
    BY <2>1, <2>2, <2>3, Zenon DEF Advance
<1>2. CASE HelloThrows(c) \/ AuthThrows(c) \/ Disconnected(c)
  BY <1>2 DEF HelloThrows, AuthThrows, Disconnected, Goto, ghosts, registryVars, Advance
<1>3. CASE SendWelcome(c)
  BY <1>3 DEF SendWelcome, WriteTo, Goto, ghosts, registryVars, Advance
<1>4. CASE AuthAccepts(c)
  BY <1>4 DEF AuthAccepts, WriteTo, Goto, ghosts, registryVars, Advance
<1>5. CASE DeliverOffline(c)
  BY <1>5 DEF DeliverOffline, Goto, Advance
<1>6. CASE AuthRefuses(c) /\ UNCHANGED <<fd, early>>
  BY <1>6 DEF AuthRefuses, Goto, Advance, registryVars
<1>7. CASE Blocks(c)
  <2>1. \/ pc[c] = "loop" /\ pc' = [pc EXCEPT ![c] = "sending"]
        \/ pc[c] = "offline" /\ pc' = [pc EXCEPT ![c] = "delivering"]
    BY <1>7 DEF Blocks, MayRead, Goto
  <2> QED
    BY <1>7, <2>1 DEF Blocks, Advance, registryVars, ghosts
<1> QED
  BY <1>1, <1>2, <1>3, <1>4, <1>5, <1>6, <1>7

\* A message that is read lets the handler move on, or ends its session before remove().
LEMMA HandleCases ==
  ASSUME TypeOK, NEW c \in Conns, Handle(c) \/ GoesOn(c) \/ HandleZeros(c)
  PROVE  Advance(c) \/ (pc[c] \in {"loop", "sending"} /\ (Bye(c) \/ Unexpected(c)))
<1> DEFINE Moves == /\ UNCHANGED <<fd, nickname, sessions, nickToFd, early>>
                    /\ UNCHANGED pc \/ \E p \in {"loop", "cleanup"} : pc' = [pc EXCEPT ![c] = p]
<1>1. pc[c] \in {"loop", "sending"}
  BY DEF Handle, GoesOn, MayRead, HandleZeros
<1>2. Moves => Advance(c)
  <2> SUFFICES ASSUME Moves PROVE Advance(c)
    OBVIOUS
  <2>1. PICK p \in {"loop", "sending", "cleanup"} : pc' = [pc EXCEPT ![c] = p]
    BY <1>1 DEF TypeOK
  <2> QED
    BY <1>1, <2>1 DEF Advance, InRegistry, Named
<1>3. CASE HandleZeros(c)
  BY <1>1, <1>3 DEF HandleZeros
<1>4. ASSUME NEW m \in Msgs, Branch(c, m)
      PROVE  Moves \/ Bye(c) \/ Unexpected(c)
  <2>1. Broadcast(c, m) => Moves
    BY DEF Broadcast, Goto, registryVars, ghosts
  <2>2. Answer(c) => Moves
    BY DEF Answer, WriteTo, Goto, registryVars, ghosts
  <2>3. Ignore => Moves
    BY DEF Ignore, sessionVars, registryVars, ghosts
  <2>4. Lab4Private(c, m) => Moves
    BY DEF Lab4Private, Forward, Goto, registryVars
  <2>5. Lab5Private(c, m) => Moves
    BY DEF Lab5Private, Forward, Goto
  <2>6. \/ Broadcast(c, m) \/ Answer(c) \/ Ignore \/ Lab4Private(c, m) \/ Lab5Private(c, m)
        \/ Bye(c) \/ Unexpected(c)
    BY <1>4 DEF Branch, Lab3Branch, Lab4Branch, Lab5Branch
  <2> QED
    BY <2>1, <2>2, <2>3, <2>4, <2>5, <2>6
<1>5. CASE Handle(c) \/ GoesOn(c)
  <2>1. PICK m \in Msgs : Branch(c, m)
    BY <1>5 DEF Handle, GoesOn, Current
  <2> QED
    BY <1>1, <1>2, <1>4, <2>1
<1> QED
  BY <1>3, <1>5

------------------------------------------------------------------------------
\* In every reachable state the registry and the sessions agree.
LEMMA RegistryAgrees == SafeSpec => [](TypeOK /\ Agreement)
<1>1. Init => TypeOK /\ Agreement
  BY Nothing DEF Init, TypeOK, Agreement, Nicks, InRegistry, Named
<1>2. TypeOK /\ Agreement /\ [Next]_vars => TypeOK' /\ Agreement'
  <2> SUFFICES ASSUME TypeOK, Agreement, [Next]_vars
               PROVE  TypeOK' /\ Agreement'
    OBVIOUS
  <2>1. CASE UNCHANGED vars
    BY <2>1 DEF vars, sessionVars, registryVars, ghosts, TypeOK, Agreement
  <2>2. ASSUME NEW c \in Conns, Advance(c)
        PROVE  TypeOK' /\ Agreement'
    BY <2>2, AdvanceKeeps
  <2>3. ASSUME NEW c \in Conns, ClientTurns(c)
        PROVE  TypeOK' /\ Agreement'
    BY <2>3 DEF ClientTurns, sessionVars, registryVars, ghosts, TypeOK, Agreement
  <2>4. ASSUME NEW c \in Conns, Accept(c)
        PROVE  TypeOK' /\ Agreement'
    <3>1. PICK f \in Fds \ OpenFds : fd' = [fd EXCEPT ![c] = f]
      BY <2>4 DEF Accept
    <3>2. /\ pc[c] \in {"new", "destroyed"} /\ c \notin early
          /\ pc' = [pc EXCEPT ![c] = "queued"] /\ UNCHANGED <<nickname, sessions, nickToFd, early>>
      BY <2>4 DEF Accept, Unused, Goto, registryVars, ghosts, Agreement
    <3>3. \A d \in Conns : fd[d] # f
      BY <3>1, Nothing DEF OpenFds
    <3> QED
      BY <3>1, <3>2, <3>3, Nothing DEF TypeOK, Agreement, InRegistry, Named
  <2>5. ASSUME NEW c \in Conns, AddSession(c)
        PROVE  TypeOK' /\ Agreement'
    <3>1. /\ pc[c] = "queued" /\ pc' = [pc EXCEPT ![c] = "hello"]
          /\ sessions' = [sessions EXCEPT ![fd[c]] = c] /\ UNCHANGED <<fd, nickname, nickToFd, early>>
      BY <2>5 DEF AddSession, Goto, ghosts
    <3>2. c \notin early /\ fd[c] \in Fds
      BY <3>1 DEF TypeOK, Agreement
    <3> QED
      BY <3>1, <3>2 DEF TypeOK, Agreement, InRegistry, Named
  <2>6. ASSUME NEW c \in Conns, RegisterNickname(c)
        PROVE  TypeOK' /\ Agreement'
    <3>1. PICK p \in {"offline", "loop"} : pc' = [pc EXCEPT ![c] = p]
      BY <2>6 DEF RegisterNickname, Goto
    <3>2. /\ pc[c] = "register" /\ nickToFd' = [nickToFd EXCEPT ![nickname[c]] = fd[c]]
          /\ UNCHANGED <<fd, nickname, sessions, early>>
      BY <2>6 DEF RegisterNickname, ghosts
    <3>3. nickname[c] \in Nicks
      BY DEF TypeOK
    <3> QED
      BY <3>1, <3>2, <3>3 DEF TypeOK, Agreement, InRegistry, Named
  <2>7. ASSUME NEW c \in Conns, AuthRefuses(c), early' # early
        PROVE  TypeOK' /\ Agreement'
    <3>1. /\ pc[c] = "auth" /\ pc' = [pc EXCEPT ![c] = "cleanup"]
          /\ fd' = [fd EXCEPT ![c] = NoFd] /\ early' = early \cup {c}
          /\ UNCHANGED <<nickname, sessions, nickToFd>>
      BY <2>7 DEF AuthRefuses, Goto, registryVars
    <3> QED
      BY <3>1 DEF TypeOK, Agreement, InRegistry, Named
  <2>8. ASSUME NEW c \in Conns, pc[c] \in {"loop", "sending"}, Bye(c) \/ Unexpected(c)
        PROVE  TypeOK' /\ Agreement'
    <3>1. \E p \in {"cleanup", "destroyed"} :
            /\ pc' = [pc EXCEPT ![c] = p] /\ fd' = [fd EXCEPT ![c] = NoFd]
            /\ nickname' = nickname \/ nickname' = [nickname EXCEPT ![c] = EmptyNick]
            /\ early' = early \cup {c} /\ UNCHANGED <<sessions, nickToFd>>
      BY <2>8 DEF Bye, Unexpected, DestroySession, Goto, registryVars
    <3> QED
      BY <2>8, <3>1, Nothing DEF TypeOK, Agreement, InRegistry, Named
  <2>9. ASSUME NEW c \in Conns, Remove(c)
        PROVE  TypeOK' /\ Agreement'
    <3>1. /\ pc[c] = "cleanup" /\ pc' = [pc EXCEPT ![c] = "closing"]
          /\ nickToFd' = [n \in Nicks |-> IF nickToFd[n] = fd[c] THEN NoFd ELSE nickToFd[n]]
          /\ sessions' = [f \in Fds |-> IF f = fd[c] THEN NoConn ELSE sessions[f]]
          /\ UNCHANGED <<fd, nickname, early>>
      BY <2>9 DEF Remove, Goto, ghosts
    <3> QED
      BY <3>1, Nothing DEF TypeOK, Agreement, InRegistry, Named
  <2>10. ASSUME NEW c \in Conns, Destroy(c)
         PROVE  TypeOK' /\ Agreement'
    <3>1. /\ pc[c] = "closing"
          /\ pc' = [pc EXCEPT ![c] = "destroyed"] /\ fd' = [fd EXCEPT ![c] = NoFd]
          /\ nickname' = [nickname EXCEPT ![c] = EmptyNick]
          /\ UNCHANGED <<sessions, nickToFd, early>>
      BY <2>10 DEF Destroy, DestroySession, Goto, registryVars, ghosts
    <3> QED
      BY <3>1, Nothing DEF TypeOK, Agreement, InRegistry, Named
  <2>11. ASSUME NEW c \in Conns, AuthRefuses(c), early' = early
         PROVE  Advance(c)
    <3>1. CASE UNCHANGED fd
      BY <2>11, <3>1, HandlersAdvance
    <3>2. CASE ~UNCHANGED fd
      BY <2>11, <3>2 DEF AuthRefuses, Agreement, TypeOK
    <3> QED
      BY <3>1, <3>2
  <2>12. ASSUME NEW c \in Conns, OverflowPayload(c)
         PROVE  TypeOK' /\ Agreement'
    BY <2>12 DEF OverflowPayload, sessionVars, registryVars, ghosts, TypeOK, Agreement
  <2> QED
    BY <2>1, <2>2, <2>3, <2>4, <2>5, <2>6, <2>7, <2>8, <2>9, <2>10, <2>11, <2>12, HandlersAdvance, HandleCases
       DEF Next, HandlerStep
<1> QED
  BY <1>1, <1>2, PTL DEF SafeSpec

\* Whatever clients send and whenever they leave, the registry leads to open sessions
\* only, each under its own descriptor, but for those that have ended early.
THEOREM EarlierOnlyEarlyExitsStay == SafeSpec => []OnlyEarlyExitsStay
<1>1. TypeOK /\ Agreement => OnlyEarlyExitsStay
  BY Nothing DEF TypeOK, Agreement, OnlyEarlyExitsStay, Open, InRegistry, Named
<1> QED
  BY <1>1, RegistryAgrees, PTL

------------------------------------------------------------------------------
(* The queues of lab 5 *)

FateTypes ==
  /\ sent \in Nat
  /\ offline \in [Nicks -> Seq(Nat)]
  /\ out \in Seq(Nat \X Nicks)
  /\ queued \subseteq 1 .. sent

\* What has become of the messages: a queued one waits, in the queue of one nickname
\* and once, or has been written, once; what waits for a nickname is younger than
\* whatever of its queue has been written.
Fate ==
  /\ \A i \in DOMAIN out : out[i][1] \in 1 .. sent
  /\ \A n \in Nicks : \A i \in DOMAIN offline[n] : offline[n][i] \in queued
  /\ \A id \in queued : \/ \E n \in Nicks : \E i \in DOMAIN offline[n] : offline[n][i] = id
                        \/ \E i \in DOMAIN out : out[i][1] = id
  /\ \A n \in Nicks : \A i \in DOMAIN offline[n], j \in DOMAIN out : offline[n][i] # out[j][1]
  /\ \A n, m \in Nicks : n # m =>
       \A i \in DOMAIN offline[n], j \in DOMAIN offline[m] : offline[n][i] # offline[m][j]
  /\ \A n \in Nicks : \A i, j \in DOMAIN offline[n] : i < j => offline[n][i] < offline[n][j]
  /\ \A i, j \in DOMAIN out : i < j => out[i][1] # out[j][1]
  /\ \A i, j \in DOMAIN out :
       i < j /\ out[i][1] \in queued /\ out[j][1] \in queued /\ out[i][2] = out[j][2]
         => out[i][1] < out[j][1]
  /\ \A i \in DOMAIN out, n \in Nicks : out[i][1] \in queued /\ out[i][2] = n =>
       \A j \in DOMAIN offline[n] : out[i][1] < offline[n][j]

\* What a step can do to the messages: nothing; write the newest; queue the newest; or
\* write the first k messages of a queue.
Rests == UNCHANGED <<offline, out, queued>> /\ sent' \in Nat /\ sent <= sent'
Forwards ==
  /\ \E k \in Nicks : out' = Append(out, <<sent + 1, k>>)
  /\ sent' = sent + 1 /\ UNCHANGED <<offline, queued>>
Enqueues ==
  /\ \E n \in Nicks : offline' = [offline EXCEPT ![n] = Append(@, sent + 1)]
  /\ queued' = queued \cup {sent + 1} /\ sent' = sent + 1 /\ UNCHANGED out
HandsOver ==
  /\ \E n \in Nicks : \E k \in 0 .. Len(offline[n]) :
       /\ offline' = [offline EXCEPT ![n] = SubSeq(offline[n], k + 1, Len(offline[n]))]
       /\ out' = out \o [i \in 1 .. k |-> <<offline[n][i], n>>]
  /\ UNCHANGED <<queued, sent>>

\* sendPrivate() leads to a session, and the nickname of that session is written to.
LEMMA PrivateCases ==
  ASSUME TypeOK, FateTypes, NEW c \in Conns, NEW m \in Msgs, m.id = sent + 1, sent' = sent + 1,
         Lab4Private(c, m) \/ Lab5Private(c, m)
  PROVE  Rests \/ Forwards \/ Enqueues
<1>1. ASSUME Forward(c, m), UNCHANGED <<offline, queued>>
      PROVE  Rests \/ Forwards
  <2>1. PICK t \in Receivers(c, m) : out' = out \/ out' = Append(out, <<m.id, nickname[t]>>)
    BY <1>1 DEF Forward
  <2>2. t \in Conns
    BY Nothing DEF Receivers, Found, TypeOK, Msgs
  <2>3. nickname[t] \in Nicks
    BY <2>2 DEF TypeOK
  <2> QED
    BY <1>1, <2>1, <2>3 DEF Rests, Forwards, FateTypes
<1>2. CASE Lab4Private(c, m)
  BY <1>1, <1>2 DEF Lab4Private, Rests, FateTypes, registryVars
<1>3. CASE Lab5Private(c, m)
  <2>1. \/ /\ offline' = [offline EXCEPT ![m.to] = Append(@, m.id)]
           /\ queued' = queued \cup {m.id} /\ UNCHANGED out
        \/ UNCHANGED <<offline, queued, out>>
        \/ Forward(c, m) /\ UNCHANGED <<offline, queued>>
    BY <1>3, Zenon DEF Lab5Private
  <2>2. CASE /\ offline' = [offline EXCEPT ![m.to] = Append(@, m.id)]
             /\ queued' = queued \cup {m.id} /\ UNCHANGED out
    <3>1. m.to \in Nicks
      BY DEF Msgs
    <3> QED
      BY <2>2, <3>1 DEF Enqueues
  <2>3. CASE UNCHANGED <<offline, queued, out>>
    BY <2>3 DEF Rests, FateTypes
  <2> QED
    BY <1>1, <2>1, <2>2, <2>3
<1> QED
  BY <1>2, <1>3

\* No step does anything else to the messages.
LEMMA StepFates ==
  ASSUME TypeOK, FateTypes, [Next]_vars
  PROVE  Rests \/ Forwards \/ Enqueues \/ HandsOver
<1>1. CASE UNCHANGED vars
  BY <1>1 DEF vars, clientVars, inputVars, registryVars, ghosts, Rests, FateTypes
<1>2. ASSUME NEW c \in Conns, Handle(c) \/ GoesOn(c)
      PROVE  Rests \/ Forwards \/ Enqueues
  <2>1. PICK m \in Msgs : m.id = sent + 1 /\ Branch(c, m)
    BY <1>2 DEF Handle, GoesOn, Current
  <2>2. sent' = sent + 1
    BY <1>2 DEF Handle, GoesOn
  <2>3. Lab4Private(c, m) \/ Lab5Private(c, m) => Rests \/ Forwards \/ Enqueues
    BY <2>1, <2>2, PrivateCases
  <2>4. Broadcast(c, m) \/ Answer(c) \/ Ignore \/ Bye(c) \/ Unexpected(c) => UNCHANGED <<offline, out, queued>>
    BY DEF Broadcast, Answer, Ignore, Bye, Unexpected, registryVars, ghosts
  <2>5. UNCHANGED <<offline, out, queued>> => Rests
    BY <2>2 DEF Rests, FateTypes
  <2>6. \/ Lab4Private(c, m) \/ Lab5Private(c, m)
        \/ Broadcast(c, m) \/ Answer(c) \/ Ignore \/ Bye(c) \/ Unexpected(c)
    BY <2>1, Zenon DEF Branch, Lab3Branch, Lab4Branch, Lab5Branch
  <2> QED
    BY <2>3, <2>4, <2>5, <2>6, Zenon
<1>3. ASSUME NEW c \in Conns, DeliverOffline(c)
      PROVE  HandsOver
  <2>1. nickname[c] \in Nicks
    BY DEF TypeOK
  <2> QED
    BY <1>3, <2>1 DEF DeliverOffline, HandsOver, clientVars, inputVars
<1>4. ASSUME NEW c \in Conns,
             \/ Accept(c) \/ AddSession(c) \/ HelloThrows(c) \/ SendWelcome(c) \/ RegisterNickname(c)
             \/ RecvHello(c) \/ HandleZeros(c) \/ Disconnected(c) \/ Remove(c) \/ Destroy(c)
             \/ AuthAccepts(c) \/ AuthRefuses(c) \/ AuthThrows(c) \/ Blocks(c) \/ OverflowPayload(c)
             \/ ClientTurns(c)
      PROVE  Rests
  <2>1. UNCHANGED <<offline, out, queued, sent>>
    BY <1>4 DEF Accept, AddSession, HelloThrows, SendWelcome, RegisterNickname, RecvHello,
       HandleZeros, Unexpected, Disconnected, Remove, Destroy, AuthAccepts, AuthRefuses, AuthThrows,
       Blocks, OverflowPayload, ClientTurns, clientVars, inputVars, registryVars, ghosts
  <2> QED
    BY <2>1 DEF Rests, FateTypes
<1> QED
  BY <1>1, <1>2, <1>3, <1>4 DEF Next, HandlerStep

\* A message that is written at once is not a queued one.
LEMMA ForwardsKeeps ==
  ASSUME FateTypes, Fate, Forwards
  PROVE  FateTypes' /\ Fate'
<1>1. PICK k \in Nicks : out' = Append(out, <<sent + 1, k>>)
  BY DEF Forwards
<1>2. sent' = sent + 1 /\ UNCHANGED <<offline, queued>>
  BY DEF Forwards
<1>3. <<sent + 1, k>> \in Nat \X Nicks
  BY DEF FateTypes
<1>4. /\ out' \in Seq(Nat \X Nicks)
      /\ out'[Len(out) + 1] = <<sent + 1, k>>
      /\ \A i \in DOMAIN out : i \in DOMAIN out' /\ out'[i] = out[i]
      /\ \A i \in DOMAIN out' : i \in DOMAIN out \/ i = Len(out) + 1
  BY <1>1, <1>3, AppendElements DEF FateTypes
<1>5. Len(out) \in Nat /\ DOMAIN out = 1 .. Len(out)
  BY Elements DEF FateTypes
<1>6. FateTypes'
  BY <1>2, <1>4 DEF FateTypes
<1>7. \A id \in queued : id # sent + 1 /\ id \in 1 .. sent
  BY DEF FateTypes
<1>8. \A i \in DOMAIN out' : (i \in DOMAIN out /\ out'[i] = out[i] /\ out[i][1] \in 1 .. sent)
                             \/ (i = Len(out) + 1 /\ out'[i][1] = sent + 1)
  BY <1>4 DEF Fate
<1>9. (\A i \in DOMAIN out : out[i][1] \in 1 .. sent)'
  BY <1>2, <1>8 DEF FateTypes
<1>10. (\A n \in Nicks : \A i \in DOMAIN offline[n], j \in DOMAIN out : offline[n][i] # out[j][1])'
  BY <1>2, <1>7, <1>8 DEF Fate
<1>11. (\A i, j \in DOMAIN out : i < j => out[i][1] # out[j][1])'
  <2> SUFFICES ASSUME NEW i \in DOMAIN out', NEW j \in DOMAIN out', i < j
               PROVE  out'[i][1] # out'[j][1]
    OBVIOUS
  <2>1. i \in DOMAIN out /\ out'[i] = out[i] /\ out[i][1] \in 1 .. sent /\ out[i][1] # sent + 1
    BY <1>5, <1>8 DEF FateTypes
  <2>2. CASE j \in DOMAIN out /\ out'[j] = out[j]
    BY <2>1, <2>2 DEF Fate
  <2>3. CASE out'[j][1] = sent + 1
    BY <2>1, <2>3
  <2> QED
    BY <1>8, <2>2, <2>3
<1>12. (\A i, j \in DOMAIN out :
         i < j /\ out[i][1] \in queued /\ out[j][1] \in queued /\ out[i][2] = out[j][2]
           => out[i][1] < out[j][1])'
  BY <1>2, <1>7, <1>8 DEF Fate
<1>13. (\A i \in DOMAIN out, n \in Nicks : out[i][1] \in queued /\ out[i][2] = n =>
         \A j \in DOMAIN offline[n] : out[i][1] < offline[n][j])'
  BY <1>2, <1>7, <1>8 DEF Fate
<1>14. (\A id \in queued : \/ \E n \in Nicks : \E i \in DOMAIN offline[n] : offline[n][i] = id
                           \/ \E i \in DOMAIN out : out[i][1] = id)'
  BY <1>2, <1>4 DEF Fate
<1> QED
  BY <1>2, <1>6, <1>9, <1>10, <1>11, <1>12, <1>13, <1>14 DEF Fate

\* A message that is queued is younger than any other and waits nowhere else.
LEMMA EnqueuesKeeps ==
  ASSUME FateTypes, Fate, Enqueues
  PROVE  FateTypes' /\ Fate'
<1>1. PICK n \in Nicks : offline' = [offline EXCEPT ![n] = Append(@, sent + 1)]
  BY DEF Enqueues
<1>2. queued' = queued \cup {sent + 1} /\ sent' = sent + 1 /\ UNCHANGED out
  BY DEF Enqueues
<1>3. offline[n] \in Seq(Nat) /\ sent + 1 \in Nat
  BY DEF FateTypes
<1>4. /\ offline'[n] = Append(offline[n], sent + 1)
      /\ \A m \in Nicks : m # n => offline'[m] = offline[m]
      /\ offline' \in [Nicks -> Seq(Nat)]
  BY <1>1, <1>3, AppendProperties DEF FateTypes
<1>5. /\ offline'[n][Len(offline[n]) + 1] = sent + 1
      /\ Len(offline[n]) + 1 \in DOMAIN offline'[n]
      /\ \A i \in DOMAIN offline[n] : i \in DOMAIN offline'[n] /\ offline'[n][i] = offline[n][i]
      /\ \A i \in DOMAIN offline'[n] : i \in DOMAIN offline[n] \/ i = Len(offline[n]) + 1
      /\ Len(offline[n]) \in Nat /\ DOMAIN offline[n] = 1 .. Len(offline[n])
  BY <1>3, <1>4, AppendElements, Elements
<1>6. FateTypes'
  BY <1>2, <1>4 DEF FateTypes
\* A place in a queue is an old one, or the last of n's.
<1>7. \A m \in Nicks : \A i \in DOMAIN offline'[m] :
        \/ i \in DOMAIN offline[m] /\ offline'[m][i] = offline[m][i] /\ offline[m][i] \in queued
        \/ m = n /\ i = Len(offline[n]) + 1 /\ offline'[m][i] = sent + 1
  BY <1>4, <1>5 DEF Fate
<1>8. \A id \in queued : id \in Nat /\ id < sent + 1
  BY DEF FateTypes
<1>9. \A i \in DOMAIN out : out[i][1] \in 1 .. sent /\ out[i][1] < sent + 1
  BY DEF FateTypes, Fate
<1>10. (\A i \in DOMAIN out : out[i][1] \in 1 .. sent)'
  BY <1>2, <1>9 DEF FateTypes
<1>11. (\A m \in Nicks : \A i \in DOMAIN offline[m] : offline[m][i] \in queued)'
  BY <1>2, <1>7
<1>12. (\A id \in queued : \/ \E m \in Nicks : \E i \in DOMAIN offline[m] : offline[m][i] = id
                           \/ \E i \in DOMAIN out : out[i][1] = id)'
  <2> SUFFICES ASSUME NEW id \in queued', ~(\E i \in DOMAIN out' : out'[i][1] = id)
               PROVE  \E m \in Nicks : \E i \in DOMAIN offline'[m] : offline'[m][i] = id
    OBVIOUS
  <2>1. CASE id = sent + 1
    BY <1>5, <2>1
  <2>2. CASE id # sent + 1
    <3>1. PICK m \in Nicks : \E i \in DOMAIN offline[m] : offline[m][i] = id
      BY <1>2, <2>2 DEF Fate
    <3>2. PICK i \in DOMAIN offline[m] : offline[m][i] = id
      BY <3>1
    <3>3. i \in DOMAIN offline'[m] /\ offline'[m][i] = id
      BY <1>4, <1>5, <3>2
    <3> QED
      BY <3>3
  <2> QED
    BY <2>1, <2>2
<1>13. (\A m \in Nicks : \A i \in DOMAIN offline[m], j \in DOMAIN out : offline[m][i] # out[j][1])'
  BY <1>2, <1>7, <1>9 DEF Fate
<1>14. (\A l, m \in Nicks : l # m =>
         \A i \in DOMAIN offline[l], j \in DOMAIN offline[m] : offline[l][i] # offline[m][j])'
  BY <1>7, <1>8 DEF Fate
<1>15. (\A m \in Nicks : \A i, j \in DOMAIN offline[m] : i < j => offline[m][i] < offline[m][j])'
  <2> SUFFICES ASSUME NEW m \in Nicks, NEW i \in DOMAIN offline'[m], NEW j \in DOMAIN offline'[m], i < j
               PROVE  offline'[m][i] < offline'[m][j]
    OBVIOUS
  <2>1. i \in DOMAIN offline[m] /\ offline'[m][i] = offline[m][i] /\ offline[m][i] \in queued
    BY <1>5, <1>7
  <2> QED
    BY <1>7, <1>8, <2>1 DEF Fate
<1>16. (\A i, j \in DOMAIN out :
         i < j /\ out[i][1] \in queued /\ out[j][1] \in queued /\ out[i][2] = out[j][2]
           => out[i][1] < out[j][1])'
  BY <1>2, <1>9 DEF Fate
<1>17. (\A i \in DOMAIN out, m \in Nicks : out[i][1] \in queued /\ out[i][2] = m =>
         \A j \in DOMAIN offline[m] : out[i][1] < offline[m][j])'
  BY <1>2, <1>7, <1>9 DEF Fate
<1>18. (\A i, j \in DOMAIN out : i < j => out[i][1] # out[j][1])'
  BY <1>2 DEF Fate
<1> QED
  BY <1>6, <1>10, <1>11, <1>12, <1>13, <1>14, <1>15, <1>16, <1>17, <1>18 DEF Fate

\* Writing the first k messages of a queue moves them, in their order, behind what has
\* been written; the queue keeps the others.
LEMMA HandsOverKeeps ==
  ASSUME FateTypes, Fate, HandsOver
  PROVE  FateTypes' /\ Fate'
<1>1. PICK n \in Nicks : \E k \in 0 .. Len(offline[n]) :
        /\ offline' = [offline EXCEPT ![n] = SubSeq(offline[n], k + 1, Len(offline[n]))]
        /\ out' = out \o [i \in 1 .. k |-> <<offline[n][i], n>>]
  BY DEF HandsOver
<1>2. PICK k \in 0 .. Len(offline[n]) :
        /\ offline' = [offline EXCEPT ![n] = SubSeq(offline[n], k + 1, Len(offline[n]))]
        /\ out' = out \o [i \in 1 .. k |-> <<offline[n][i], n>>]
  BY <1>1
<1>3. UNCHANGED <<queued, sent>>
  BY DEF HandsOver
<1> DEFINE q == offline[n]
           new == [i \in 1 .. k |-> <<q[i], n>>]
<1>4. /\ q \in Seq(Nat) /\ Len(q) \in Nat /\ DOMAIN q = 1 .. Len(q)
      /\ \A i \in DOMAIN q : q[i] \in Nat
      /\ out \in Seq(Nat \X Nicks) /\ Len(out) \in Nat /\ DOMAIN out = 1 .. Len(out)
  BY Elements DEF FateTypes
<1>5. k \in Nat /\ k <= Len(q) /\ 1 .. k \subseteq DOMAIN q
  BY <1>4
<1>6. new \in Seq(Nat \X Nicks) /\ Len(new) = k /\ DOMAIN new = 1 .. k
  <2>1. \A i \in 1 .. k : <<q[i], n>> \in Nat \X Nicks
    BY <1>4, <1>5 DEF Nicks
  <2>2. new \in Seq(Nat \X Nicks)
    BY <1>5, <2>1, SMT
  <2> QED
    BY <1>5, <2>2, LenProperties
<1>7. /\ out' \in Seq(Nat \X Nicks)
      /\ \A i \in DOMAIN out : i \in DOMAIN out' /\ out'[i] = out[i]
      /\ \A i \in 1 .. k : Len(out) + i \in DOMAIN out' /\ out'[Len(out) + i] = <<q[i], n>>
      /\ \A i \in DOMAIN out' : i \in DOMAIN out \/ (i > Len(out) /\ i - Len(out) \in 1 .. k)
  <2>1. out' = out \o new /\ \A i \in 1 .. k : new[i] = <<q[i], n>>
    BY <1>2
  <2> HIDE DEF new
  <2> QED
    BY <1>4, <1>6, <2>1, ConcatElements
<1>8. /\ offline' \in [Nicks -> Seq(Nat)]
      /\ \A m \in Nicks : m # n => offline'[m] = offline[m]
      /\ DOMAIN offline'[n] = 1 .. Len(q) - k
      /\ \A i \in 1 .. Len(q) - k : k + i \in DOMAIN q /\ offline'[n][i] = q[k + i]
  BY <1>2, <1>4, DropElements DEF FateTypes
<1>9. FateTypes'
  BY <1>3, <1>7, <1>8 DEF FateTypes
\* A place in a queue is an old one, k places forward if the queue is n's.
<1>10. \A m \in Nicks : m # n => \A i \in DOMAIN offline'[m] :
         i \in DOMAIN offline[m] /\ offline'[m][i] = offline[m][i]
  BY <1>8
<1>11. \A i \in DOMAIN offline'[n] :
         i \in Nat /\ i > 0 /\ k + i \in DOMAIN q /\ offline'[n][i] = q[k + i]
  <2> TAKE i \in DOMAIN offline'[n]
  <2>1. i \in 1 .. Len(q) - k
    BY <1>8
  <2>2. i \in Nat /\ i > 0
    BY <1>4, <1>5, <2>1
  <2> QED
    BY <1>8, <2>1, <2>2
\* A place in what has been written is an old one, or that of one of the first k.
<1>12. \A i \in DOMAIN out' :
         \/ i \in DOMAIN out /\ out'[i] = out[i]
         \/ /\ i \in Nat /\ i > Len(out) /\ i - Len(out) \in 1 .. k /\ i - Len(out) \in DOMAIN q
            /\ out'[i][1] = q[i - Len(out)] /\ out'[i][2] = n
  <2> TAKE i \in DOMAIN out'
  <2>1. CASE i \in DOMAIN out
    BY <1>7, <2>1
  <2>2. CASE i > Len(out) /\ i - Len(out) \in 1 .. k
    <3>1. i \in Nat
      BY <1>7, Elements
    <3>2. Len(out) + (i - Len(out)) = i
      BY <1>4, <3>1
    <3>3. out'[i] = <<q[i - Len(out)], n>>
      BY <1>7, <2>2, <3>2
    <3> QED
      BY <1>5, <2>2, <3>1, <3>3
  <2> QED
    BY <1>7, <2>1, <2>2
<1> HIDE DEF q, new
<1>13. q = offline[n]
  BY DEF q
<1>14. (\A i \in DOMAIN out : out[i][1] \in 1 .. sent)'
  BY <1>3, <1>12, <1>13 DEF Fate, FateTypes
<1>15. (\A m \in Nicks : \A i \in DOMAIN offline[m] : offline[m][i] \in queued)'
  BY <1>3, <1>10, <1>11, <1>13 DEF Fate
<1>16. (\A id \in queued : \/ \E m \in Nicks : \E i \in DOMAIN offline[m] : offline[m][i] = id
                           \/ \E i \in DOMAIN out : out[i][1] = id)'
  <2> SUFFICES ASSUME NEW id \in queued, ~(\E i \in DOMAIN out' : out'[i][1] = id)
               PROVE  \E m \in Nicks : \E i \in DOMAIN offline'[m] : offline'[m][i] = id
    BY <1>3
  <2>1. ~(\E i \in DOMAIN out : out[i][1] = id)
    BY <1>7
  <2>2. PICK m \in Nicks : \E i \in DOMAIN offline[m] : offline[m][i] = id
    BY <2>1 DEF Fate
  <2>3. CASE m # n
    BY <1>8, <2>2, <2>3
  <2>4. CASE m = n
    <3>1. PICK i \in DOMAIN q : q[i] = id
      BY <1>13, <2>2, <2>4
    <3>2. ~(i \in 1 .. k)
      BY <1>7, <3>1
    <3>3. i - k \in 1 .. Len(q) - k /\ k + (i - k) = i
      BY <1>4, <1>5, <3>2
    <3>4. i - k \in DOMAIN offline'[n] /\ offline'[n][i - k] = id
      BY <1>8, <3>1, <3>3
    <3> QED
      BY <3>4
  <2> QED
    BY <2>3, <2>4
<1>17. (\A m \in Nicks : \A i \in DOMAIN offline[m], j \in DOMAIN out : offline[m][i] # out[j][1])'
  <2> SUFFICES ASSUME NEW m \in Nicks, NEW i \in DOMAIN offline'[m], NEW j \in DOMAIN out'
               PROVE  offline'[m][i] # out'[j][1]
    OBVIOUS
  <2>1. CASE j \in DOMAIN out /\ out'[j] = out[j]
    BY <1>10, <1>11, <1>13, <2>1 DEF Fate
  <2>2. CASE j - Len(out) \in 1 .. k /\ j - Len(out) \in DOMAIN q /\ out'[j][1] = q[j - Len(out)]
    <3>1. CASE m # n
      BY <1>10, <1>13, <2>2, <3>1 DEF Fate
    <3>2. CASE m = n
      <4>1. i \in Nat /\ i > 0 /\ k + i \in DOMAIN q /\ offline'[n][i] = q[k + i]
        BY <1>11, <3>2
      <4>2. j - Len(out) < k + i
        BY <1>5, <2>2, <4>1
      <4>3. q[j - Len(out)] < q[k + i]
        BY <1>13, <2>2, <4>1, <4>2 DEF Fate
      <4> QED
        BY <1>4, <2>2, <3>2, <4>1, <4>3
    <3> QED
      BY <3>1, <3>2
  <2> QED
    BY <1>12, <2>1, <2>2
<1>18. (\A l, m \in Nicks : l # m =>
         \A i \in DOMAIN offline[l], j \in DOMAIN offline[m] : offline[l][i] # offline[m][j])'
  BY <1>10, <1>11, <1>13 DEF Fate
<1>19. (\A m \in Nicks : \A i, j \in DOMAIN offline[m] : i < j => offline[m][i] < offline[m][j])'
  <2> SUFFICES ASSUME NEW m \in Nicks, NEW i \in DOMAIN offline'[m], NEW j \in DOMAIN offline'[m], i < j
               PROVE  offline'[m][i] < offline'[m][j]
    OBVIOUS
  <2>1. CASE m # n
    BY <1>10, <2>1 DEF Fate
  <2>2. CASE m = n
    <3>1. k + i \in DOMAIN q /\ k + j \in DOMAIN q /\ k + i < k + j
      BY <1>5, <1>11, <2>2
    <3> QED
      BY <1>11, <1>13, <2>2, <3>1 DEF Fate
  <2> QED
    BY <2>1, <2>2
<1>20. (\A i, j \in DOMAIN out : i < j => out[i][1] # out[j][1])'
  <2> SUFFICES ASSUME NEW i \in DOMAIN out', NEW j \in DOMAIN out', i < j
               PROVE  out'[i][1] # out'[j][1]
    OBVIOUS
  <2>1. CASE j \in DOMAIN out
    <3>1. i \in DOMAIN out
      BY <1>4, <1>12, <2>1
    <3> QED
      BY <1>7, <2>1, <3>1 DEF Fate
  <2>2. CASE i \in DOMAIN out /\ j \notin DOMAIN out
    BY <1>7, <1>12, <1>13, <2>2 DEF Fate
  <2>3. CASE i \notin DOMAIN out /\ j \notin DOMAIN out
    <3>1. /\ i - Len(out) \in DOMAIN q /\ out'[i][1] = q[i - Len(out)]
          /\ j - Len(out) \in DOMAIN q /\ out'[j][1] = q[j - Len(out)]
          /\ i - Len(out) < j - Len(out)
      BY <1>4, <1>12, <2>3
    <3> QED
      BY <1>4, <1>13, <3>1 DEF Fate
  <2> QED
    BY <2>1, <2>2, <2>3
<1>21. (\A i, j \in DOMAIN out :
         i < j /\ out[i][1] \in queued /\ out[j][1] \in queued /\ out[i][2] = out[j][2]
           => out[i][1] < out[j][1])'
  <2> SUFFICES ASSUME NEW i \in DOMAIN out', NEW j \in DOMAIN out', i < j, out'[i][1] \in queued,
                      out'[j][1] \in queued, out'[i][2] = out'[j][2]
               PROVE  out'[i][1] < out'[j][1]
    BY <1>3
  <2>1. CASE j \in DOMAIN out
    <3>1. i \in DOMAIN out
      BY <1>4, <1>12, <2>1
    <3> QED
      BY <1>7, <2>1, <3>1 DEF Fate
  <2>2. CASE i \in DOMAIN out /\ j \notin DOMAIN out
    <3>1. /\ out'[i] = out[i] /\ out[i][1] \in queued /\ out[i][2] = n
          /\ j - Len(out) \in DOMAIN q /\ out'[j][1] = q[j - Len(out)]
      BY <1>7, <1>12, <2>2
    <3>2. \A l \in DOMAIN offline[n] : out[i][1] < offline[n][l]
      BY <2>2, <3>1 DEF Fate
    <3> QED
      BY <1>13, <3>1, <3>2
  <2>3. CASE i \notin DOMAIN out /\ j \notin DOMAIN out
    <3>1. /\ i - Len(out) \in DOMAIN q /\ out'[i][1] = q[i - Len(out)]
          /\ j - Len(out) \in DOMAIN q /\ out'[j][1] = q[j - Len(out)]
          /\ i - Len(out) < j - Len(out)
      BY <1>4, <1>12, <2>3
    <3> QED
      BY <1>13, <3>1 DEF Fate
  <2> QED
    BY <2>1, <2>2, <2>3
<1>22. (\A i \in DOMAIN out, m \in Nicks : out[i][1] \in queued /\ out[i][2] = m =>
         \A j \in DOMAIN offline[m] : out[i][1] < offline[m][j])'
  <2> SUFFICES ASSUME NEW i \in DOMAIN out', NEW m \in Nicks, out'[i][1] \in queued, out'[i][2] = m,
                      NEW j \in DOMAIN offline'[m]
               PROVE  out'[i][1] < offline'[m][j]
    BY <1>3
  <2>1. CASE i \in DOMAIN out
    <3>1. out'[i] = out[i] /\ \A l \in DOMAIN offline[m] : out[i][1] < offline[m][l]
      BY <1>7, <2>1 DEF Fate
    <3> QED
      BY <1>10, <1>11, <1>13, <3>1
  <2>2. CASE i \notin DOMAIN out
    <3>1. m = n /\ i - Len(out) \in 1 .. k /\ i - Len(out) \in DOMAIN q /\ out'[i][1] = q[i - Len(out)]
      BY <1>12, <2>2
    <3>2. j \in Nat /\ j > 0 /\ k + j \in DOMAIN q /\ offline'[n][j] = q[k + j]
      BY <1>11, <3>1
    <3>3. i - Len(out) < k + j
      BY <1>5, <3>1, <3>2
    <3> QED
      BY <1>13, <3>1, <3>2, <3>3 DEF Fate
  <2> QED
    BY <2>1, <2>2
<1> QED
  BY <1>9, <1>14, <1>15, <1>16, <1>17, <1>18, <1>19, <1>20, <1>21, <1>22 DEF Fate

\* Lab 5 writes a queued message at most once and drops none, and those for one
\* nickname are written in the order they came in, whoever comes, leaves or fails.
THEOREM EarlierQueuedOnceInOrder == SafeSpec => []QueuedOnceInOrder
<1>1. Init => FateTypes /\ Fate
  <2> SUFFICES ASSUME Init PROVE FateTypes /\ Fate
    OBVIOUS
  <2>1. /\ sent = 0 /\ out = <<>> /\ queued = {}
        /\ offline = [n \in Nicks |-> <<>>]
    BY DEF Init
  <2>2. out \in Seq(Nat \X Nicks) /\ DOMAIN out = {}
    BY <2>1
  <2>3. offline \in [Nicks -> Seq(Nat)] /\ \A n \in Nicks : DOMAIN offline[n] = {}
    BY <2>1
  <2> QED
    BY <2>1, <2>2, <2>3 DEF FateTypes, Fate
<1>2. TypeOK /\ FateTypes /\ Fate /\ [Next]_vars => FateTypes' /\ Fate'
  <2> SUFFICES ASSUME TypeOK, FateTypes, Fate, [Next]_vars
               PROVE  FateTypes' /\ Fate'
    OBVIOUS
  <2>1. CASE Rests
    BY <2>1 DEF Rests, FateTypes, Fate
  <2> QED
    BY <2>1, StepFates, ForwardsKeeps, EnqueuesKeeps, HandsOverKeeps
<1>3. FateTypes /\ Fate => QueuedOnceInOrder
  <2> SUFFICES ASSUME FateTypes, Fate PROVE QueuedOnceInOrder
    OBVIOUS
  <2>1. IdsWaiting \cup (queued \cap IdsWritten) = queued
    BY DEF IdsWaiting, IdsWritten, Fate
  <2>2. IdsWaiting \cap IdsWritten = {}
    BY DEF IdsWaiting, IdsWritten, Fate
  <2> QED
    BY <2>1, <2>2 DEF QueuedOnceInOrder, Fate
<1> QED
  BY <1>1, <1>2, <1>3, RegistryAgrees, PTL DEF SafeSpec
===============================================================================
