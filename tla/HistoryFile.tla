------------------------------ MODULE HistoryFile ------------------------------
(***************************************************************************)
(* The history file of labs 5 and 6 and the queue of messages for absent   *)
(* receivers.  Handlers append records and rewrite the whole file under    *)
(* SessionRegistry::_mtx; getHistory() reads the file without a lock, and  *)
(* the process may end at any point (a signal, SIGPIPE) and be started     *)
(* again on the file it has left.                                          *)
(* The file is a sequence of records and line ends.  A record is never     *)
(* written in two pieces (an ofstream writes its buffer and the string that*)
(* does not fit at once), but a long one goes to the file before its line  *)
(* end does.  Every record is appended as delivered and not offline, which *)
(* is what markDelivered() sets: rewriting changes no record, even where   *)
(* ids of several clients coincide, so that a record is its number here.   *)
(* The file may fail to be opened each time; what is written to a file     *)
(* that is open is taken to arrive there.                                  *)
(***************************************************************************)
EXTENDS Naturals, Sequences

CONSTANTS
  Handlers,    \* threads of the pool that append or deliver
  Readers,     \* threads of the pool that answer MSG_HISTORY
  MaxMsgs,     \* bound on the messages handled
  MaxAnswers,  \* bound on the answers to MSG_HISTORY
  MaxCrashes,  \* bound on the ends of the process
  Nobody

ASSUME HistoryAssumption ==
  /\ Nobody \notin Handlers
  /\ MaxMsgs \in Nat /\ MaxAnswers \in Nat /\ MaxCrashes \in Nat

Records == 1 .. MaxMsgs
LineEnd == 0

VARIABLES
  file,      \* what is in the history file
  mtx,       \* the handler that holds SessionRegistry::_mtx
  pc,        \* pc[h]: what handler h does
  lines,     \* lines[h]: markDelivered()'s lines, those not yet written back
  offline,   \* SessionRegistry::_offline_queue, in memory only
  reading,   \* reading[r]: whether getHistory() is running
  pos, got,  \* pos[r], got[r]: how far reader r is and what it has read; then its answer
  messages, answers, crashes,  \* what the bounds count
  appended,  \* history: all records appended, in order
  damaged,   \* history: whether a crash hit a rewrite or came before a line end
  floor      \* history: floor[r] records had been appended when r began, 0 once the file
             \* was rewritten after that

writers == <<mtx, pc, lines, offline>>
readers == <<reading, pos, got, answers, floor>>
vars == <<file, writers, readers, messages, crashes, appended, damaged>>

Init ==
  /\ file = <<>> /\ mtx = Nobody
  /\ pc = [h \in Handlers |-> "idle"]
  /\ lines = [h \in Handlers |-> <<>>]
  /\ offline = <<>>
  /\ reading = [r \in Readers |-> FALSE]
  /\ pos = [r \in Readers |-> 0]
  /\ got = [r \in Readers |-> <<>>]
  /\ messages = 0 /\ answers = 0 /\ crashes = 0
  /\ appended = <<>> /\ damaged = FALSE
  /\ floor = [r \in Readers |-> 0]

\* A line is a record if nothing else is on it: two records without a line end between
\* them do not parse.  The last line needs no end.
IsLine(f, i) ==
  /\ f[i] # LineEnd
  /\ i = 1 \/ f[i - 1] = LineEnd
  /\ i = Len(f) \/ f[i + 1] = LineEnd
Parsed(f) ==
  LET upTo[n \in 0 .. Len(f)] ==
        IF n = 0 THEN <<>> ELSE IF IsLine(f, n) THEN Append(upTo[n - 1], f[n]) ELSE upTo[n - 1]
  IN  upTo[Len(f)]

\* The lines getline() finds, written back with an end each.
Rewritten(f) == IF f # <<>> /\ f[Len(f)] # LineEnd THEN Append(f, LineEnd) ELSE f

Goto(h, p) == pc' = [pc EXCEPT ![h] = p]
Lock(h) == mtx = Nobody /\ mtx' = h
Unlock(h) == mtx' = Nobody /\ Goto(h, "idle")

------------------------------------------------------------------------------
(* Variants of operations below, each with one plausible slip. *)

Sent_Unlocks(h) ==
  /\ pc[h] = "send"
  /\ Goto(h, "mark") /\ mtx' = Nobody
  /\ UNCHANGED <<file, lines, offline, readers, messages, crashes, appended, damaged>>
Truncate_OpensForAppending(h) ==
  /\ pc[h] = "truncate"
  /\ Goto(h, "rewrite")
  /\ floor' = [r \in Readers |-> 0]
  /\ UNCHANGED <<file, mtx, lines, offline, reading, pos, got, answers,
                 messages, crashes, appended, damaged>>
AppendLong_Truncates(h) ==
  /\ messages < MaxMsgs /\ pc[h] = "idle" /\ Lock(h)
  /\ messages' = messages + 1
  /\ file' = <<messages + 1>>
  /\ appended' = Append(appended, messages + 1)
  /\ Goto(h, "newline")
  /\ UNCHANGED <<lines, offline, readers, crashes, damaged>>

------------------------------------------------------------------------------
(* Appending *)

\* appendHistory() from broadcast() or from sendPrivate(): a short record leaves the
\* buffer with its line end, when the stream is closed.
AppendShort(h) ==
  /\ messages < MaxMsgs /\ pc[h] = "idle" /\ mtx = Nobody
  /\ messages' = messages + 1
  /\ file' = file \o <<messages + 1, LineEnd>>
  /\ appended' = Append(appended, messages + 1)
  /\ UNCHANGED <<writers, readers, crashes, damaged>>

\* A record as long as the stream's limit is written at once, its line end later.
AppendLong(h) ==
  /\ messages < MaxMsgs /\ pc[h] = "idle" /\ Lock(h)
  /\ messages' = messages + 1
  /\ file' = Append(file, messages + 1)
  /\ appended' = Append(appended, messages + 1)
  /\ Goto(h, "newline")
  /\ UNCHANGED <<lines, offline, readers, crashes, damaged>>
Newline(h) ==
  /\ pc[h] = "newline"
  /\ file' = Append(file, LineEnd)
  /\ Unlock(h)
  /\ UNCHANGED <<lines, offline, readers, messages, crashes, appended, damaged>>

\* The file cannot be opened: the message is handled without a record.
AppendFails(h) ==
  /\ messages < MaxMsgs /\ pc[h] = "idle" /\ mtx = Nobody
  /\ messages' = messages + 1
  /\ UNCHANGED <<file, writers, readers, crashes, appended, damaged>>

\* sendPrivate() for an absent receiver: queued, and not recorded.
QueueOffline(h) ==
  /\ messages < MaxMsgs /\ pc[h] = "idle" /\ mtx = Nobody
  /\ messages' = messages + 1
  /\ offline' = Append(offline, messages + 1)
  /\ UNCHANGED <<file, mtx, pc, lines, readers, crashes, appended, damaged>>

------------------------------------------------------------------------------
(* deliverOffline(): write the first message, mark it, pop it, until none is left *)

Deliver(h) ==
  /\ pc[h] = "idle" /\ offline # <<>> /\ Lock(h)
  /\ Goto(h, "send")
  /\ UNCHANGED <<file, lines, offline, readers, messages, crashes, appended, damaged>>
SendThrows(h) ==
  /\ pc[h] = "send"
  /\ Unlock(h)
  /\ UNCHANGED <<file, lines, offline, readers, messages, crashes, appended, damaged>>
Sent(h) ==
  /\ pc[h] = "send"
  /\ Goto(h, "mark")
  /\ UNCHANGED <<file, mtx, lines, offline, readers, messages, crashes, appended, damaged>>

\* markDelivered() reads all lines, empties the file by opening it, and writes the
\* lines back, a buffer at a time.
ReadLines(h) ==
  /\ pc[h] = "mark"
  /\ lines' = [lines EXCEPT ![h] = Rewritten(file)]
  /\ Goto(h, "truncate")
  /\ UNCHANGED <<file, mtx, offline, readers, messages, crashes, appended, damaged>>
Truncate(h) ==
  /\ pc[h] = "truncate"
  /\ file' = <<>>
  /\ Goto(h, "rewrite")
  /\ floor' = [r \in Readers |-> 0]
  /\ UNCHANGED <<mtx, lines, offline, reading, pos, got, answers,
                 messages, crashes, appended, damaged>>
WriteBack(h) ==
  /\ pc[h] = "rewrite" /\ lines[h] # <<>>
  /\ \E k \in 1 .. Len(lines[h]) :
       /\ file' = file \o SubSeq(lines[h], 1, k)
       /\ lines' = [lines EXCEPT ![h] = SubSeq(@, k + 1, Len(@))]
  /\ UNCHANGED <<mtx, pc, offline, readers, messages, crashes, appended, damaged>>
\* The file cannot be opened to be read, or to be written: all is left as it is.
MarkFails(h) ==
  /\ pc[h] \in {"mark", "truncate"}
  /\ lines' = [lines EXCEPT ![h] = <<>>]
  /\ Goto(h, "pop")
  /\ UNCHANGED <<file, mtx, offline, readers, messages, crashes, appended, damaged>>

\* Popped whether it was marked or not.
Pop(h) ==
  /\ pc[h] = "pop" \/ (pc[h] = "rewrite" /\ lines[h] = <<>>)
  /\ offline' = Tail(offline)
  /\ IF Len(offline) = 1 THEN Unlock(h) ELSE Goto(h, "send") /\ UNCHANGED mtx
  /\ UNCHANGED <<file, lines, readers, messages, crashes, appended, damaged>>

------------------------------------------------------------------------------
(* getHistory(), without a lock *)

BeginReading(r) ==
  /\ ~reading[r] /\ answers < MaxAnswers
  /\ answers' = answers + 1
  /\ reading' = [reading EXCEPT ![r] = TRUE]
  /\ pos' = [pos EXCEPT ![r] = 0]
  /\ got' = [got EXCEPT ![r] = <<>>]
  /\ floor' = [floor EXCEPT ![r] =
                 IF \E h \in Handlers : pc[h] = "rewrite" THEN 0 ELSE Len(appended)]
  /\ UNCHANGED <<file, writers, messages, crashes, appended, damaged>>

\* The file cannot be opened: an answer without a record.
NoHistory(r) ==
  /\ ~reading[r] /\ answers < MaxAnswers
  /\ answers' = answers + 1
  /\ got' = [got EXCEPT ![r] = <<>>]
  /\ floor' = [floor EXCEPT ![r] = 0]
  /\ UNCHANGED <<file, writers, reading, pos, messages, crashes, appended, damaged>>

\* A buffer is filled from where the last one ended.
ReadSome(r) ==
  /\ reading[r] /\ pos[r] < Len(file)
  /\ \E k \in pos[r] + 1 .. Len(file) :
       /\ got' = [got EXCEPT ![r] = @ \o SubSeq(file, pos[r] + 1, k)]
       /\ pos' = [pos EXCEPT ![r] = k]
  /\ UNCHANGED <<file, writers, reading, answers, floor, messages, crashes, appended, damaged>>

\* The end of the file: the last n records that parse are the answer; 0 asks for all.
LastRecords(s, n) == IF n > 0 /\ n < Len(s) THEN SubSeq(s, Len(s) - n + 1, Len(s)) ELSE s
Answer(r) ==
  /\ reading[r] /\ pos[r] >= Len(file)
  /\ \E n \in 0 .. 2 :
       /\ got' = [got EXCEPT ![r] = LastRecords(Parsed(@), n)]
       /\ floor' = [floor EXCEPT ![r] = IF n = 0 THEN @ ELSE 0]
  /\ reading' = [reading EXCEPT ![r] = FALSE]
  /\ pos' = [pos EXCEPT ![r] = 0]
  /\ UNCHANGED <<file, writers, answers, messages, crashes, appended, damaged>>

------------------------------------------------------------------------------
\* The process ends and is started again: only the file is left.
Crash ==
  /\ crashes < MaxCrashes
  /\ crashes' = crashes + 1
  /\ mtx' = Nobody /\ offline' = <<>>
  /\ pc' = [h \in Handlers |-> "idle"]
  /\ lines' = [h \in Handlers |-> <<>>]
  /\ reading' = [r \in Readers |-> FALSE]
  /\ pos' = [r \in Readers |-> 0]
  /\ got' = [r \in Readers |-> <<>>]
  /\ floor' = [r \in Readers |-> 0]
  /\ damaged' = (damaged \/ \E h \in Handlers :
                              pc[h] = "newline" \/ (pc[h] = "rewrite" /\ lines[h] # <<>>))
  /\ UNCHANGED <<file, messages, answers, appended>>

Next ==
  \/ \E h \in Handlers :
       \/ AppendShort(h) \/ AppendLong(h) \/ Newline(h) \/ AppendFails(h) \/ QueueOffline(h)
       \/ Deliver(h) \/ SendThrows(h) \/ Sent(h)
       \/ ReadLines(h) \/ Truncate(h) \/ WriteBack(h) \/ MarkFails(h) \/ Pop(h)
  \/ \E r \in Readers : BeginReading(r) \/ NoHistory(r) \/ ReadSome(r) \/ Answer(r)
  \/ Crash

Spec == Init /\ [][Next]_vars

------------------------------------------------------------------------------
(* Properties *)

\* Unless the process has ended during a rewrite or before a line end, no record that
\* has been appended is ever lost, doubled or out of order, also where the file cannot be
\* opened at times: those in the file, with those a rewrite has still to write back, are
\* the records appended.
RecordsAreKept ==
  ~damaged =>
    LET rest == IF mtx # Nobody /\ pc[mtx] = "rewrite" THEN lines[mtx] ELSE <<>>
    IN  Parsed(file \o rest) = appended

\* What getHistory() answers without a lock is a run of consecutive records, and in the
\* order they were appended even in a damaged file.
AnswerIsConsecutive ==
  \A r \in Readers : ~reading[r] =>
    /\ \A i, j \in DOMAIN got[r] : i < j => got[r][i] < got[r][j]
    /\ ~damaged /\ got[r] # <<>> =>
         \E i \in DOMAIN appended :
           /\ i + Len(got[r]) - 1 <= Len(appended)
           /\ SubSeq(appended, i, i + Len(got[r]) - 1) = got[r]

\* An answer with all records, read from the file and not disturbed by a rewrite, has every record that had
\* been appended when getHistory() began.
UndisturbedAnswerIsComplete ==
  \A r \in Readers : ~reading[r] /\ ~damaged => Len(got[r]) >= floor[r]

==============================================================================
