--------------------------- MODULE HistoryFileProof ---------------------------
(***************************************************************************)
(* Proofs about HistoryFile for any numbers of handlers, readers, messages *)
(* and ends of the process, and wherever the file cannot be opened: no     *)
(* record that was appended is lost, doubled or out of order               *)
(* unless the process has ended in the middle of a rewrite or of a line,   *)
(* and what getHistory() answers without a lock is a run of consecutive    *)
(* records, with all of them if no rewrite disturbed it.                   *)
(***************************************************************************)
EXTENDS HistoryFile, SequenceLemmas

------------------------------------------------------------------------------
(* What parses *)

\* u[n] are the records that parse in the first n elements of f.
Parses(u, f) ==
  /\ u \in [0 .. Len(f) -> Seq(Nat)]
  /\ u[0] = <<>>
  /\ \A n \in 1 .. Len(f) : u[n] = IF IsLine(f, n) THEN Append(u[n - 1], f[n]) ELSE u[n - 1]

\* Parsed() goes through the file from the first line to the last.
LEMMA ParsedLineByLine ==
  ASSUME NEW f \in Seq(Nat)
  PROVE  \E u : Parses(u, f) /\ Parsed(f) = u[Len(f)]
<1> DEFINE Q(g) == g = [n \in 0 .. Len(f) |->
                          IF n = 0 THEN <<>> ELSE IF IsLine(f, n) THEN Append(g[n - 1], f[n]) ELSE g[n - 1]]
           upTo == CHOOSE g : Q(g)
           S == 1 .. Len(f)
           T == Seq(Nat)
           s == [i \in S |-> i]
           h == [p \in T \X S |-> IF IsLine(f, p[2]) THEN Append(p[1], f[p[2]]) ELSE p[1]]
<1>1. Len(f) \in Nat /\ \A n \in S : f[n] \in Nat
  BY Elements
<1>2. s \in Seq(S) /\ Len(s) = Len(f)
  BY <1>1
<1>3. Recursion(S, T, <<>>, h)
  <2>1. <<>> \in T
    OBVIOUS
  <2>2. ASSUME NEW p \in T \X S
        PROVE  (IF IsLine(f, p[2]) THEN Append(p[1], f[p[2]]) ELSE p[1]) \in T
    <3>1. p[1] \in T /\ f[p[2]] \in Nat
      BY <1>1
    <3> QED
      BY <3>1, AppendElements
  <2> QED
    BY <2>1, <2>2 DEF Recursion
<1>4. PICK u \in [0 .. Len(s) -> T] : Accumulates(u, s, Len(s), <<>>, h)
  BY <1>2, <1>3, AccumulationExists
<1>5. /\ u[0] = <<>>
      /\ \A n \in S : u[n] = IF IsLine(f, n) THEN Append(u[n - 1], f[n]) ELSE u[n - 1]
  <2>1. u[0] = <<>>
    BY <1>4 DEF Accumulates
  <2> SUFFICES ASSUME NEW n \in S
               PROVE  u[n] = IF IsLine(f, n) THEN Append(u[n - 1], f[n]) ELSE u[n - 1]
    BY <2>1
  <2>2. u[n] = h[<<u[n - 1], n>>]
    BY <1>2, <1>4 DEF Accumulates
  <2>3. u[n - 1] \in T
    <3>1. n - 1 \in 0 .. Len(s)
      BY <1>1, <1>2
    <3> HIDE DEF T, s
    <3> QED
      BY <1>4, <3>1
  <2>4. <<u[n - 1], n>> \in T \X S
    BY <2>3
  <2> HIDE DEF T, S
  <2> QED
    BY <2>2, <2>4
<1>6. Parses(u, f)
  BY <1>2, <1>4, <1>5 DEF Parses
<1>7. Q(u)
  <2>1. \A n \in 0 .. Len(f) :
          u[n] = IF n = 0 THEN <<>> ELSE IF IsLine(f, n) THEN Append(u[n - 1], f[n]) ELSE u[n - 1]
    <3> SUFFICES ASSUME NEW n \in 0 .. Len(f)
                 PROVE  u[n] = IF n = 0 THEN <<>>
                               ELSE IF IsLine(f, n) THEN Append(u[n - 1], f[n]) ELSE u[n - 1]
      OBVIOUS
    <3>1. n = 0 \/ n \in S
      BY <1>1
    <3>2. CASE n = 0
      BY <1>5, <3>2
    <3>3. CASE n \in S
      <4>1. n # 0
        BY <3>3
      <4> QED
        BY <1>5, <3>3, <4>1
    <3> QED
      BY <3>1, <3>2, <3>3
  <2>2. u = [n \in 0 .. Len(f) |-> u[n]]
    BY <1>2, <1>4
  <2> QED
    BY <2>1, <2>2
<1>8. Q(upTo)
  BY <1>7
<1>9. Parsed(f) = upTo[Len(f)]
  BY DEF Parsed
<1> HIDE DEF upTo, s, h
<1>10. /\ DOMAIN upTo = 0 .. Len(f)
       /\ upTo[0] = <<>>
       /\ \A n \in S : upTo[n] = IF IsLine(f, n) THEN Append(upTo[n - 1], f[n]) ELSE upTo[n - 1]
  <2>1. DOMAIN upTo = 0 .. Len(f)
    BY <1>8
  <2>2. \A n \in 0 .. Len(f) :
          upTo[n] = IF n = 0 THEN <<>>
                    ELSE IF IsLine(f, n) THEN Append(upTo[n - 1], f[n]) ELSE upTo[n - 1]
    BY <1>8
  <2>3. 0 \in 0 .. Len(f) /\ \A n \in S : n \in 0 .. Len(f) /\ n # 0
    BY <1>1
  <2> QED
    BY <2>1, <2>2, <2>3
<1> DEFINE N == {n \in Nat : n <= Len(f) => upTo[n] = u[n]}
<1>11. 0 \in N
  BY <1>5, <1>10
<1>12. ASSUME NEW n \in Nat, n \in N PROVE n + 1 \in N
  <2> SUFFICES ASSUME n + 1 <= Len(f) PROVE upTo[n + 1] = u[n + 1]
    OBVIOUS
  <2> DEFINE k == n + 1
  <2>1. k \in S /\ k - 1 = n /\ upTo[n] = u[n]
    BY <1>1, <1>12
  <2> HIDE DEF k
  <2>2. upTo[k] = u[k]
    BY <1>5, <1>10, <2>1
  <2> QED
    BY <2>2 DEF k
<1> HIDE DEF N
<1>13. Nat \subseteq N
  BY <1>11, <1>12, EveryNumber
<1>14. Parsed(f) = u[Len(f)]
  BY <1>1, <1>9, <1>13 DEF N
<1> QED
  BY <1>6, <1>14

\* The records of f are in the order they were appended.
InOrder(f) ==
  \A i, j \in DOMAIN f : i < j /\ f[i] # LineEnd /\ f[j] # LineEnd => f[i] < f[j]

\* Then so are those that parse.
LEMMA ParsedInOrder ==
  ASSUME NEW f \in Seq(Nat), InOrder(f)
  PROVE  /\ Parsed(f) \in Seq(Nat)
         /\ \A i, j \in DOMAIN Parsed(f) : i < j => Parsed(f)[i] < Parsed(f)[j]
<1>1. PICK u : Parses(u, f) /\ Parsed(f) = u[Len(f)]
  BY ParsedLineByLine
<1>2. /\ Len(f) \in Nat /\ DOMAIN f = 1 .. Len(f) /\ (\A i \in 1 .. Len(f) : f[i] \in Nat)
      /\ \A n \in 0 .. Len(f) : u[n] \in Seq(Nat)
  BY <1>1, Elements DEF Parses
<1> DEFINE Good(n) == /\ \A i \in DOMAIN u[n] : \E j \in 1 .. n : f[j] # LineEnd /\ u[n][i] = f[j]
                      /\ \A i, j \in DOMAIN u[n] : i < j => u[n][i] < u[n][j]
           N == {n \in Nat : n <= Len(f) => Good(n)}
<1>3. 0 \in N
  BY <1>1, EmptySeq DEF Parses
<1>4. ASSUME NEW n \in Nat, n \in N PROVE n + 1 \in N
  <2> SUFFICES ASSUME n + 1 <= Len(f) PROVE Good(n + 1)
    OBVIOUS
  <2> DEFINE k == n + 1
  <2>1. /\ k \in 1 .. Len(f) /\ k - 1 = n /\ n \in 0 .. Len(f) /\ k \in Nat
        /\ \A j \in 1 .. n : j \in 1 .. k /\ j \in DOMAIN f /\ j < k
    BY <1>2
  <2>2. Good(n)
    BY <1>2, <1>4
  <2> HIDE DEF k
  <2>3. u[k] = IF IsLine(f, k) THEN Append(u[n], f[k]) ELSE u[n]
    BY <1>1, <2>1 DEF Parses
  <2>4. CASE IsLine(f, k)
    <3> DEFINE e == f[k]
               v == u[n]
    <3>1. e \in Nat /\ e # LineEnd /\ v \in Seq(Nat) /\ u[k] = Append(v, e) /\ k \in DOMAIN f
      BY <1>2, <2>1, <2>3, <2>4 DEF IsLine
    <3>2. \A i \in DOMAIN v : v[i] < e
      BY <2>1, <2>2, <3>1 DEF InOrder
    <3>3. /\ Len(v) \in Nat /\ DOMAIN v = 1 .. Len(v) /\ DOMAIN u[k] = 1 .. Len(v) + 1
          /\ u[k][Len(v) + 1] = e /\ \A i \in DOMAIN v : u[k][i] = v[i]
      BY <3>1, AppendElements, Elements
    <3>4. \A i \in DOMAIN u[k] : i \in DOMAIN v \/ i = Len(v) + 1
      BY <3>3
    <3>5. ASSUME NEW i \in DOMAIN u[k]
          PROVE  \E j \in 1 .. k : f[j] # LineEnd /\ u[k][i] = f[j]
      <4>1. CASE i \in DOMAIN v
        BY <2>1, <2>2, <3>3, <4>1
      <4>2. CASE i = Len(v) + 1
        BY <2>1, <3>1, <3>3, <4>2
      <4> QED
        BY <3>4, <4>1, <4>2
    <3>6. ASSUME NEW i \in DOMAIN u[k], NEW j \in DOMAIN u[k], i < j
          PROVE  u[k][i] < u[k][j]
      <4>1. i \in DOMAIN v
        BY <3>3, <3>6
      <4>2. CASE j \in DOMAIN v
        BY <2>2, <3>3, <3>6, <4>1, <4>2
      <4>3. CASE j = Len(v) + 1
        BY <3>2, <3>3, <4>1, <4>3
      <4> QED
        BY <3>4, <4>2, <4>3
    <3> QED
      BY <3>5, <3>6 DEF k
  <2>5. CASE ~IsLine(f, k)
    <3>1. u[k] = u[n]
      BY <2>3, <2>5
    <3>2. Good(k)
      BY <2>1, <2>2, <3>1
    <3> QED
      BY <3>2 DEF k
  <2> QED
    BY <2>4, <2>5
<1> HIDE DEF N
<1>5. Nat \subseteq N
  BY <1>3, <1>4, EveryNumber
<1>6. Good(Len(f))
  <2>1. Len(f) \in N
    BY <1>2, <1>5
  <2>2. Len(f) <= Len(f)
    BY <1>2
  <2> QED
    BY <2>1, <2>2 DEF N
<1> QED
  BY <1>1, <1>2, <1>6

\* g is how f begins.
Begins(g, f) == Len(g) <= Len(f) /\ \A i \in DOMAIN g : g[i] = f[i]

\* f has the records a, each on a line of its own; the last line may lack its end.
Lined(f, a) ==
  /\ Len(f) = 2 * Len(a) \/ Len(f) = 2 * Len(a) - 1
  /\ \A k \in DOMAIN a : a[k] # LineEnd /\ f[2 * k - 1] = a[k] /\ (2 * k <= Len(f) => f[2 * k] = LineEnd)

\* g has k lines, with the first k records of a on them.
FirstLines(g, a, k) ==
  /\ Len(g) = 2 * k \/ Len(g) = 2 * k - 1
  /\ k <= Len(a) /\ Len(Parsed(g)) = k /\ \A j \in 1 .. k : Parsed(g)[j] = a[j]

\* What parses in the beginning of such a file are the records it holds.
LEMMA ParsedLines ==
  ASSUME NEW f \in Seq(Nat), NEW g \in Seq(Nat), NEW a \in Seq(Nat), Begins(g, f), Lined(f, a)
  PROVE  \E k \in Nat : FirstLines(g, a, k)
<1>1. PICK u : Parses(u, g) /\ Parsed(g) = u[Len(g)]
  BY ParsedLineByLine
<1>2. /\ Len(f) \in Nat /\ Len(g) \in Nat /\ DOMAIN g = 1 .. Len(g) /\ Len(g) <= Len(f)
      /\ Len(a) \in Nat /\ DOMAIN a = 1 .. Len(a)
      /\ \A n \in 0 .. Len(g) : u[n] \in Seq(Nat)
  BY <1>1, Elements DEF Parses, Begins
<1> DEFINE Good(n) == \E k \in Nat : /\ n = 2 * k \/ n = 2 * k - 1
                                     /\ k <= Len(a) /\ Len(u[n]) = k /\ \A j \in 1 .. k : u[n][j] = a[j]
           N == {n \in Nat : n <= Len(g) => Good(n)}
<1>3. 0 \in N
  <2>1. u[0] = <<>> /\ Len(u[0]) = 0
    BY <1>1 DEF Parses
  <2>2. Good(0)
    <3> WITNESS 0 \in Nat
    <3> QED
      BY <1>2, <2>1
  <2> QED
    BY <2>2
<1>4. ASSUME NEW n \in Nat, n \in N PROVE n + 1 \in N
  <2> SUFFICES ASSUME n + 1 <= Len(g) PROVE Good(n + 1)
    OBVIOUS
  <2> DEFINE m == n + 1
  <2>1. m \in 1 .. Len(g) /\ m - 1 = n /\ n \in 0 .. Len(g) /\ m \in Nat /\ n <= Len(g)
    BY <1>2
  <2>0. m = Len(g) \/ m < Len(g)
    <3>1. Len(g) \in Int /\ m \in Int /\ m <= Len(g)
      BY <1>2
    <3> HIDE DEF m
    <3> QED
      BY <3>1
  <2>2. PICK k \in Nat : /\ n = 2 * k \/ n = 2 * k - 1
                         /\ k <= Len(a) /\ Len(u[n]) = k /\ \A j \in 1 .. k : u[n][j] = a[j]
    BY <1>4, <2>1
  <2>3. m = 2 * k + 1 \/ m = 2 * k
    BY <2>2
  <2>4. u[m] = IF IsLine(g, m) THEN Append(u[n], g[m]) ELSE u[n]
    BY <1>1, <2>1 DEF Parses
  <2> HIDE DEF m
  <2>5. CASE m = 2 * k + 1
    <3> DEFINE c == k + 1
    <3>1. c \in DOMAIN a /\ 2 * c - 1 = m /\ c - 1 = k /\ c \in Nat
      BY <1>2, <2>1, <2>5 DEF Lined
    <3> HIDE DEF c
    <3>2. g[m] = a[c] /\ g[m] # LineEnd
      <4>1. f[2 * c - 1] = a[c] /\ a[c] # LineEnd
        BY <3>1 DEF Lined
      <4>2. g[m] = f[m]
        BY <1>2, <2>1 DEF Begins
      <4> QED
        BY <3>1, <4>1, <4>2
    <3>3. m = 1 \/ g[m - 1] = LineEnd
      <4> SUFFICES ASSUME m # 1 PROVE g[m - 1] = LineEnd
        OBVIOUS
      <4>1. k \in DOMAIN a /\ 2 * k = m - 1 /\ 2 * k <= Len(f) /\ m - 1 \in DOMAIN g
        <5>1. m - 1 \in 1 .. Len(g) /\ m - 1 <= Len(f)
          BY <1>2, <2>1
        <5>2. 2 * k = m - 1
          BY <2>1, <2>5
        <5>3. k \in 1 .. Len(a)
          BY <1>2, <2>2, <5>1, <5>2
        <5> QED
          BY <1>2, <5>1, <5>2, <5>3
      <4>2. f[2 * k] = LineEnd
        BY <4>1 DEF Lined
      <4>3. g[m - 1] = f[m - 1]
        BY <4>1 DEF Begins
      <4> QED
        BY <4>1, <4>2, <4>3
    <3>4. ASSUME m < Len(g) PROVE g[m + 1] = LineEnd
      <4>1. m + 1 \in DOMAIN g /\ m + 1 <= Len(f)
        BY <1>2, <2>1, <3>4
      <4>2. 2 * c = m + 1
        BY <3>1
      <4>3. f[2 * c] = LineEnd
        BY <3>1, <4>1, <4>2 DEF Lined
      <4>4. g[m + 1] = f[m + 1]
        BY <4>1 DEF Begins
      <4> QED
        BY <4>2, <4>3, <4>4
    <3>5. u[m] = Append(u[n], a[c])
      BY <2>0, <2>4, <3>2, <3>3, <3>4 DEF IsLine
    <3>6. Len(u[m]) = c /\ u[m][c] = a[c] /\ \A j \in 1 .. k : u[m][j] = a[j]
      <4>1. u[n] \in Seq(Nat) /\ a[c] \in Nat
        BY <1>2, <2>1, <3>1, Elements
      <4>2. Len(u[n]) = k /\ k + 1 = c /\ 1 .. k = 1 .. Len(u[n])
        BY <2>2, <3>1
      <4>3. /\ Len(Append(u[n], a[c])) = Len(u[n]) + 1
            /\ Append(u[n], a[c])[Len(u[n]) + 1] = a[c]
            /\ \A j \in 1 .. Len(u[n]) : Append(u[n], a[c])[j] = u[n][j]
        BY <4>1, AppendProperties
      <4> QED
        BY <2>2, <3>5, <4>2, <4>3
    <3>7. \A j \in 1 .. c : j = c \/ j \in 1 .. k
      BY <3>1
    <3>8. m = 2 * c - 1 /\ c <= Len(a)
      BY <1>2, <3>1
    <3> QED
      BY <3>1, <3>6, <3>7, <3>8 DEF m
  <2>6. CASE m = 2 * k
    <3>1. k \in DOMAIN a /\ 2 * k <= Len(f) /\ m \in DOMAIN g
      BY <1>2, <2>1, <2>2, <2>6
    <3>2. f[2 * k] = LineEnd /\ g[m] = f[m]
      BY <3>1 DEF Lined, Begins
    <3>3. u[m] = u[n]
      BY <2>4, <2>6, <3>2 DEF IsLine
    <3> QED
      BY <2>2, <2>6, <3>3 DEF m
  <2> QED
    BY <2>3, <2>5, <2>6
<1> HIDE DEF N
<1>5. Nat \subseteq N
  BY <1>3, <1>4, EveryNumber
<1>6. Good(Len(g))
  <2>1. Len(g) \in N
    BY <1>2, <1>5
  <2>2. Len(g) <= Len(g)
    BY <1>2
  <2> QED
    BY <2>1, <2>2 DEF N
<1> QED
  BY <1>1, <1>6 DEF FirstLines

------------------------------------------------------------------------------
(* The invariant *)

Phases == {"idle", "newline", "send", "mark", "truncate", "rewrite", "pop"}

TypeOK ==
  /\ file \in Seq(Nat) /\ appended \in Seq(Nat) /\ offline \in Seq(Nat)
  /\ mtx \in Handlers \cup {Nobody}
  /\ pc \in [Handlers -> Phases]
  /\ lines \in [Handlers -> Seq(Nat)]
  /\ reading \in [Readers -> BOOLEAN]
  /\ pos \in [Readers -> Nat] /\ got \in [Readers -> Seq(Nat)] /\ floor \in [Readers -> Nat]
  /\ messages \in Nat /\ damaged \in BOOLEAN

\* A handler in the middle of something has the mutex; one that delivers has a message to
\* deliver, and what it is about to write back is what is in the file.
Locked ==
  \A h \in Handlers : /\ pc[h] # "idle" <=> mtx = h
                      /\ pc[h] \notin {"idle", "newline"} => offline # <<>>
                      /\ pc[h] = "truncate" => lines[h] = Rewritten(file)

\* The file with what a rewrite has still to write back.
Whole == file \o IF mtx # Nobody /\ pc[mtx] = "rewrite" THEN lines[mtx] ELSE <<>>
Rewriting == \E h \in Handlers : pc[h] = "rewrite"
Unended == \E h \in Handlers : pc[h] = "newline"

\* The records in it are in order, and none is younger than the last message; unless
\* damaged, they are those appended, and at most the end of the last line is missing.
WellFormed ==
  /\ InOrder(Whole) /\ \A i \in DOMAIN Whole : Whole[i] <= messages
  /\ ~damaged => Lined(Whole, appended) /\ (Len(Whole) = 2 * Len(appended) <=> ~Unended)

\* What a reader has read is how it begins, although it has read the file in pieces and
\* a rewrite may have come in between.
ReadsWhole == \A r \in Readers : reading[r] => Len(got[r]) = pos[r] /\ Begins(got[r], Whole)

\* A reader that expects all records has not been disturbed.
Undisturbed == \A r \in Readers : floor[r] <= Len(appended) /\ (Rewriting => floor[r] = 0)

HistoryInv ==
  /\ TypeOK /\ Locked /\ WellFormed /\ ReadsWhole /\ Undisturbed
  /\ AnswerIsConsecutive /\ UndisturbedAnswerIsComplete

------------------------------------------------------------------------------
(* What is written *)

\* What a step of a handler can do to the file as it will be after a rewrite: nothing,
\* append a record with its line end or without, append the missing line end, or give
\* the last line an end.
Rests == Whole' = Whole /\ UNCHANGED appended /\ messages <= messages' /\ (Unended' <=> Unended)
Recorded ==
  /\ Whole' = Append(Append(Whole, messages + 1), LineEnd)
  /\ appended' = Append(appended, messages + 1)
  /\ messages' = messages + 1 /\ ~Unended /\ ~Unended'
Begun ==
  /\ Whole' = Append(Whole, messages + 1) /\ appended' = Append(appended, messages + 1)
  /\ messages' = messages + 1 /\ ~Unended /\ Unended'
Ended ==
  /\ Whole' = Append(Whole, LineEnd) /\ UNCHANGED <<appended, messages>> /\ Unended /\ ~Unended'
Completed ==
  /\ Whole' = Rewritten(Whole) /\ UNCHANGED <<appended, messages>> /\ ~Unended /\ ~Unended'
Writes == Rests \/ Recorded \/ Begun \/ Ended \/ Completed

\* The rewritten file is the file, or has one line end more.
LEMMA RewrittenElements ==
  ASSUME NEW f \in Seq(Nat)
  PROVE  /\ Rewritten(f) \in Seq(Nat)
         /\ Rewritten(f) = f \/ (Rewritten(f) = Append(f, LineEnd) /\ f[Len(f)] # LineEnd /\ f # <<>>)
<1>1. LineEnd \in Nat
  BY DEF LineEnd
<1> QED
  BY <1>1, AppendElements DEF Rewritten

\* With no rewrite going on, it is the file.
LEMMA WholeFile ==
  ASSUME TypeOK, Locked
  PROVE  /\ Whole \in Seq(Nat)
         /\ ~Rewriting => Whole = file
         /\ \A h \in Handlers : pc[h] = "rewrite" => Whole = file \o lines[h]
<1>1. ~Rewriting => Whole = file \o <<>>
  BY DEF TypeOK, Whole, Rewriting
<1>2. file \o <<>> = file
  BY ConcatEmptySeq DEF TypeOK
<1>3. ASSUME NEW h \in Handlers, pc[h] = "rewrite" PROVE Whole = file \o lines[h]
  <2>1. mtx = h /\ mtx # Nobody
    BY <1>3, HistoryAssumption DEF Locked
  <2> QED
    BY <1>3, <2>1 DEF Whole
<1>4. CASE Rewriting
  <2>1. PICK h \in Handlers : pc[h] = "rewrite"
    BY <1>4 DEF Rewriting
  <2>2. file \o lines[h] \in Seq(Nat)
    BY ConcatProperties DEF TypeOK
  <2> QED
    BY <1>3, <1>4, <2>1, <2>2
<1>5. CASE ~Rewriting
  BY <1>1, <1>2, <1>3, <1>5 DEF TypeOK, Rewriting
<1> QED
  BY <1>4, <1>5

\* The file grows at its end.
LEMMA WritesAppend ==
  ASSUME TypeOK, Locked, Writes
  PROVE  Whole' \in Seq(Nat) /\ Begins(Whole, Whole')
<1>1. Whole \in Seq(Nat) /\ messages + 1 \in Nat /\ LineEnd \in Nat
  BY WholeFile DEF TypeOK, LineEnd
<1>2. /\ Len(Whole) \in Nat /\ DOMAIN Whole = 1 .. Len(Whole)
      /\ \A e \in Nat : /\ Append(Whole, e) \in Seq(Nat) /\ Len(Append(Whole, e)) = Len(Whole) + 1
                        /\ \A i \in DOMAIN Whole : Append(Whole, e)[i] = Whole[i]
  BY <1>1, AppendProperties, Elements
<1>3. CASE Rests
  BY <1>1, <1>2, <1>3 DEF Rests, Begins
<1>4. CASE Recorded
  <2> DEFINE f == Append(Whole, messages + 1)
  <2>1. f \in Seq(Nat) /\ Len(f) = Len(Whole) + 1 /\ \A i \in DOMAIN Whole : f[i] = Whole[i]
    BY <1>1, <1>2
  <2> HIDE DEF f
  <2>2. /\ Append(f, LineEnd) \in Seq(Nat) /\ Len(Append(f, LineEnd)) = Len(f) + 1
        /\ \A i \in 1 .. Len(f) : Append(f, LineEnd)[i] = f[i]
    BY <1>1, <2>1, AppendProperties
  <2>3. Whole' = Append(f, LineEnd)
    BY <1>4 DEF Recorded, f
  <2> QED
    BY <1>2, <2>1, <2>2, <2>3 DEF Begins
<1>5. ASSUME NEW e \in Nat, Whole' = Append(Whole, e)
      PROVE  Whole' \in Seq(Nat) /\ Begins(Whole, Whole')
  BY <1>2, <1>5 DEF Begins
<1>6. CASE Begun \/ Ended
  BY <1>1, <1>5, <1>6 DEF Begun, Ended
<1>7. CASE Completed
  <2>1. Rewritten(Whole) = Whole \/ Rewritten(Whole) = Append(Whole, LineEnd)
    BY <1>1, RewrittenElements
  <2> QED
    BY <1>1, <1>2, <1>5, <1>7, <2>1 DEF Completed, Begins
<1> QED
  BY <1>3, <1>4, <1>6, <1>7, Zenon DEF Writes

\* The places of the k-th line.
LEMMA LinePlaces ==
  \A n \in Nat : \A k \in 1 .. n :
    /\ 2 * k - 1 \in 1 .. 2 * n - 1 /\ 2 * k - 1 \in 1 .. 2 * n /\ 2 * k \in 1 .. 2 * n
    /\ k # n => 2 * k \in 1 .. 2 * n - 1
<1> SUFFICES ASSUME NEW n \in Nat, NEW k \in 1 .. n
             PROVE  /\ 2 * k - 1 \in 1 .. 2 * n - 1 /\ 2 * k - 1 \in 1 .. 2 * n /\ 2 * k \in 1 .. 2 * n
                    /\ k # n => 2 * k \in 1 .. 2 * n - 1
  OBVIOUS
<1>1. k \in Nat /\ 1 <= k /\ k <= n
  OBVIOUS
<1>2. 1 <= 2 * k - 1 /\ 2 * k - 1 <= 2 * n - 1 /\ 2 * k <= 2 * n
  BY <1>1
<1>3. k # n => 2 * k <= 2 * n - 1
  <2>1. k # n => k <= n - 1
    BY <1>1
  <2>2. k <= n - 1 => 2 * k <= 2 * n - 1
    BY <1>1
  <2> QED
    BY <2>1, <2>2
<1>4. 2 * k - 1 \in Int /\ 2 * k \in Int /\ 2 * n \in Int
  BY <1>1
<1> DEFINE x == 2 * k
           y == 2 * n
<1> HIDE DEF x, y
<1>5. x - 1 \in 1 .. y - 1 /\ x - 1 \in 1 .. y /\ x \in 1 .. y
  <2>1. x \in Int /\ y \in Int /\ 1 <= x - 1 /\ x - 1 <= y - 1 /\ x <= y
    BY <1>2, <1>4 DEF x, y
  <2> QED
    BY <2>1
<1>6. k # n => x \in 1 .. y - 1
  <2>1. x \in Int /\ y \in Int /\ 1 <= x - 1 /\ (k # n => x <= y - 1)
    BY <1>2, <1>3, <1>4 DEF x, y
  <2> QED
    BY <2>1
<1> QED
  BY <1>5, <1>6 DEF x, y

\* A new record on a line of its own.
LEMMA BeginLine ==
  ASSUME NEW f \in Seq(Nat), NEW a \in Seq(Nat), NEW e \in Nat,
         Lined(f, a), Len(f) = 2 * Len(a), e # LineEnd
  PROVE  Lined(Append(f, e), Append(a, e)) /\ Len(Append(f, e)) = 2 * Len(Append(a, e)) - 1
<1> DEFINE g == Append(f, e)
           b == Append(a, e)
<1>1. /\ Len(f) \in Nat /\ Len(g) = Len(f) + 1 /\ g[Len(f) + 1] = e /\ \A i \in 1 .. Len(f) : g[i] = f[i]
      /\ Len(a) \in Nat /\ Len(b) = Len(a) + 1 /\ b[Len(a) + 1] = e /\ \A i \in 1 .. Len(a) : b[i] = a[i]
      /\ DOMAIN a = 1 .. Len(a) /\ DOMAIN b = 1 .. Len(b)
  BY AppendProperties, AppendElements, Elements
<1> HIDE DEF g, b
<1>2. ASSUME NEW k \in DOMAIN b
      PROVE  b[k] # LineEnd /\ g[2 * k - 1] = b[k] /\ (2 * k <= Len(g) => g[2 * k] = LineEnd)
  <2>1. CASE k \in 1 .. Len(a)
    <3>1. 2 * k - 1 \in 1 .. Len(f) /\ 2 * k \in 1 .. Len(f) /\ 2 * k <= Len(f)
      <4>1. 2 * k - 1 \in 1 .. Len(f) /\ 2 * k \in 1 .. Len(f)
        BY <1>1, <2>1, LinePlaces
      <4> QED
        BY <1>1, <4>1
    <3>2. a[k] # LineEnd /\ f[2 * k - 1] = a[k] /\ f[2 * k] = LineEnd
      BY <1>1, <2>1, <3>1 DEF Lined
    <3> QED
      BY <1>1, <2>1, <3>1, <3>2
  <2>2. CASE k = Len(a) + 1
    <3>1. 2 * k - 1 = Len(f) + 1 /\ ~(2 * k <= Len(g))
      BY <1>1, <2>2
    <3> QED
      BY <1>1, <2>2, <3>1
  <2>3. k \in 1 .. Len(a) \/ k = Len(a) + 1
    BY <1>1
  <2> QED
    BY <2>1, <2>2, <2>3
<1>3. Len(g) = 2 * Len(b) - 1
  BY <1>1
<1>4. Lined(g, b)
  BY <1>2, <1>3 DEF Lined
<1> QED
  BY <1>3, <1>4 DEF g, b

\* The missing end of the last line.
LEMMA EndLine ==
  ASSUME NEW f \in Seq(Nat), NEW a \in Seq(Nat), Lined(f, a), Len(f) # 2 * Len(a)
  PROVE  Lined(Append(f, LineEnd), a) /\ Len(Append(f, LineEnd)) = 2 * Len(a)
<1> DEFINE g == Append(f, LineEnd)
<1>1. /\ Len(f) \in Nat /\ Len(g) = Len(f) + 1 /\ g[Len(f) + 1] = LineEnd
      /\ \A i \in 1 .. Len(f) : g[i] = f[i]
      /\ Len(a) \in Nat /\ DOMAIN a = 1 .. Len(a)
  <2>1. LineEnd \in Nat
    BY DEF LineEnd
  <2> QED
    BY <2>1, AppendProperties, Elements
<1> HIDE DEF g
<1>2. Len(f) = 2 * Len(a) - 1
  BY DEF Lined
<1>3. ASSUME NEW k \in DOMAIN a
      PROVE  a[k] # LineEnd /\ g[2 * k - 1] = a[k] /\ g[2 * k] = LineEnd
  <2>1. 2 * k - 1 \in 1 .. Len(f) /\ (2 * k \in 1 .. Len(f) \/ 2 * k = Len(f) + 1)
    <3>1. 2 * k - 1 \in 1 .. Len(f) /\ (k # Len(a) => 2 * k \in 1 .. Len(f))
      BY <1>1, <1>2, LinePlaces
    <3>2. k = Len(a) => 2 * k = Len(f) + 1
      BY <1>1, <1>2
    <3> QED
      BY <3>1, <3>2
  <2>2. a[k] # LineEnd /\ f[2 * k - 1] = a[k] /\ (2 * k <= Len(f) => f[2 * k] = LineEnd)
    BY DEF Lined
  <2>3. g[2 * k] = LineEnd
    <3>1. CASE 2 * k \in 1 .. Len(f)
      <4>1. 2 * k <= Len(f)
        BY <1>1, <3>1
      <4> QED
        BY <1>1, <2>2, <3>1, <4>1
    <3>2. CASE 2 * k = Len(f) + 1
      BY <1>1, <3>2
    <3> QED
      BY <2>1, <3>1, <3>2
  <2> QED
    BY <1>1, <2>1, <2>2, <2>3
<1>4. Len(g) = 2 * Len(a)
  BY <1>1, <1>2
<1>5. Lined(g, a)
  BY <1>3, <1>4 DEF Lined
<1> QED
  BY <1>4, <1>5 DEF g

\* f has its records in order, and none is greater than m.
UpTo(f, m) == InOrder(f) /\ \A i \in DOMAIN f : f[i] <= m

\* So it is with a greater record, or a line end, behind them.
LEMMA UpToAppend ==
  ASSUME NEW f \in Seq(Nat), NEW m \in Nat, UpTo(f, m), NEW n \in Nat, m <= n,
         NEW e \in Nat, e = LineEnd \/ (e = n /\ m < n)
  PROVE  UpTo(Append(f, e), n)
<1> DEFINE g == Append(f, e)
<1>1. /\ Len(f) \in Nat /\ DOMAIN f = 1 .. Len(f) /\ \A i \in DOMAIN f : f[i] \in Nat
      /\ DOMAIN g = 1 .. Len(f) + 1 /\ g[Len(f) + 1] = e
      /\ \A i \in DOMAIN f : g[i] = f[i]
  BY AppendElements, Elements
<1> HIDE DEF g
<1>2. \A i \in DOMAIN g : i \in DOMAIN f \/ i = Len(f) + 1
  BY <1>1
<1>3. \A i \in DOMAIN f : f[i] <= m
  BY DEF UpTo
<1>4. \A i \in DOMAIN g : g[i] <= n
  BY <1>1, <1>2, <1>3 DEF LineEnd
<1>5. ASSUME NEW i \in DOMAIN g, NEW j \in DOMAIN g, i < j, g[i] # LineEnd, g[j] # LineEnd
      PROVE  g[i] < g[j]
  <2>1. i \in DOMAIN f
    BY <1>1, <1>5
  <2>2. CASE j \in DOMAIN f
    BY <1>1, <1>5, <2>1, <2>2 DEF UpTo, InOrder
  <2>3. CASE j = Len(f) + 1
    BY <1>1, <1>3, <1>5, <2>1, <2>3
  <2> QED
    BY <1>2, <2>2, <2>3
<1>6. UpTo(g, n)
  BY <1>4, <1>5 DEF UpTo, InOrder
<1> QED
  BY <1>6 DEF g

\* Whatever a handler writes, the records stay in order, one on a line.
LEMMA WritesWellFormed ==
  ASSUME TypeOK, TypeOK', Locked, WellFormed, Writes, UNCHANGED damaged
  PROVE  WellFormed'
<1>1. /\ Whole \in Seq(Nat) /\ appended \in Seq(Nat) /\ LineEnd \in Nat /\ LineEnd = 0
      /\ messages \in Nat /\ messages' \in Nat /\ messages + 1 \in Nat /\ messages + 1 # LineEnd
  BY WholeFile DEF TypeOK, LineEnd
<1>2. UpTo(Whole, messages)
  BY DEF WellFormed, UpTo
<1>3. Append(Whole, messages + 1) \in Seq(Nat) /\ Append(appended, messages + 1) \in Seq(Nat)
  BY <1>1, AppendElements
<1>4. ~damaged => Lined(Whole, appended) /\ (Len(Whole) = 2 * Len(appended) <=> ~Unended)
  BY DEF WellFormed
<1>5. \A a \in Seq(Nat) : Len(a) \in Nat /\ 2 * Len(a) - 1 # 2 * Len(a)
  BY Elements
<1> DEFINE Lines == ~damaged' => Lined(Whole, appended)' /\ (Len(Whole') = 2 * Len(appended') <=> ~Unended')
<1> SUFFICES UpTo(Whole', messages') /\ Lines
  BY DEF WellFormed, UpTo
<1>6. CASE Rests
  <2>1. UpTo(Whole', messages')
    <3>1. \A i \in DOMAIN Whole : Whole[i] \in Nat
      BY <1>1, Elements
    <3> QED
      BY <1>1, <1>2, <1>6, <3>1 DEF Rests, UpTo
  <2>2. Lines
    BY <1>4, <1>6 DEF Rests
  <2> QED
    BY <2>1, <2>2
<1>7. CASE Begun
  <2>1. UpTo(Whole', messages')
    BY <1>1, <1>2, <1>7, UpToAppend DEF Begun
  <2>2. Lines
    BY <1>1, <1>3, <1>4, <1>5, <1>7, BeginLine DEF Begun
  <2> QED
    BY <2>1, <2>2
<1>8. CASE Ended
  <2>1. UpTo(Whole', messages')
    BY <1>1, <1>2, <1>8, UpToAppend DEF Ended
  <2>2. Lines
    BY <1>1, <1>4, <1>8, EndLine DEF Ended
  <2> QED
    BY <2>1, <2>2
<1>9. CASE Recorded
  <2> DEFINE f == Append(Whole, messages + 1)
             a == Append(appended, messages + 1)
  <2>1. UpTo(f, messages + 1)
    BY <1>1, <1>2, UpToAppend
  <2>2. ~damaged => Lined(f, a) /\ Len(f) # 2 * Len(a)
    BY <1>1, <1>3, <1>4, <1>5, <1>9, BeginLine DEF Recorded
  <2>3. f \in Seq(Nat) /\ a \in Seq(Nat)
    BY <1>3
  <2>4. Whole' = Append(f, LineEnd) /\ appended' = a /\ messages' = messages + 1 /\ ~Unended'
    BY <1>9 DEF Recorded
  <2> HIDE DEF f, a
  <2>5. UpTo(Whole', messages')
    BY <1>1, <2>1, <2>3, <2>4, UpToAppend
  <2>6. Lines
    BY <2>2, <2>3, <2>4, EndLine
  <2> QED
    BY <2>5, <2>6
<1>10. CASE Completed
  <2>1. \/ Whole' = Whole
        \/ Whole' = Append(Whole, LineEnd) /\ Whole[Len(Whole)] # LineEnd /\ Whole # <<>>
    BY <1>1, <1>10, RewrittenElements DEF Completed
  <2>2. messages' = messages /\ appended' = appended /\ ~Unended /\ ~Unended'
    BY <1>10 DEF Completed
  <2>3. CASE Whole' = Whole
    BY <1>2, <1>4, <2>2, <2>3
  <2>4. CASE Whole' = Append(Whole, LineEnd) /\ Whole[Len(Whole)] # LineEnd /\ Whole # <<>>
    <3>1. UpTo(Whole', messages')
      BY <1>1, <1>2, <2>2, <2>4, UpToAppend
    <3>2. ASSUME ~damaged PROVE FALSE
      <4>1. Len(Whole) = 2 * Len(appended) /\ Len(Whole) # 0
        BY <1>1, <1>4, <2>2, <2>4, <3>2, EmptySeq
      <4>2. Len(appended) \in DOMAIN appended
        BY <1>1, <4>1, Elements
      <4>3. 2 * Len(appended) <= Len(Whole)
        BY <1>1, <4>1, Elements
      <4>4. Whole[2 * Len(appended)] = LineEnd
        BY <1>4, <3>2, <4>2, <4>3 DEF Lined
      <4> QED
        BY <2>4, <4>1, <4>4
    <3> QED
      BY <3>1, <3>2
  <2> QED
    BY <2>1, <2>3, <2>4
<1> QED
  BY <1>6, <1>7, <1>8, <1>9, <1>10, Zenon DEF Writes

------------------------------------------------------------------------------
(* The steps of a handler *)

HandlerStep(h) ==
  \/ AppendShort(h) \/ AppendLong(h) \/ Newline(h) \/ AppendFails(h) \/ QueueOffline(h)
  \/ Deliver(h) \/ SendThrows(h) \/ Sent(h)
  \/ ReadLines(h) \/ Truncate(h) \/ WriteBack(h) \/ MarkFails(h) \/ Pop(h)

\* They keep the types.
LEMMA HandlerTypes ==
  ASSUME TypeOK, Locked, NEW h \in Handlers, HandlerStep(h)
  PROVE  TypeOK'
<1>1. /\ messages + 1 \in Nat /\ LineEnd \in Nat /\ lines[h] \in Seq(Nat)
      /\ <<>> \in Seq(Nat) /\ <<messages + 1, LineEnd>> \in Seq(Nat)
  BY DEF TypeOK, LineEnd
<1>2. /\ Append(appended, messages + 1) \in Seq(Nat) /\ Append(offline, messages + 1) \in Seq(Nat)
      /\ Append(file, messages + 1) \in Seq(Nat) /\ Append(file, LineEnd) \in Seq(Nat)
  BY <1>1, AppendElements DEF TypeOK
<1>3. CASE AppendShort(h)
  <2>1. file \o <<messages + 1, LineEnd>> \in Seq(Nat)
    BY <1>1, ConcatProperties DEF TypeOK
  <2> QED
    BY <1>1, <1>2, <1>3, <2>1 DEF AppendShort, TypeOK, writers, readers
<1>4. CASE AppendLong(h)
  BY <1>1, <1>2, <1>4 DEF AppendLong, Lock, Goto, TypeOK, Phases, readers
<1>5. CASE Newline(h)
  BY <1>2, <1>5 DEF Newline, Unlock, Goto, TypeOK, Phases, readers
<1>6. CASE QueueOffline(h) \/ AppendFails(h)
  BY <1>1, <1>2, <1>6 DEF QueueOffline, AppendFails, TypeOK, writers, readers
<1>7. CASE Deliver(h)
  BY <1>7 DEF Deliver, Lock, Goto, TypeOK, Phases, readers
<1>8. CASE SendThrows(h)
  BY <1>8 DEF SendThrows, Unlock, Goto, TypeOK, Phases, readers
<1>9. CASE Sent(h)
  BY <1>9 DEF Sent, Goto, TypeOK, Phases, readers
<1>10. CASE ReadLines(h)
  <2>1. Rewritten(file) \in Seq(Nat)
    BY RewrittenElements DEF TypeOK
  <2> QED
    BY <1>10, <2>1 DEF ReadLines, Goto, TypeOK, Phases, readers
<1>11. CASE Truncate(h)
  BY <1>1, <1>11 DEF Truncate, Goto, TypeOK, Phases
<1>12. CASE WriteBack(h)
  <2>1. PICK k \in 1 .. Len(lines[h]) :
          /\ file' = file \o SubSeq(lines[h], 1, k)
          /\ lines' = [lines EXCEPT ![h] = SubSeq(@, k + 1, Len(@))]
    BY <1>12 DEF WriteBack
  <2>2. /\ SubSeq(lines[h], 1, k) \in Seq(Nat) /\ SubSeq(lines[h], k + 1, Len(lines[h])) \in Seq(Nat)
    <3>1. k \in 0 .. Len(lines[h])
      BY <1>1, Elements
    <3>2. SubSeq(lines[h], k + 1, Len(lines[h])) \in Seq(Nat)
      BY <1>1, <3>1, DropElements
    <3>3. 1 \in Int /\ k \in Int /\ \A i \in 1 .. k : lines[h][i] \in Nat
      <4>1. \A i \in 1 .. Len(lines[h]) : lines[h][i] \in Nat
        BY <1>1, Elements
      <4> QED
        BY <1>1, <3>1, <4>1
    <3>4. SubSeq(lines[h], 1, k) \in Seq(Nat)
      BY <3>3, SubSeqProperties
    <3> QED
      BY <3>2, <3>4
  <2>3. file' \in Seq(Nat)
    BY <2>1, <2>2, ConcatProperties DEF TypeOK
  <2>4. lines' \in [Handlers -> Seq(Nat)]
    BY <2>1, <2>2 DEF TypeOK
  <2> QED
    BY <1>12, <2>3, <2>4 DEF WriteBack, TypeOK, readers
<1>13. CASE Pop(h)
  <2>1. offline' \in Seq(Nat)
    <3>1. offline # <<>>
      BY <1>13 DEF Pop, Locked
    <3> QED
      BY <1>13, <3>1, TailElements DEF Pop, TypeOK
  <2> QED
    BY <1>13, <2>1 DEF Pop, Unlock, Goto, TypeOK, Phases, readers
<1>14. CASE MarkFails(h)
  BY <1>1, <1>14 DEF MarkFails, Goto, TypeOK, Phases, readers
<1> QED
  BY <1>3, <1>4, <1>5, <1>6, <1>7, <1>8, <1>9, <1>10, <1>11, <1>12, <1>13, <1>14 DEF HandlerStep

\* A handler that has done a step was alone: the others were idle, and are.
LEMMA Alone ==
  ASSUME TypeOK, Locked, NEW h \in Handlers, HandlerStep(h)
  PROVE  \A g \in Handlers : g # h => pc[g] = "idle" /\ pc'[g] = "idle" /\ lines'[g] = lines[g]
<1>1. pc[h] # "idle" \/ mtx = Nobody
  BY DEF HandlerStep, AppendShort, AppendLong, Newline, AppendFails, QueueOffline, Deliver,
         SendThrows, Sent, ReadLines, Truncate, WriteBack, MarkFails, Pop, Lock
<1>2. \A g \in Handlers : g # h => pc[g] = "idle"
  BY <1>1, HistoryAssumption DEF Locked
<1>3. \A g \in Handlers : g # h => pc'[g] = pc[g]
  BY DEF HandlerStep, AppendShort, AppendLong, Newline, AppendFails, QueueOffline, Deliver,
         SendThrows, Sent, ReadLines, Truncate, WriteBack, MarkFails, Pop, Unlock, Goto, writers, TypeOK
<1>4. \A g \in Handlers : g # h => lines'[g] = lines[g]
  BY DEF HandlerStep, AppendShort, AppendLong, Newline, AppendFails, QueueOffline, Deliver,
         SendThrows, Sent, ReadLines, Truncate, WriteBack, MarkFails, Pop, writers, TypeOK
<1> QED
  BY <1>2, <1>3, <1>4

\* They keep the mutex with the handler that needs it.
LEMMA HandlerLocked ==
  ASSUME TypeOK, Locked, NEW h \in Handlers, HandlerStep(h)
  PROVE  Locked'
<1> DEFINE Fine(g) == /\ pc'[g] # "idle" <=> mtx' = g
                      /\ pc'[g] \notin {"idle", "newline"} => offline' # <<>>
                      /\ pc'[g] = "truncate" => lines'[g] = Rewritten(file')
<1>1. TypeOK'
  BY HandlerTypes
<1>2. mtx' \in {h, Nobody}
  BY HistoryAssumption DEF HandlerStep, AppendShort, AppendLong, Newline, AppendFails,
       QueueOffline, Deliver, SendThrows, Sent, ReadLines, Truncate, WriteBack, MarkFails, Pop,
       Lock, Unlock, writers, Locked
<1>3. \A g \in Handlers : g # h => Fine(g)
  BY <1>2, Alone, HistoryAssumption
<1>4. Fine(h)
  <2>1. h # Nobody
    BY HistoryAssumption
  <2>2. CASE AppendShort(h)
    BY <2>1, <2>2 DEF AppendShort, Locked, writers
  <2>3. CASE AppendLong(h)
    BY <2>1, <2>3 DEF AppendLong, Lock, Goto, TypeOK
  <2>4. CASE Newline(h) \/ SendThrows(h)
    BY <2>1, <2>4 DEF Newline, SendThrows, Unlock, Goto, TypeOK
  <2>5. CASE QueueOffline(h) \/ AppendFails(h)
    BY <2>1, <2>5 DEF QueueOffline, AppendFails, writers, Locked
  <2>6. CASE Deliver(h) \/ Sent(h)
    BY <2>1, <2>6 DEF Deliver, Sent, Lock, Goto, TypeOK, Locked
  <2>7. CASE ReadLines(h) \/ MarkFails(h)
    BY <2>1, <2>7 DEF ReadLines, MarkFails, Goto, TypeOK, Locked
  <2>8. CASE Truncate(h)
    BY <2>1, <2>8 DEF Truncate, Goto, TypeOK, Locked
  <2>9. CASE WriteBack(h)
    BY <2>1, <2>9 DEF WriteBack, TypeOK, Locked
  <2>10. CASE Pop(h)
    <3>1. offline # <<>>
      BY <2>10 DEF Pop, Locked
    <3>2. Len(offline) # 1 => Tail(offline) # <<>>
      BY <3>1, TailElements DEF TypeOK
    <3> QED
      BY <2>1, <2>10, <3>2 DEF Pop, Unlock, Goto, TypeOK, Locked
  <2> QED
    BY <2>2, <2>3, <2>4, <2>5, <2>6, <2>7, <2>8, <2>9, <2>10 DEF HandlerStep
<1> QED
  BY <1>3, <1>4 DEF Locked

\* So the file, as it will be after a rewrite, depends on that handler only.
LEMMA OneHandler ==
  ASSUME TypeOK, Locked, NEW h \in Handlers, HandlerStep(h)
  PROVE  /\ Whole = IF pc[h] = "rewrite" THEN file \o lines[h] ELSE file
         /\ Whole' = IF pc'[h] = "rewrite" THEN file' \o lines'[h] ELSE file'
         /\ Rewriting <=> pc[h] = "rewrite"
         /\ Rewriting' <=> pc'[h] = "rewrite"
         /\ Unended <=> pc[h] = "newline"
         /\ Unended' <=> pc'[h] = "newline"
<1>1. TypeOK' /\ Locked' /\ h # Nobody
  BY HandlerTypes, HandlerLocked, HistoryAssumption
<1>2. /\ Rewriting <=> pc[h] = "rewrite"
      /\ Rewriting' <=> pc'[h] = "rewrite"
      /\ Unended <=> pc[h] = "newline"
      /\ Unended' <=> pc'[h] = "newline"
  BY Alone DEF Rewriting, Unended
<1>3. Whole = IF pc[h] = "rewrite" THEN file \o lines[h] ELSE file
  BY <1>2, WholeFile
<1>4. Whole' = IF pc'[h] = "rewrite" THEN file' \o lines'[h] ELSE file'
  <2>1. file' \o <<>> = file'
    BY <1>1, ConcatEmptySeq DEF TypeOK
  <2>2. CASE pc'[h] = "rewrite"
    <3>1. mtx' = h
      BY <1>1, <2>2 DEF Locked
    <3> QED
      BY <1>1, <2>2, <3>1 DEF Whole
  <2>3. CASE pc'[h] # "rewrite"
    <3>1. ~(mtx' # Nobody /\ pc'[mtx'] = "rewrite")
      BY <1>1, <2>3, Alone DEF Locked, TypeOK
    <3>2. Whole' = file' \o <<>>
      BY <3>1 DEF Whole
    <3> QED
      BY <2>1, <2>3, <3>2
  <2> QED
    BY <2>2, <2>3
<1> QED
  BY <1>2, <1>3, <1>4

\* Two elements behind f are appended one after the other.
LEMMA AppendTwice ==
  ASSUME NEW f \in Seq(Nat), NEW d \in Nat, NEW e \in Nat
  PROVE  f \o <<d, e>> = Append(Append(f, d), e)
<1> DEFINE t == <<d, e>>
           g == Append(f, d)
<1>1. t \in Seq(Nat) /\ Len(t) = 2 /\ t[1] = d /\ t[2] = e
  OBVIOUS
<1>2. g \in Seq(Nat) /\ Len(g) = Len(f) + 1 /\ g[Len(f) + 1] = d /\ \A i \in 1 .. Len(f) : g[i] = f[i]
  BY AppendProperties
<1> HIDE DEF t, g
<1>3. /\ Append(g, e) \in Seq(Nat) /\ Len(Append(g, e)) = Len(g) + 1 /\ Append(g, e)[Len(g) + 1] = e
      /\ \A i \in 1 .. Len(g) : Append(g, e)[i] = g[i]
  BY <1>2, AppendProperties
<1>4. /\ f \o t \in Seq(Nat) /\ Len(f \o t) = Len(f) + Len(t)
      /\ \A i \in 1 .. Len(f) + Len(t) : (f \o t)[i] = IF i <= Len(f) THEN f[i] ELSE t[i - Len(f)]
  BY <1>1, ConcatProperties
<1>5. Len(f) \in Nat
  BY Elements
<1>6. ASSUME NEW i \in 1 .. Len(f \o t) PROVE (f \o t)[i] = Append(g, e)[i]
  <2>1. i \in 1 .. Len(f) \/ i = Len(f) + 1 \/ i = Len(f) + 2
    <3>1. i \in 1 .. Len(f) + 2
      BY <1>1, <1>4
    <3> QED
      BY <1>5, <3>1
  <2>2. CASE i \in 1 .. Len(f)
    <3>1. i <= Len(f) /\ i \in 1 .. Len(g) /\ i \in 1 .. Len(f) + Len(t)
      BY <1>1, <1>2, <1>5, <2>2
    <3> QED
      BY <1>2, <1>3, <1>4, <2>2, <3>1
  <2>3. CASE i = Len(f) + 1
    <3>1. ~(i <= Len(f)) /\ i - Len(f) = 1 /\ i \in 1 .. Len(g) /\ i \in 1 .. Len(f) + Len(t)
      BY <1>1, <1>2, <1>5, <2>3
    <3> QED
      BY <1>1, <1>2, <1>3, <1>4, <2>3, <3>1
  <2>4. CASE i = Len(f) + 2
    <3>1. ~(i <= Len(f)) /\ i - Len(f) = 2 /\ i = Len(g) + 1 /\ i \in 1 .. Len(f) + Len(t)
      BY <1>1, <1>2, <1>5, <2>4
    <3> QED
      BY <1>1, <1>3, <1>4, <3>1
  <2> QED
    BY <2>1, <2>2, <2>3, <2>4
<1>7. Len(f \o t) = Len(Append(g, e))
  BY <1>1, <1>2, <1>3, <1>4, <1>5
<1>8. f \o t = Append(g, e)
  BY <1>3, <1>4, <1>6, <1>7, SeqEqual
<1> QED
  BY <1>8 DEF t, g

\* What every step of a handler writes.
LEMMA HandlerWrites ==
  ASSUME TypeOK, Locked, NEW h \in Handlers, HandlerStep(h)
  PROVE  Writes
<1>1. /\ Whole = IF pc[h] = "rewrite" THEN file \o lines[h] ELSE file
      /\ Whole' = IF pc'[h] = "rewrite" THEN file' \o lines'[h] ELSE file'
      /\ Unended <=> pc[h] = "newline"
      /\ Unended' <=> pc'[h] = "newline"
  BY OneHandler
<1>2. /\ messages \in Nat /\ messages <= messages /\ messages <= messages + 1 /\ LineEnd \in Nat
      /\ file \in Seq(Nat) /\ file \o <<>> = file /\ lines[h] \in Seq(Nat)
  BY ConcatEmptySeq DEF TypeOK, LineEnd
<1>3. mtx = Nobody => pc[h] = "idle"
  BY HistoryAssumption DEF Locked
<1>4. CASE AppendShort(h)
  <2>1. pc[h] = "idle" /\ pc'[h] = "idle"
    BY <1>4 DEF AppendShort, writers
  <2>2. file' = Append(Append(file, messages + 1), LineEnd)
    BY <1>2, <1>4, AppendTwice DEF AppendShort
  <2>3. Recorded
    BY <1>1, <1>4, <2>1, <2>2 DEF AppendShort, Recorded
  <2> QED
    BY <2>3 DEF Writes
<1>5. CASE AppendLong(h)
  <2>1. Begun
    BY <1>1, <1>5 DEF AppendLong, Goto, Begun, TypeOK
  <2> QED
    BY <2>1 DEF Writes
<1>6. CASE Newline(h)
  <2>1. Ended
    BY <1>1, <1>6 DEF Newline, Unlock, Goto, Ended, TypeOK
  <2> QED
    BY <2>1 DEF Writes
<1>7. CASE \/ AppendFails(h) \/ QueueOffline(h) \/ Deliver(h) \/ SendThrows(h) \/ Sent(h)
           \/ ReadLines(h) \/ MarkFails(h)
  <2>1. /\ file' = file /\ appended' = appended /\ messages <= messages'
        /\ pc[h] \notin {"newline", "rewrite"} /\ pc'[h] \notin {"newline", "rewrite"}
    BY <1>2, <1>7 DEF AppendFails, QueueOffline, Deliver, SendThrows, Sent, ReadLines, MarkFails,
         Unlock, Goto, writers, TypeOK
  <2>2. Rests
    BY <1>1, <2>1 DEF Rests
  <2> QED
    BY <2>2 DEF Writes
<1>8. CASE Truncate(h)
  <2>1. /\ pc[h] = "truncate" /\ pc'[h] = "rewrite" /\ lines'[h] = lines[h] /\ file' = <<>>
        /\ messages' = messages /\ appended' = appended
    BY <1>8 DEF Truncate, Goto, TypeOK
  <2>2. lines[h] = Rewritten(file)
    BY <2>1 DEF Locked
  <2>3. <<>> \o lines[h] = lines[h]
    BY <1>2, ConcatEmptySeq
  <2>4. Completed
    BY <1>1, <2>1, <2>2, <2>3 DEF Completed
  <2> QED
    BY <2>4 DEF Writes
<1>9. CASE WriteBack(h)
  <2> DEFINE s == lines[h]
  <2>1. PICK k \in 1 .. Len(s) :
          /\ file' = file \o SubSeq(s, 1, k)
          /\ lines' = [lines EXCEPT ![h] = SubSeq(s, k + 1, Len(s))]
    BY <1>9 DEF WriteBack
  <2>2. lines'[h] = SubSeq(s, k + 1, Len(s))
    BY <2>1 DEF TypeOK
  <2>3. pc[h] = "rewrite" /\ pc'[h] = "rewrite" /\ messages' = messages /\ appended' = appended
    BY <1>9 DEF WriteBack
  <2> HIDE DEF s
  <2>4. s \in Seq(Nat)
    BY <1>2 DEF s
  <2>5. SubSeq(s, 1, k) \in Seq(Nat) /\ SubSeq(s, k + 1, Len(s)) \in Seq(Nat)
    <3>1. k \in 0 .. Len(s) /\ 1 \in Int /\ k \in Int /\ \A i \in 1 .. k : s[i] \in Nat
      <4>1. \A i \in 1 .. Len(s) : s[i] \in Nat
        BY <2>4, Elements
      <4>2. Len(s) \in Nat
        BY <2>4, Elements
      <4> QED
        BY <4>1, <4>2
    <3>2. SubSeq(s, k + 1, Len(s)) \in Seq(Nat)
      BY <2>4, <3>1, DropElements
    <3>3. SubSeq(s, 1, k) \in Seq(Nat)
      BY <3>1, SubSeqProperties
    <3> QED
      BY <3>2, <3>3
  <2>6. SubSeq(s, 1, k) \o SubSeq(s, k + 1, Len(s)) = s
    <3>1. /\ 1 \in 1 .. Len(s) + 1 /\ k \in 1 - 1 .. Len(s) /\ Len(s) \in k .. Len(s)
      BY <2>4, Elements
    <3>2. SubSeq(s, 1, k) \o SubSeq(s, k + 1, Len(s)) = SubSeq(s, 1, Len(s))
      BY <2>4, <3>1, ConcatAdjacentSubSeq
    <3>3. SubSeq(s, 1, Len(s)) = s
      BY <2>4, SubSeqFull
    <3> QED
      BY <3>2, <3>3
  <2>7. file' \o lines'[h] = file \o s
    <3>1. \A f, t, u \in Seq(Nat) : (f \o t) \o u = f \o (t \o u)
      BY ConcatAssociative
    <3> DEFINE t == SubSeq(s, 1, k)
               u == SubSeq(s, k + 1, Len(s))
    <3>2. t \in Seq(Nat) /\ u \in Seq(Nat) /\ t \o u = s /\ file' = file \o t /\ lines'[h] = u
      BY <2>1, <2>2, <2>5, <2>6
    <3> HIDE DEF t, u
    <3> QED
      BY <1>2, <3>1, <3>2
  <2>8. Whole' = Whole
    BY <1>1, <2>3, <2>7 DEF s
  <2>9. Rests
    BY <1>1, <1>2, <2>3, <2>8 DEF Rests
  <2> QED
    BY <2>9 DEF Writes
<1>10. CASE Pop(h)
  <2>1. /\ pc[h] = "pop" \/ (pc[h] = "rewrite" /\ lines[h] = <<>>)
        /\ pc'[h] \in {"idle", "send"} /\ file' = file
        /\ messages' = messages /\ appended' = appended
    BY <1>10 DEF Pop, Unlock, Goto, TypeOK
  <2>2. Rests
    BY <1>1, <1>2, <2>1 DEF Rests
  <2> QED
    BY <2>2 DEF Writes
<1> QED
  BY <1>4, <1>5, <1>6, <1>7, <1>8, <1>9, <1>10 DEF HandlerStep

\* Readers are not disturbed, but for what truncating the file takes from them.
LEMMA HandlerReaders ==
  ASSUME TypeOK, Locked, NEW h \in Handlers, HandlerStep(h)
  PROVE  /\ UNCHANGED <<reading, pos, got, damaged>>
         /\ \/ floor' = floor /\ (Rewriting' => Rewriting)
            \/ floor' = [r \in Readers |-> 0]
<1>1. (Rewriting <=> pc[h] = "rewrite") /\ (Rewriting' <=> pc'[h] = "rewrite")
  BY OneHandler
<1>2. UNCHANGED <<reading, pos, got, damaged>>
  BY DEF HandlerStep, AppendShort, AppendLong, Newline, AppendFails, QueueOffline, Deliver,
         SendThrows, Sent, ReadLines, Truncate, WriteBack, MarkFails, Pop, readers
<1>3. CASE Truncate(h)
  BY <1>2, <1>3 DEF Truncate
<1>4. CASE ~Truncate(h)
  <2>1. floor' = floor
    BY <1>4 DEF HandlerStep, AppendShort, AppendLong, Newline, AppendFails, QueueOffline,
           Deliver, SendThrows, Sent, ReadLines, WriteBack, MarkFails, Pop, readers
  <2>2. pc'[h] = "rewrite" => pc[h] = "rewrite"
    BY <1>4 DEF HandlerStep, AppendShort, AppendLong, Newline, AppendFails, QueueOffline,
           Deliver, SendThrows, Sent, ReadLines, WriteBack, MarkFails, Pop, Goto, Unlock, writers, TypeOK
  <2> QED
    BY <1>1, <1>2, <2>1, <2>2
<1> QED
  BY <1>3, <1>4

\* The n elements of a from the i-th are s.
Run(a, i, s) == i + Len(s) - 1 <= Len(a) /\ SubSeq(a, i, i + Len(s) - 1) = s

\* They remain so when something is appended.
LEMMA RunRemains ==
  ASSUME NEW a \in Seq(Nat), NEW e \in Nat, NEW i \in DOMAIN a, NEW s \in Seq(Nat), s # <<>>,
         Run(a, i, s)
  PROVE  i \in DOMAIN Append(a, e) /\ Run(Append(a, e), i, s)
<1> DEFINE n == i + Len(s) - 1
<1>1. /\ Len(a) \in Nat /\ DOMAIN a = 1 .. Len(a) /\ Len(s) \in Nat /\ Len(s) # 0
      /\ Len(Append(a, e)) = Len(a) + 1 /\ DOMAIN Append(a, e) = 1 .. Len(a) + 1
  BY Elements, EmptySeq, AppendProperties, AppendElements
<1>2. n \in 1 .. Len(a) /\ i \in 1 .. Len(a) /\ n <= Len(a) + 1
  BY <1>1 DEF Run
<1>3. Append(a, e) = a \o <<e>> /\ <<e>> \in Seq(Nat)
  BY AppendIsConcat
<1> HIDE DEF n
<1>4. SubSeq(a \o <<e>>, i, n) = SubSeq(a, i, n)
  BY <1>2, <1>3, SubSeqOfConcat1
<1>5. SubSeq(a, i, n) = s
  BY DEF Run, n
<1>6. i \in DOMAIN Append(a, e) /\ n <= Len(Append(a, e))
  BY <1>1, <1>2
<1>7. SubSeq(Append(a, e), i, n) = s
  BY <1>3, <1>4, <1>5
<1> QED
  BY <1>6, <1>7 DEF Run, n

\* What is the beginning of the beginning of a file is its beginning.
LEMMA BeginsTransitive ==
  ASSUME NEW e \in Seq(Nat), NEW f \in Seq(Nat), NEW g \in Seq(Nat), Begins(e, f), Begins(f, g)
  PROVE  Begins(e, g)
<1>1. /\ Len(e) \in Nat /\ Len(f) \in Nat /\ Len(g) \in Nat
      /\ DOMAIN e = 1 .. Len(e) /\ DOMAIN f = 1 .. Len(f)
  BY Elements
<1> QED
  BY <1>1 DEF Begins

\* A step of a handler keeps the invariant.
LEMMA HandlerKeeps ==
  ASSUME HistoryInv, NEW h \in Handlers, HandlerStep(h)
  PROVE  HistoryInv'
<1>1. TypeOK /\ Locked /\ WellFormed
  BY DEF HistoryInv
<1>2. TypeOK' /\ Locked' /\ Writes /\ UNCHANGED <<reading, pos, got, damaged>>
  BY <1>1, HandlerTypes, HandlerLocked, HandlerWrites, HandlerReaders
<1>3. WellFormed'
  BY <1>1, <1>2, WritesWellFormed
<1>4. \/ floor' = floor /\ (Rewriting' => Rewriting)
      \/ floor' = [r \in Readers |-> 0]
  BY <1>1, HandlerReaders
<1>5. messages + 1 \in Nat /\ appended \in Seq(Nat)
  BY <1>1 DEF TypeOK
<1>6. appended' = appended \/ appended' = Append(appended, messages + 1)
  BY <1>2 DEF Writes, Rests, Recorded, Begun, Ended, Completed
<1>7. Len(appended) \in Nat /\ Len(appended') \in Nat /\ Len(appended) <= Len(appended')
  <2>1. Len(appended) \in Nat /\ Len(Append(appended, messages + 1)) = Len(appended) + 1
    BY <1>5, AppendProperties, Elements
  <2> QED
    BY <1>6, <2>1
<1>8. ReadsWhole'
  <2>1. Whole \in Seq(Nat) /\ Whole' \in Seq(Nat) /\ Begins(Whole, Whole')
    BY <1>1, <1>2, WholeFile, WritesAppend
  <2> SUFFICES ASSUME NEW r \in Readers, reading'[r]
               PROVE  Len(got'[r]) = pos'[r] /\ Begins(got'[r], Whole')
    BY DEF ReadsWhole
  <2>2. got[r] \in Seq(Nat) /\ Len(got[r]) = pos[r] /\ Begins(got[r], Whole)
    BY <1>1, <1>2 DEF HistoryInv, ReadsWhole, TypeOK
  <2>3. Begins(got[r], Whole')
    BY <2>1, <2>2, BeginsTransitive
  <2> QED
    BY <1>2, <2>2, <2>3
<1>9. Undisturbed'
  <2> SUFFICES ASSUME NEW r \in Readers
               PROVE  floor'[r] <= Len(appended') /\ (Rewriting' => floor'[r] = 0)
    BY DEF Undisturbed
  <2>1. floor[r] \in Nat /\ floor[r] <= Len(appended) /\ (Rewriting => floor[r] = 0)
    BY <1>1 DEF HistoryInv, Undisturbed, TypeOK
  <2> QED
    BY <1>4, <1>7, <2>1
<1>10. AnswerIsConsecutive'
  <2> SUFFICES ASSUME NEW r \in Readers, ~reading'[r]
               PROVE  /\ \A i, j \in DOMAIN got'[r] : i < j => got'[r][i] < got'[r][j]
                      /\ ~damaged' /\ got'[r] # <<>> => \E i \in DOMAIN appended' : Run(appended', i, got'[r])
    BY DEF AnswerIsConsecutive, Run
  <2>1. /\ \A i, j \in DOMAIN got[r] : i < j => got[r][i] < got[r][j]
        /\ ~damaged /\ got[r] # <<>> => \E i \in DOMAIN appended : Run(appended, i, got[r])
    BY <1>2 DEF HistoryInv, AnswerIsConsecutive, Run
  <2>2. ASSUME ~damaged, got[r] # <<>> PROVE \E i \in DOMAIN appended' : Run(appended', i, got[r])
    <3>1. PICK i \in DOMAIN appended : Run(appended, i, got[r])
      BY <2>1, <2>2
    <3>2. got[r] \in Seq(Nat)
      BY <1>1 DEF TypeOK
    <3>3. i \in DOMAIN appended' /\ Run(appended', i, got[r])
      BY <1>5, <1>6, <2>2, <3>1, <3>2, RunRemains
    <3> QED
      BY <3>3
  <2> QED
    BY <1>2, <2>1, <2>2
<1>11. UndisturbedAnswerIsComplete'
  <2> SUFFICES ASSUME NEW r \in Readers, ~reading'[r], ~damaged' PROVE Len(got'[r]) >= floor'[r]
    BY DEF UndisturbedAnswerIsComplete
  <2>1. Len(got[r]) >= floor[r] /\ Len(got[r]) \in Nat
    BY <1>1, <1>2, Elements DEF HistoryInv, UndisturbedAnswerIsComplete, TypeOK
  <2> QED
    BY <1>2, <1>4, <2>1
<1> QED
  BY <1>2, <1>3, <1>8, <1>9, <1>10, <1>11 DEF HistoryInv

------------------------------------------------------------------------------
(* The steps of a reader *)

\* Reading leaves the file, and what is known of it, as they are.
LEMMA FileRests ==
  ASSUME TypeOK, Locked, WellFormed,
         UNCHANGED <<file, writers, messages, appended, damaged>>
  PROVE  /\ Whole' = Whole /\ (Rewriting' <=> Rewriting) /\ (Unended' <=> Unended)
         /\ Locked' /\ WellFormed'
<1>1. /\ file' = file /\ mtx' = mtx /\ pc' = pc /\ lines' = lines /\ offline' = offline
      /\ messages' = messages /\ appended' = appended /\ damaged' = damaged
  BY DEF writers
<1>2. Whole' = Whole
  BY <1>1 DEF Whole
<1>3. (Rewriting' <=> Rewriting) /\ (Unended' <=> Unended)
  BY <1>1 DEF Rewriting, Unended
<1>4. Locked'
  BY <1>1 DEF Locked
<1>5. WellFormed'
  BY <1>1, <1>2, <1>3 DEF WellFormed
<1> QED
  BY <1>2, <1>3, <1>4, <1>5

\* The file is the beginning of what it will be after a rewrite.
LEMMA FileBegins ==
  ASSUME TypeOK, Locked
  PROVE  Begins(file, Whole)
<1>1. file \in Seq(Nat) /\ Len(file) \in Nat /\ DOMAIN file = 1 .. Len(file)
  BY Elements DEF TypeOK
<1>2. CASE Rewriting
  <2>1. PICK h \in Handlers : pc[h] = "rewrite"
    BY <1>2 DEF Rewriting
  <2>2. Whole = file \o lines[h] /\ lines[h] \in Seq(Nat)
    BY <2>1, WholeFile DEF TypeOK
  <2>3. Len(lines[h]) \in Nat /\ Len(Whole) = Len(file) + Len(lines[h])
    BY <1>1, <2>2, ConcatProperties, Elements
  <2>4. \A i \in DOMAIN file : Whole[i] = file[i]
    BY <1>1, <2>2, ConcatElements
  <2> QED
    BY <1>1, <2>3, <2>4 DEF Begins
<1>3. CASE ~Rewriting
  <2>1. Whole = file
    BY <1>3, WholeFile
  <2>2. Len(file) <= Len(file)
    BY <1>1
  <2> QED
    BY <2>1, <2>2 DEF Begins
<1> QED
  BY <1>2, <1>3, Zenon

\* Reading on from where one is.
LEMMA ReadOn ==
  ASSUME NEW f \in Seq(Nat), NEW w \in Seq(Nat), NEW g \in Seq(Nat), Begins(f, w), Begins(g, w),
         NEW k \in Len(g) + 1 .. Len(f)
  PROVE  LET s == g \o SubSeq(f, Len(g) + 1, k)
         IN  s \in Seq(Nat) /\ Len(s) = k /\ Begins(s, w)
<1> DEFINE n == Len(g)
           t == SubSeq(f, n + 1, k)
           s == g \o t
<1>1. /\ n \in Nat /\ DOMAIN g = 1 .. n /\ Len(f) \in Nat /\ DOMAIN f = 1 .. Len(f)
      /\ Len(w) \in Nat /\ \A i \in 1 .. Len(f) : f[i] \in Nat
  BY Elements
<1>2. t \in Seq(Nat) /\ Len(t) = k - n /\ \A i \in 1 .. k - n : t[i] = f[n + i]
  <2>1. n + 1 \in Int /\ k \in Int /\ n + 1 <= k /\ \A i \in n + 1 .. k : f[i] \in Nat
    BY <1>1
  <2>2. /\ t \in Seq(Nat) /\ Len(t) = k - (n + 1) + 1
        /\ \A i \in 1 .. k - (n + 1) + 1 : t[i] = f[n + 1 + i - 1]
    BY <2>1, SubSeqProperties
  <2>3. k - (n + 1) + 1 = k - n /\ \A i \in 1 .. k - n : n + 1 + i - 1 = n + i
    BY <1>1
  <2> HIDE DEF t
  <2> QED
    BY <2>2, <2>3
<1> HIDE DEF t
<1>3. /\ s \in Seq(Nat) /\ Len(s) = n + Len(t)
      /\ \A i \in 1 .. n + Len(t) : s[i] = IF i <= n THEN g[i] ELSE t[i - n]
  BY <1>2, ConcatProperties
<1> HIDE DEF s
<1>4. Len(s) = k
  BY <1>1, <1>2, <1>3
<1>5. k <= Len(w) /\ k <= Len(f)
  BY <1>1 DEF Begins
<1>6. ASSUME NEW i \in DOMAIN s PROVE s[i] = w[i]
  <2>1. i \in 1 .. k
    BY <1>3, <1>4, Elements
  <2>2. CASE i <= n
    <3>1. i \in DOMAIN g /\ i \in 1 .. n + Len(t)
      BY <1>1, <1>2, <2>1, <2>2
    <3>2. g[i] = w[i]
      BY <3>1 DEF Begins
    <3> QED
      BY <1>3, <2>2, <3>1, <3>2
  <2>3. CASE ~(i <= n)
    <3>1. i - n \in 1 .. k - n /\ n + (i - n) = i /\ i \in DOMAIN f /\ i \in 1 .. n + Len(t)
      <4>1. n \in Nat /\ k \in Nat /\ i \in 1 .. k /\ ~(i <= n)
        BY <1>1, <2>1, <2>3
      <4>2. i - n \in 1 .. k - n /\ n + (i - n) = i
        BY <4>1
      <4>3. n + Len(t) = k
        BY <1>2, <4>1
      <4>4. i \in DOMAIN f
        BY <1>1, <1>5, <4>1
      <4> QED
        BY <4>1, <4>2, <4>3, <4>4
    <3>2. t[i - n] = f[i]
      BY <1>2, <3>1
    <3>3. f[i] = w[i]
      BY <3>1 DEF Begins
    <3> QED
      BY <1>3, <2>3, <3>1, <3>2, <3>3
  <2> QED
    BY <2>2, <2>3
<1>7. s \in Seq(Nat) /\ Len(s) = k /\ Begins(s, w)
  BY <1>3, <1>4, <1>5, <1>6 DEF Begins
<1> QED
  BY <1>7 DEF s, t, n

\* The last records are those from some place on: the first, if all are asked for.
LEMMA LastRecordsAreTheRest ==
  ASSUME NEW s \in Seq(Nat), NEW n \in Nat
  PROVE  \E k \in 0 .. Len(s) : (n = 0 => k = 0) /\ LastRecords(s, n) = SubSeq(s, k + 1, Len(s))
<1>1. Len(s) \in Nat
  BY Elements
<1>2. CASE n > 0 /\ n < Len(s)
  <2> DEFINE k == Len(s) - n
  <2>1. k \in 0 .. Len(s) /\ n # 0
    BY <1>1, <1>2
  <2>2. LastRecords(s, n) = SubSeq(s, k + 1, Len(s))
    BY <1>2 DEF LastRecords
  <2> HIDE DEF k
  <2> QED
    BY <2>1, <2>2
<1>3. CASE ~(n > 0 /\ n < Len(s))
  <2>1. LastRecords(s, n) = s
    BY <1>3 DEF LastRecords
  <2>2. SubSeq(s, 0 + 1, Len(s)) = s
    BY SubSeqFull
  <2>3. 0 \in 0 .. Len(s)
    BY <1>1
  <2> QED
    BY <2>1, <2>2, <2>3
<1> QED
  BY <1>2, <1>3

\* If s begins a, what it has from some place on is a run of a.
LEMMA RestIsRun ==
  ASSUME NEW s \in Seq(Nat), NEW a \in Seq(Nat), Begins(s, a), NEW k \in 0 .. Len(s),
         SubSeq(s, k + 1, Len(s)) # <<>>
  PROVE  \E i \in DOMAIN a : Run(a, i, SubSeq(s, k + 1, Len(s)))
<1> DEFINE t == SubSeq(s, k + 1, Len(s))
           c == Len(s)
           v == SubSeq(a, k + 1, c)
<1>1. /\ c \in Nat /\ DOMAIN s = 1 .. c /\ Len(a) \in Nat /\ DOMAIN a = 1 .. Len(a) /\ c <= Len(a)
      /\ \A i \in 1 .. Len(a) : a[i] \in Nat
  BY Elements DEF Begins
<1>2. /\ t \in Seq(Nat) /\ Len(t) = c - k
      /\ \A i \in 1 .. c - k : k + i \in DOMAIN s /\ t[i] = s[k + i]
  BY DropElements
<1>3. k < c
  <2>1. Len(t) # 0
    BY <1>2, EmptySeq
  <2>2. Len(t) = c - k /\ c \in Nat /\ k \in 0 .. c
    BY <1>1, <1>2
  <2> HIDE DEF t, c
  <2> QED
    BY <2>1, <2>2
<1>4. v \in Seq(Nat) /\ Len(v) = c - k /\ \A i \in 1 .. c - k : v[i] = a[k + i]
  <2>1. k + 1 \in Int /\ c \in Int /\ k + 1 <= c /\ \A i \in k + 1 .. c : a[i] \in Nat
    <3>1. k + 1 \in Int /\ c \in Int /\ k + 1 <= c
      BY <1>1, <1>3
    <3>2. \A i \in k + 1 .. c : i \in 1 .. Len(a)
      BY <1>1
    <3> QED
      BY <1>1, <3>1, <3>2
  <2>2. /\ v \in Seq(Nat) /\ Len(v) = c - (k + 1) + 1
        /\ \A i \in 1 .. c - (k + 1) + 1 : v[i] = a[k + 1 + i - 1]
    BY <2>1, SubSeqProperties
  <2>3. c - (k + 1) + 1 = c - k /\ \A i \in 1 .. c - k : k + 1 + i - 1 = k + i
    BY <1>1
  <2> HIDE DEF v
  <2> QED
    BY <2>2, <2>3
<1> HIDE DEF t, v, c
<1>5. v = t
  <2>1. \A i \in 1 .. Len(v) : v[i] = t[i]
    <3> SUFFICES ASSUME NEW i \in 1 .. c - k PROVE v[i] = t[i]
      BY <1>4
    <3>1. s[k + i] = a[k + i]
      BY <1>2 DEF Begins
    <3> QED
      BY <1>2, <1>4, <3>1
  <2> QED
    BY <1>2, <1>3, <1>4, <2>1, SeqEqual
<1>6. k + 1 \in DOMAIN a /\ k + 1 + Len(t) - 1 = c
  <2>1. k + 1 \in 1 .. Len(a)
    BY <1>1, <1>3
  <2>2. k + 1 + (c - k) - 1 = c
    BY <1>1
  <2> QED
    BY <1>1, <1>2, <2>1, <2>2
<1>7. Run(a, k + 1, t)
  BY <1>1, <1>5, <1>6 DEF Run, v
<1> QED
  BY <1>6, <1>7 DEF t, c

\* What the invariant says of one reader.
ReaderInv(r) ==
  /\ reading[r] => Len(got[r]) = pos[r] /\ Begins(got[r], Whole)
  /\ floor[r] <= Len(appended) /\ (Rewriting => floor[r] = 0)
  /\ ~reading[r] =>
       /\ \A i, j \in DOMAIN got[r] : i < j => got[r][i] < got[r][j]
       /\ ~damaged /\ got[r] # <<>> => \E i \in DOMAIN appended : Run(appended, i, got[r])
       /\ ~damaged => Len(got[r]) >= floor[r]

\* When a reader begins, it is at the beginning of the file.
LEMMA BeginReadingKeeps ==
  ASSUME HistoryInv, NEW r \in Readers, BeginReading(r), TypeOK', Whole' = Whole
  PROVE  ReaderInv(r)'
<1>1. /\ reading'[r] = TRUE /\ pos'[r] = 0 /\ got'[r] = <<>> /\ appended' = appended /\ pc' = pc
      /\ floor'[r] = IF Rewriting THEN 0 ELSE Len(appended)
  BY DEF HistoryInv, BeginReading, TypeOK, writers, Rewriting
<1>2. Len(appended) \in Nat /\ Len(appended) <= Len(appended) /\ 0 <= Len(appended)
  <2>1. Len(appended) \in Nat
    BY Elements DEF HistoryInv, TypeOK
  <2> QED
    BY <2>1
<1>3. Whole \in Seq(Nat)
  BY WholeFile DEF HistoryInv
<1>4. Begins(<<>>, Whole)
  <2>1. Len(Whole) \in Nat
    BY <1>3, Elements
  <2>2. Len(<<>>) = 0 /\ DOMAIN <<>> = {}
    BY EmptySeq
  <2> QED
    BY <2>1, <2>2 DEF Begins
<1>5. Rewriting' <=> Rewriting
  BY <1>1 DEF Rewriting
<1> QED
  BY <1>1, <1>2, <1>4, <1>5, EmptySeq DEF ReaderInv

\* A reader that cannot open the file answers without a record.
LEMMA NoHistoryKeeps ==
  ASSUME HistoryInv, NEW r \in Readers, NoHistory(r)
  PROVE  ReaderInv(r)'
<1>1. ~reading'[r] /\ got'[r] = <<>> /\ floor'[r] = 0 /\ appended' = appended
  BY DEF HistoryInv, NoHistory, TypeOK
<1>2. Len(appended) \in Nat /\ Len(<<>>) = 0 /\ DOMAIN <<>> = {}
  BY Elements, EmptySeq DEF HistoryInv, TypeOK
<1> QED
  BY <1>1, <1>2 DEF ReaderInv

\* A reader reads on in what the file is or was, which is how the file begins.
LEMMA ReadSomeKeeps ==
  ASSUME HistoryInv, NEW r \in Readers, ReadSome(r), Whole' = Whole
  PROVE  got'[r] \in Seq(Nat) /\ pos'[r] \in Nat /\ ReaderInv(r)'
<1>1. /\ reading[r] /\ TypeOK /\ Locked
      /\ Len(got[r]) = pos[r] /\ Begins(got[r], Whole)
      /\ floor[r] <= Len(appended) /\ (Rewriting => floor[r] = 0)
  BY DEF HistoryInv, ReadSome, ReadsWhole, Undisturbed
<1>2. PICK k \in pos[r] + 1 .. Len(file) :
        /\ got' = [got EXCEPT ![r] = @ \o SubSeq(file, pos[r] + 1, k)]
        /\ pos' = [pos EXCEPT ![r] = k]
  BY DEF ReadSome
<1>3. got'[r] = got[r] \o SubSeq(file, Len(got[r]) + 1, k) /\ pos'[r] = k
  BY <1>1, <1>2 DEF TypeOK
<1>4. file \in Seq(Nat) /\ Whole \in Seq(Nat) /\ got[r] \in Seq(Nat) /\ Begins(file, Whole)
  BY <1>1, WholeFile, FileBegins DEF TypeOK
<1>5. k \in Len(got[r]) + 1 .. Len(file)
  BY <1>1
<1>6. got'[r] \in Seq(Nat) /\ Len(got'[r]) = k /\ Begins(got'[r], Whole)
  <2> DEFINE g == got[r]
             s == g \o SubSeq(file, Len(g) + 1, k)
  <2>1. got'[r] = s
    BY <1>3
  <2>2. g \in Seq(Nat) /\ Begins(g, Whole) /\ k \in Len(g) + 1 .. Len(file)
    BY <1>1, <1>4, <1>5
  <2> HIDE DEF g
  <2>3. s \in Seq(Nat) /\ Len(s) = k /\ Begins(s, Whole)
    BY <1>4, <2>2, ReadOn
  <2> HIDE DEF s
  <2> QED
    BY <2>1, <2>3
<1>7. k \in Nat
  BY <1>1 DEF TypeOK
<1>8. reading' = reading /\ floor' = floor /\ appended' = appended /\ (Rewriting' <=> Rewriting)
  BY DEF ReadSome, writers, Rewriting
<1> QED
  BY <1>1, <1>3, <1>6, <1>7, <1>8 DEF ReaderInv

\* What a reader answers has what the invariant says of answers.
LEMMA AnswerKeeps ==
  ASSUME HistoryInv, NEW r \in Readers, Answer(r), Whole' = Whole
  PROVE  got'[r] \in Seq(Nat) /\ floor'[r] \in {floor[r], 0} /\ ReaderInv(r)'
<1> DEFINE g == got[r]
           P == Parsed(g)
<1>1. /\ reading[r] /\ TypeOK /\ Locked /\ WellFormed
      /\ Len(g) = pos[r] /\ Begins(g, Whole) /\ pos[r] >= Len(file)
      /\ floor[r] <= Len(appended) /\ (Rewriting => floor[r] = 0)
  BY DEF HistoryInv, Answer, ReadsWhole, Undisturbed
<1>2. /\ g \in Seq(Nat) /\ Whole \in Seq(Nat) /\ file \in Seq(Nat) /\ appended \in Seq(Nat)
      /\ floor[r] \in Nat
  BY <1>1, WholeFile DEF TypeOK
<1>3. /\ Len(g) \in Nat /\ DOMAIN g = 1 .. Len(g) /\ Len(Whole) \in Nat /\ DOMAIN Whole = 1 .. Len(Whole)
      /\ Len(appended) \in Nat /\ DOMAIN appended = 1 .. Len(appended)
  BY <1>2, Elements
<1>4. PICK n \in 0 .. 2 :
        /\ got' = [got EXCEPT ![r] = LastRecords(Parsed(@), n)]
        /\ floor' = [floor EXCEPT ![r] = IF n = 0 THEN @ ELSE 0]
  BY DEF Answer
<1>5. got'[r] = LastRecords(P, n) /\ floor'[r] = IF n = 0 THEN floor[r] ELSE 0
  BY <1>1, <1>4 DEF TypeOK
<1>6. /\ ~reading'[r] /\ appended' = appended /\ damaged' = damaged /\ (Rewriting' <=> Rewriting)
  BY <1>1 DEF Answer, TypeOK, writers, Rewriting
<1> HIDE DEF g
<1>7. InOrder(g)
  <2>1. InOrder(Whole)
    BY <1>1 DEF WellFormed
  <2>2. \A i \in DOMAIN g : i \in DOMAIN Whole /\ g[i] = Whole[i]
    BY <1>1, <1>3 DEF Begins
  <2> QED
    BY <2>1, <2>2 DEF InOrder
<1>8. P \in Seq(Nat) /\ \A i, j \in DOMAIN P : i < j => P[i] < P[j]
  BY <1>2, <1>7, ParsedInOrder
<1>9. ASSUME ~damaged
      PROVE  Begins(P, appended) /\ (n = 0 => Len(P) >= floor[r])
  <2>1. Lined(Whole, appended)
    BY <1>1, <1>9 DEF WellFormed
  <2>0. PICK c \in Nat : FirstLines(g, appended, c)
    BY <1>1, <1>2, <2>1, ParsedLines
  <2>2. /\ Len(g) = 2 * c \/ Len(g) = 2 * c - 1
        /\ c <= Len(appended) /\ Len(P) = c /\ \A j \in 1 .. c : P[j] = appended[j]
    BY <2>0 DEF FirstLines
  <2> HIDE DEF P
  <2>3. DOMAIN P = 1 .. c
    BY <1>8, <2>2, Elements
  <2>4. Begins(P, appended)
    BY <2>2, <2>3 DEF Begins
  <2>5. c >= floor[r]
    <3>1. CASE Rewriting
      BY <1>1, <3>1
    <3>2. CASE ~Rewriting
      <4>1. Whole = file
        BY <1>1, <3>2, WholeFile
      <4>2. Len(g) = Len(Whole)
        <5>1. Len(g) <= Len(Whole) /\ Len(g) >= Len(Whole)
          BY <1>1, <4>1 DEF Begins
        <5>2. Len(g) \in Nat /\ Len(Whole) \in Nat
          BY <1>3
        <5> QED
          BY <5>1, <5>2
      <4>3. Len(Whole) = 2 * Len(appended) \/ Len(Whole) = 2 * Len(appended) - 1
        BY <2>1 DEF Lined
      <4>4. c = Len(appended)
        <5>1. \/ 2 * c = 2 * Len(appended) \/ 2 * c = 2 * Len(appended) - 1
              \/ 2 * c - 1 = 2 * Len(appended) \/ 2 * c - 1 = 2 * Len(appended) - 1
          BY <2>2, <4>2, <4>3
        <5>2. c \in Nat /\ Len(appended) \in Nat
          BY <1>3
        <5> QED
          BY <5>1, <5>2
      <4> QED
        BY <1>1, <1>2, <1>3, <4>4
    <3> QED
      BY <3>1, <3>2
  <2> QED
    BY <2>2, <2>4, <2>5
<1> HIDE DEF P
<1>10. PICK k \in 0 .. Len(P) : /\ n = 0 => k = 0
                                /\ LastRecords(P, n) = SubSeq(P, k + 1, Len(P))
  <2>1. n \in Nat
    OBVIOUS
  <2> QED
    BY <1>8, <2>1, LastRecordsAreTheRest
<1> DEFINE s == SubSeq(P, k + 1, Len(P))
<1>11. got'[r] = s
  BY <1>5, <1>10
<1>12. /\ Len(P) \in Nat /\ s \in Seq(Nat) /\ Len(s) = Len(P) - k /\ DOMAIN s = 1 .. Len(P) - k
       /\ \A i \in 1 .. Len(P) - k : k + i \in DOMAIN P /\ s[i] = P[k + i]
  BY <1>8, DropElements, Elements
<1>13. ASSUME ~damaged, s # <<>> PROVE \E i \in DOMAIN appended : Run(appended, i, s)
  <2>1. Begins(P, appended)
    BY <1>9, <1>13
  <2> QED
    BY <1>2, <1>8, <1>13, <2>1, RestIsRun
<1> HIDE DEF s
<1>14. ASSUME NEW i \in DOMAIN s, NEW j \in DOMAIN s, i < j PROVE s[i] < s[j]
  <2>1. k + i < k + j /\ k + i \in DOMAIN P /\ k + j \in DOMAIN P
    BY <1>12, <1>14
  <2> QED
    BY <1>8, <1>12, <2>1
<1>15. ASSUME ~damaged PROVE Len(s) >= floor'[r]
  <2>1. CASE n = 0
    <3>1. k = 0 /\ Len(P) >= floor[r]
      BY <1>9, <1>10, <1>15, <2>1
    <3>2. Len(s) = Len(P)
      BY <1>12, <3>1
    <3> QED
      BY <1>5, <2>1, <3>1, <3>2
  <2>2. CASE n # 0
    <3>1. Len(s) \in Nat
      BY <1>12, Elements
    <3> QED
      BY <1>5, <2>2, <3>1
  <2> QED
    BY <2>1, <2>2
<1>16. floor'[r] <= Len(appended) /\ (Rewriting => floor'[r] = 0) /\ floor'[r] \in {floor[r], 0}
  BY <1>1, <1>3, <1>5
<1> QED
  BY <1>6, <1>11, <1>12, <1>13, <1>14, <1>15, <1>16 DEF ReaderInv

\* A step of a reader keeps the invariant.
LEMMA ReaderKeeps ==
  ASSUME HistoryInv, NEW r \in Readers, BeginReading(r) \/ NoHistory(r) \/ ReadSome(r) \/ Answer(r)
  PROVE  HistoryInv'
<1>1. TypeOK /\ Locked /\ WellFormed
  BY DEF HistoryInv
<1>2. UNCHANGED <<file, writers, messages, appended, damaged>>
  BY DEF BeginReading, NoHistory, ReadSome, Answer
<1>3. Whole' = Whole /\ (Rewriting' <=> Rewriting) /\ Locked' /\ WellFormed'
  BY <1>1, <1>2, FileRests
<1>4. TypeOK' /\ ReaderInv(r)'
  <2>1. CASE BeginReading(r)
    <3>1. Len(appended) \in Nat /\ <<>> \in Seq(Nat)
      BY <1>1, Elements DEF TypeOK
    <3>2. TypeOK'
      BY <1>1, <2>1, <3>1 DEF BeginReading, TypeOK, writers
    <3> QED
      BY <1>3, <2>1, <3>2, BeginReadingKeeps
  <2>2. CASE ReadSome(r)
    <3>1. got'[r] \in Seq(Nat) /\ pos'[r] \in Nat /\ ReaderInv(r)'
      BY <1>3, <2>2, ReadSomeKeeps
    <3>2. got' \in [Readers -> Seq(Nat)] /\ pos' \in [Readers -> Nat]
      BY <1>1, <2>2, <3>1 DEF ReadSome, TypeOK
    <3>3. TypeOK'
      BY <1>1, <2>2, <3>2 DEF ReadSome, TypeOK, writers
    <3> QED
      BY <3>1, <3>3
  <2>3. CASE Answer(r)
    <3>1. got'[r] \in Seq(Nat) /\ floor'[r] \in {floor[r], 0} /\ ReaderInv(r)'
      BY <1>3, <2>3, AnswerKeeps
    <3>2. got' \in [Readers -> Seq(Nat)] /\ floor' \in [Readers -> Nat]
      BY <1>1, <2>3, <3>1 DEF Answer, TypeOK
    <3>3. TypeOK'
      BY <1>1, <2>3, <3>2 DEF Answer, TypeOK, writers
    <3> QED
      BY <3>1, <3>3
  <2>4. CASE NoHistory(r)
    <3>1. TypeOK'
      BY <1>1, <2>4 DEF NoHistory, TypeOK, writers
    <3> QED
      BY <1>3, <2>4, <3>1, NoHistoryKeeps
  <2> QED
    BY <2>1, <2>2, <2>3, <2>4
<1>5. ASSUME NEW q \in Readers, q # r PROVE ReaderInv(q)'
  <2>1. /\ reading'[q] = reading[q] /\ pos'[q] = pos[q] /\ got'[q] = got[q] /\ floor'[q] = floor[q]
        /\ appended' = appended /\ damaged' = damaged
    BY <1>1, <1>2, <1>5 DEF BeginReading, NoHistory, ReadSome, Answer, TypeOK
  <2>2. ReaderInv(q)
    BY DEF HistoryInv, ReadsWhole, Undisturbed, AnswerIsConsecutive, UndisturbedAnswerIsComplete,
           Run, ReaderInv
  <2> QED
    BY <1>3, <2>1, <2>2 DEF ReaderInv
<1>6. \A q \in Readers : ReaderInv(q)'
  BY <1>4, <1>5
<1>7. ReadsWhole' /\ Undisturbed' /\ AnswerIsConsecutive' /\ UndisturbedAnswerIsComplete'
  BY <1>6 DEF ReadsWhole, Undisturbed, AnswerIsConsecutive, UndisturbedAnswerIsComplete, Run, ReaderInv
<1> QED
  BY <1>3, <1>4, <1>7 DEF HistoryInv

\* The end of the process keeps it: what was still to be written is lost, and the file
\* is what has been written.
LEMMA CrashKeeps ==
  ASSUME HistoryInv, Crash
  PROVE  HistoryInv'
<1>1. TypeOK /\ Locked /\ WellFormed
  BY DEF HistoryInv
<1>2. /\ file' = file /\ mtx' = Nobody /\ messages' = messages /\ appended' = appended
      /\ pc' = [h \in Handlers |-> "idle"] /\ lines' = [h \in Handlers |-> <<>>]
      /\ floor' = [r \in Readers |-> 0] /\ got' = [r \in Readers |-> <<>>]
      /\ reading' = [r \in Readers |-> FALSE]
  BY DEF Crash
<1>3. TypeOK'
  BY <1>1 DEF Crash, TypeOK, Phases
<1>4. Locked'
  BY <1>2, HistoryAssumption DEF Locked
<1>5. Whole' = file
  <2>1. file \o <<>> = file
    BY <1>1, ConcatEmptySeq DEF TypeOK
  <2> QED
    BY <1>2, <2>1 DEF Whole
<1>6. file \in Seq(Nat) /\ Whole \in Seq(Nat) /\ Begins(file, Whole)
  BY <1>1, WholeFile, FileBegins DEF TypeOK
<1>7. \A i \in DOMAIN file : i \in DOMAIN Whole /\ file[i] = Whole[i]
  <2>1. /\ Len(file) \in Nat /\ DOMAIN file = 1 .. Len(file)
        /\ Len(Whole) \in Nat /\ DOMAIN Whole = 1 .. Len(Whole)
    BY <1>6, Elements
  <2> QED
    BY <1>6, <2>1 DEF Begins
<1>8. InOrder(file) /\ \A i \in DOMAIN file : file[i] <= messages
  BY <1>1, <1>7 DEF WellFormed, InOrder
<1>9. ASSUME ~damaged'
      PROVE  Lined(file, appended) /\ Len(file) = 2 * Len(appended)
  <2>1. ~damaged /\ ~Unended /\ \A h \in Handlers : pc[h] = "rewrite" => lines[h] = <<>>
    BY <1>9 DEF Crash, Unended
  <2>2. Whole = file
    <3>1. CASE Rewriting
      <4>1. PICK h \in Handlers : pc[h] = "rewrite"
        BY <3>1 DEF Rewriting
      <4>2. Whole = file \o <<>>
        BY <1>1, <2>1, <4>1, WholeFile
      <4> QED
        BY <1>6, <4>2, ConcatEmptySeq
    <3>2. CASE ~Rewriting
      BY <1>1, <3>2, WholeFile
    <3> QED
      BY <3>1, <3>2
  <2> QED
    BY <1>1, <2>1, <2>2 DEF WellFormed
<1>10. ~Unended' /\ ~Rewriting'
  BY <1>2 DEF Unended, Rewriting
<1>11. WellFormed'
  BY <1>2, <1>5, <1>8, <1>9, <1>10 DEF WellFormed
<1>12. ReadsWhole'
  BY <1>2 DEF ReadsWhole
<1>13. Undisturbed'
  <2>1. Len(appended) \in Nat
    BY <1>1, Elements DEF TypeOK
  <2> QED
    BY <1>2, <1>10, <2>1 DEF Undisturbed
<1>14. \A r \in Readers : got'[r] = <<>> /\ DOMAIN got'[r] = {} /\ Len(got'[r]) = 0 /\ floor'[r] = 0
  BY <1>2, EmptySeq
<1>15. AnswerIsConsecutive' /\ UndisturbedAnswerIsComplete'
  BY <1>14 DEF AnswerIsConsecutive, UndisturbedAnswerIsComplete
<1> QED
  BY <1>3, <1>4, <1>11, <1>12, <1>13, <1>15 DEF HistoryInv

------------------------------------------------------------------------------
(* The theorems *)

\* The invariant holds in every state.
LEMMA HistoryInvariant == Spec => []HistoryInv
<1>1. Init => HistoryInv
  <2> SUFFICES ASSUME Init PROVE HistoryInv
    OBVIOUS
  <2>1. TypeOK
    <3>1. <<>> \in Seq(Nat) /\ 0 \in Nat /\ FALSE \in BOOLEAN /\ "idle" \in Phases
      BY DEF Phases
    <3>2. /\ pc \in [Handlers -> Phases] /\ lines \in [Handlers -> Seq(Nat)]
          /\ reading \in [Readers -> BOOLEAN] /\ pos \in [Readers -> Nat]
          /\ got \in [Readers -> Seq(Nat)] /\ floor \in [Readers -> Nat]
      BY <3>1 DEF Init
    <3> QED
      BY <3>1, <3>2 DEF Init, TypeOK
  <2>2. Locked
    BY HistoryAssumption DEF Init, Locked
  <2>3. Whole = <<>>
    <3>1. <<>> \o <<>> = <<>>
      BY ConcatEmptySeq
    <3> QED
      BY <3>1 DEF Init, Whole
  <2>4. ~Unended /\ ~Rewriting /\ appended = <<>>
    BY DEF Init, Unended, Rewriting
  <2>5. Len(<<>>) = 0 /\ DOMAIN <<>> = {}
    BY EmptySeq
  <2>6. WellFormed
    BY <2>3, <2>4, <2>5 DEF WellFormed, InOrder, Lined
  <2>7. ReadsWhole /\ Undisturbed
    BY <2>4, <2>5 DEF Init, ReadsWhole, Undisturbed
  <2>8. AnswerIsConsecutive /\ UndisturbedAnswerIsComplete
    BY <2>5 DEF Init, AnswerIsConsecutive, UndisturbedAnswerIsComplete
  <2> QED
    BY <2>1, <2>2, <2>6, <2>7, <2>8 DEF HistoryInv
<1>2. HistoryInv /\ [Next]_vars => HistoryInv'
  <2> SUFFICES ASSUME HistoryInv, [Next]_vars PROVE HistoryInv'
    OBVIOUS
  <2>1. CASE \E h \in Handlers : HandlerStep(h)
    BY <2>1, HandlerKeeps
  <2>2. CASE \E r \in Readers : BeginReading(r) \/ NoHistory(r) \/ ReadSome(r) \/ Answer(r)
    BY <2>2, ReaderKeeps
  <2>3. CASE Crash
    BY <2>3, CrashKeeps
  <2>4. CASE UNCHANGED vars
    <3>1. /\ UNCHANGED <<file, mtx, pc, lines, offline, reading, pos, got, floor>>
          /\ UNCHANGED <<messages, appended, damaged>>
      BY <2>4 DEF vars, writers, readers
    <3>2. Whole' = Whole /\ (Unended' <=> Unended) /\ (Rewriting' <=> Rewriting)
      BY <3>1 DEF Whole, Unended, Rewriting
    <3>3. TypeOK' /\ Locked'
      BY <3>1 DEF HistoryInv, TypeOK, Locked
    <3>4. WellFormed' /\ ReadsWhole' /\ Undisturbed'
      BY <3>1, <3>2 DEF HistoryInv, WellFormed, ReadsWhole, Undisturbed
    <3>5. AnswerIsConsecutive' /\ UndisturbedAnswerIsComplete'
      BY <3>1 DEF HistoryInv, AnswerIsConsecutive, UndisturbedAnswerIsComplete
    <3> QED
      BY <3>3, <3>4, <3>5 DEF HistoryInv
  <2> QED
    BY <2>1, <2>2, <2>3, <2>4 DEF Next, HandlerStep
<1> QED
  BY <1>1, <1>2, PTL DEF Spec

\* No record is lost, doubled or out of order, unless the process has ended while the
\* file was rewritten or before a record had its line end: what the file will hold after
\* a rewrite are the records appended, one on a line.
THEOREM HistoryRecordsAreKept == Spec => []RecordsAreKept
<1>1. HistoryInv => RecordsAreKept
  <2> SUFFICES ASSUME HistoryInv, ~damaged PROVE Parsed(Whole) = appended
    BY DEF RecordsAreKept, Whole
  <2>1. /\ Whole \in Seq(Nat) /\ appended \in Seq(Nat) /\ Lined(Whole, appended)
    BY WholeFile DEF HistoryInv, WellFormed, TypeOK
  <2>2. Begins(Whole, Whole)
    <3>1. Len(Whole) \in Nat
      BY <2>1, Elements
    <3>2. Len(Whole) <= Len(Whole)
      BY <3>1
    <3> QED
      BY <3>2 DEF Begins
  <2>0. PICK k \in Nat : FirstLines(Whole, appended, k)
    BY <2>1, <2>2, ParsedLines
  <2>3. /\ Len(Whole) = 2 * k \/ Len(Whole) = 2 * k - 1
        /\ Len(Parsed(Whole)) = k /\ \A j \in 1 .. k : Parsed(Whole)[j] = appended[j]
    BY <2>0 DEF FirstLines
  <2>4. k = Len(appended)
    <3>1. \/ 2 * k = 2 * Len(appended) \/ 2 * k = 2 * Len(appended) - 1
          \/ 2 * k - 1 = 2 * Len(appended) \/ 2 * k - 1 = 2 * Len(appended) - 1
      BY <2>1, <2>3 DEF Lined
    <3>2. k \in Nat /\ Len(appended) \in Nat
      BY <2>1, Elements
    <3> QED
      BY <3>1, <3>2
  <2>5. Parsed(Whole) \in Seq(Nat)
    BY <2>1, ParsedInOrder DEF HistoryInv, WellFormed
  <2> QED
    BY <2>1, <2>3, <2>4, <2>5, SeqEqual
<1> QED
  BY <1>1, HistoryInvariant, PTL

\* What getHistory() answers, reading without a lock while records are appended and the
\* file is rewritten, is a run of consecutive records, and in order even if records were
\* lost before.
THEOREM HistoryAnswerIsConsecutive == Spec => []AnswerIsConsecutive
<1>1. HistoryInv => AnswerIsConsecutive
  BY DEF HistoryInv
<1> QED
  BY <1>1, HistoryInvariant, PTL

\* It has every record appended before getHistory() began if all were asked for and no
\* rewrite came in between.
THEOREM HistoryUndisturbedAnswerIsComplete == Spec => []UndisturbedAnswerIsComplete
<1>1. HistoryInv => UndisturbedAnswerIsComplete
  BY DEF HistoryInv
<1> QED
  BY <1>1, HistoryInvariant, PTL

===============================================================================
