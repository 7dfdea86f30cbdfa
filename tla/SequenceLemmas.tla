---------------------------- MODULE SequenceLemmas ----------------------------
(***************************************************************************)
(* What queues do to their elements: the facts about sequences that the    *)
(* proofs about queues of messages share; and induction, with the          *)
(* existence of what a recursion along a sequence defines.                 *)
(***************************************************************************)
EXTENDS Naturals, Sequences, SequenceTheorems, FiniteSetTheorems, FunctionTheorems,
        WellFoundedInduction, TLAPS

\* The elements of a sequence over S are elements of S.
LEMMA Elements ==
  ASSUME NEW S, NEW s \in Seq(S)
  PROVE  Len(s) \in Nat /\ DOMAIN s = 1 .. Len(s) /\ \A i \in DOMAIN s : s[i] \in S
  BY LenProperties, ElementOfSeq

\* Appending adds one element behind the others, which keep their places.
LEMMA AppendElements ==
  ASSUME NEW S, NEW s \in Seq(S), NEW e \in S
  PROVE  /\ Append(s, e) \in Seq(S)
         /\ DOMAIN Append(s, e) = 1 .. Len(s) + 1
         /\ Append(s, e)[Len(s) + 1] = e
         /\ \A i \in DOMAIN s : i \in DOMAIN Append(s, e) /\ Append(s, e)[i] = s[i]
         /\ \A i \in DOMAIN Append(s, e) : i \in DOMAIN s \/ i = Len(s) + 1
  BY AppendProperties, LenProperties

\* Taking the head moves every other element one place forward.
LEMMA TailElements ==
  ASSUME NEW S, NEW s \in Seq(S), s # <<>>
  PROVE  /\ Head(s) \in S /\ Tail(s) \in Seq(S)
         /\ Len(s) \in Nat \ {0} /\ DOMAIN s = 1 .. Len(s)
         /\ 1 \in DOMAIN s /\ s[1] = Head(s)
         /\ DOMAIN Tail(s) = 1 .. Len(s) - 1
         /\ \A i \in DOMAIN Tail(s) : i + 1 \in DOMAIN s /\ Tail(s)[i] = s[i + 1]
         /\ Len(s) # 1 => Tail(s) # <<>>
<1>1. Len(s) \in Nat \ {0} /\ DOMAIN s = 1 .. Len(s)
  BY LenProperties, EmptySeq
<1>2. Head(s) \in S /\ Tail(s) \in Seq(S) /\ Len(Tail(s)) = Len(s) - 1
  BY HeadTailProperties
<1>3. \A i \in 1 .. Len(s) - 1 : Tail(s)[i] = s[i + 1]
  BY <1>1, HeadTailProperties
<1>4. Len(s) # 1 => Tail(s) # <<>>
  <2>1. Tail(s) = <<>> => Len(Tail(s)) = 0
    BY EmptySeq
  <2> QED
    BY <1>1, <1>2, <2>1
<1> QED
  BY <1>1, <1>2, <1>3, <1>4, LenProperties

\* Dropping the first k elements moves every other element k places forward.
LEMMA DropElements ==
  ASSUME NEW S, NEW s \in Seq(S), NEW k \in 0 .. Len(s)
  PROVE  /\ SubSeq(s, k + 1, Len(s)) \in Seq(S)
         /\ Len(SubSeq(s, k + 1, Len(s))) = Len(s) - k
         /\ DOMAIN SubSeq(s, k + 1, Len(s)) = 1 .. Len(s) - k
         /\ \A i \in 1 .. Len(s) - k : k + i \in DOMAIN s /\ SubSeq(s, k + 1, Len(s))[i] = s[k + i]
<1>1. Len(s) \in Nat /\ DOMAIN s = 1 .. Len(s) /\ \A i \in DOMAIN s : s[i] \in S
  BY Elements
<1>2. /\ SubSeq(s, k + 1, Len(s)) \in Seq(S)
      /\ Len(SubSeq(s, k + 1, Len(s))) = IF k + 1 <= Len(s) THEN Len(s) - (k + 1) + 1 ELSE 0
      /\ \A i \in 1 .. Len(s) - (k + 1) + 1 : SubSeq(s, k + 1, Len(s))[i] = s[k + 1 + i - 1]
  <2>1. k + 1 \in Int /\ Len(s) \in Int /\ \A i \in k + 1 .. Len(s) : s[i] \in S
    BY <1>1
  <2> QED
    BY <2>1, SubSeqProperties
<1>3. DOMAIN SubSeq(s, k + 1, Len(s)) = 1 .. Len(SubSeq(s, k + 1, Len(s)))
  BY <1>2, LenProperties
<1>4. Len(SubSeq(s, k + 1, Len(s))) = Len(s) - k
  <2>1. CASE k < Len(s)
    <3>1. k + 1 <= Len(s) /\ Len(s) - (k + 1) + 1 = Len(s) - k
      BY <1>1, <2>1
    <3> QED
      BY <1>2, <3>1
  <2>2. CASE k = Len(s)
    <3>1. ~(k + 1 <= Len(s)) /\ Len(s) - k = 0
      BY <1>1, <2>2
    <3> QED
      BY <1>2, <3>1
  <2>3. \A l \in Nat : k \in 0 .. l => k < l \/ k = l
    OBVIOUS
  <2> QED
    BY <1>1, <2>1, <2>2, <2>3, Zenon
<1>5. \A i \in 1 .. Len(s) - k : k + i \in DOMAIN s /\ SubSeq(s, k + 1, Len(s))[i] = s[k + i]
  <2> TAKE i \in 1 .. Len(s) - k
  <2>1. i \in 1 .. Len(s) - (k + 1) + 1 /\ k + 1 + i - 1 = k + i /\ k + i \in 1 .. Len(s)
    BY <1>1
  <2> QED
    BY <1>1, <1>2, <2>1
<1> QED
  BY <1>2, <1>3, <1>4, <1>5

\* Concatenation puts the elements of the second sequence behind those of the first.
LEMMA ConcatElements ==
  ASSUME NEW S, NEW s \in Seq(S), NEW t \in Seq(S)
  PROVE  /\ s \o t \in Seq(S)
         /\ DOMAIN (s \o t) = 1 .. Len(s) + Len(t)
         /\ \A i \in DOMAIN s : i \in DOMAIN (s \o t) /\ (s \o t)[i] = s[i]
         /\ \A i \in DOMAIN t : Len(s) + i \in DOMAIN (s \o t) /\ (s \o t)[Len(s) + i] = t[i]
         /\ \A i \in DOMAIN (s \o t) : i \in DOMAIN s \/ (i > Len(s) /\ i - Len(s) \in DOMAIN t)
<1>1. /\ Len(s) \in Nat /\ DOMAIN s = 1 .. Len(s)
      /\ Len(t) \in Nat /\ DOMAIN t = 1 .. Len(t)
  BY Elements
<1>2. /\ s \o t \in Seq(S)
      /\ DOMAIN (s \o t) = 1 .. Len(s) + Len(t)
      /\ \A i \in 1 .. Len(s) + Len(t) :
           (s \o t)[i] = IF i <= Len(s) THEN s[i] ELSE t[i - Len(s)]
  BY ConcatProperties, LenProperties
<1>3. \A i \in DOMAIN s : i \in DOMAIN (s \o t) /\ (s \o t)[i] = s[i]
  BY <1>1, <1>2
<1>4. \A i \in DOMAIN t : Len(s) + i \in DOMAIN (s \o t) /\ (s \o t)[Len(s) + i] = t[i]
  <2> TAKE i \in DOMAIN t
  <2>1. Len(s) + i \in 1 .. Len(s) + Len(t) /\ ~(Len(s) + i <= Len(s)) /\ (Len(s) + i) - Len(s) = i
    BY <1>1
  <2> QED
    BY <1>2, <2>1
<1> QED
  BY <1>1, <1>2, <1>3, <1>4

------------------------------------------------------------------------------
(* Counting elements *)

\* Where in s the elements of V are.
Places(s, V) == {i \in DOMAIN s : s[i] \in V}

\* They can be counted.
LEMMA PlacesFinite ==
  ASSUME NEW S, NEW s \in Seq(S), NEW V
  PROVE  /\ IsFiniteSet(Places(s, V))
         /\ Cardinality(Places(s, V)) \in Nat
         /\ Cardinality(Places(s, V)) = 0 <=> Places(s, V) = {}
<1>1. Len(s) \in Nat /\ DOMAIN s = 1 .. Len(s)
  BY Elements
<1>2. IsFiniteSet(1 .. Len(s)) /\ Places(s, V) \in SUBSET (1 .. Len(s))
  BY <1>1, FS_Interval DEF Places
<1>3. IsFiniteSet(Places(s, V))
  BY <1>2, FS_Subset
<1> QED
  BY <1>3, FS_CardinalityType, FS_EmptySet

\* Appending an element of V adds one to their number.
LEMMA PlacesAppend ==
  ASSUME NEW S, NEW s \in Seq(S), NEW e \in S, NEW V
  PROVE  /\ e \in V => Cardinality(Places(Append(s, e), V)) = Cardinality(Places(s, V)) + 1
         /\ e \notin V => Cardinality(Places(Append(s, e), V)) = Cardinality(Places(s, V))
<1>1. /\ DOMAIN Append(s, e) = 1 .. Len(s) + 1
      /\ Append(s, e)[Len(s) + 1] = e
      /\ \A i \in DOMAIN s : i \in DOMAIN Append(s, e) /\ Append(s, e)[i] = s[i]
      /\ \A i \in DOMAIN Append(s, e) : i \in DOMAIN s \/ i = Len(s) + 1
  BY AppendElements
<1>2. Len(s) \in Nat /\ DOMAIN s = 1 .. Len(s)
  BY Elements
<1>3. Len(s) + 1 \in DOMAIN Append(s, e) /\ Len(s) + 1 \notin Places(s, V)
  BY <1>1, <1>2 DEF Places
<1>4. CASE e \in V
  <2>1. Places(Append(s, e), V) = Places(s, V) \cup {Len(s) + 1}
    BY <1>1, <1>3, <1>4 DEF Places
  <2> QED
    BY <1>3, <1>4, <2>1, PlacesFinite, FS_AddElement
<1>5. CASE e \notin V
  <2>1. Places(Append(s, e), V) = Places(s, V)
    BY <1>1, <1>5 DEF Places
  <2> QED
    BY <1>5, <2>1
<1> QED
  BY <1>4, <1>5

\* Taking the head takes one from their number if it is an element of V.
LEMMA PlacesTail ==
  ASSUME NEW S, NEW s \in Seq(S), s # <<>>, NEW V
  PROVE  /\ Head(s) \in V => Cardinality(Places(Tail(s), V)) = Cardinality(Places(s, V)) - 1
         /\ Head(s) \notin V => Cardinality(Places(Tail(s), V)) = Cardinality(Places(s, V))
<1> DEFINE rest == Places(s, V) \ {1}
           f == [i \in Places(Tail(s), V) |-> i + 1]
<1>1. /\ Tail(s) \in Seq(S) /\ Len(s) \in Nat \ {0} /\ DOMAIN s = 1 .. Len(s)
      /\ 1 \in DOMAIN s /\ s[1] = Head(s)
      /\ DOMAIN Tail(s) = 1 .. Len(s) - 1
      /\ \A i \in DOMAIN Tail(s) : i + 1 \in DOMAIN s /\ Tail(s)[i] = s[i + 1]
  BY TailElements
<1>2. IsFiniteSet(Places(s, V)) /\ IsFiniteSet(Places(Tail(s), V))
  BY <1>1, PlacesFinite
<1>3. \A i \in Places(Tail(s), V) : i \in Nat \ {0} /\ i + 1 \in rest
  BY <1>1 DEF Places
<1>4. \A j \in rest : j \in Nat /\ j - 1 \in Places(Tail(s), V)
  <2> SUFFICES ASSUME NEW j \in rest PROVE j \in Nat /\ j - 1 \in Places(Tail(s), V)
    OBVIOUS
  <2>1. j \in 1 .. Len(s) /\ j # 1 /\ s[j] \in V
    BY <1>1 DEF Places
  <2>2. j - 1 \in 1 .. Len(s) - 1 /\ (j - 1) + 1 = j /\ j \in Nat
    BY <1>1, <2>1
  <2> QED
    BY <1>1, <2>1, <2>2 DEF Places
<1>5. f \in Bijection(Places(Tail(s), V), rest)
  <2>1. f \in [Places(Tail(s), V) -> rest]
    BY <1>3
  <2>2. \A a, b \in Places(Tail(s), V) : f[a] = f[b] => a = b
    BY <1>3
  <2>3. \A j \in rest : \E i \in Places(Tail(s), V) : f[i] = j
    <3> SUFFICES ASSUME NEW j \in rest PROVE \E i \in Places(Tail(s), V) : f[i] = j
      OBVIOUS
    <3>1. j - 1 \in Places(Tail(s), V) /\ (j - 1) + 1 = j
      BY <1>4
    <3> QED
      BY <3>1
  <2> QED
    BY <2>1, <2>2, <2>3, Fun_IsBij
<1>6. Cardinality(rest) = Cardinality(Places(Tail(s), V))
  BY <1>2, <1>5, FS_Bijection DEF ExistsBijection
<1>7. 1 \in Places(s, V) <=> Head(s) \in V
  BY <1>1 DEF Places
<1>8. /\ 1 \in Places(s, V) => Cardinality(rest) = Cardinality(Places(s, V)) - 1
      /\ 1 \notin Places(s, V) => Cardinality(rest) = Cardinality(Places(s, V))
  BY <1>2, FS_RemoveElement
<1> QED
  BY <1>6, <1>7, <1>8

------------------------------------------------------------------------------
(* Induction *)

\* A set with 0 and the successor of each of its numbers has every number.
LEMMA EveryNumber ==
  ASSUME NEW S, 0 \in S, \A n \in Nat : n \in S => n + 1 \in S
  PROVE  Nat \subseteq S
<1> SUFFICES ASSUME Nat \ S # {} PROVE FALSE
  OBVIOUS
<1> DEFINE T == Nat \ S
           R == OpToRel(<, Nat)
<1>1. \A x, y \in Nat : x < y => <<x, y>> \in R
  BY DEF OpToRel
<1>2. IsWellFoundedOn(R, Nat)
  BY NatLessThanWellFounded
<1>3. T \subseteq Nat /\ T # {}
  OBVIOUS
<1> HIDE DEF R, T
<1>4. PICK x \in T : \A y \in T : ~(<<y, x>> \in R)
  BY <1>2, <1>3, WFMin
<1>5. x \in Nat /\ x # 0 /\ x \notin S
  BY <1>4 DEF T
<1>6. x - 1 \in Nat /\ x - 1 < x /\ x - 1 + 1 = x
  BY <1>5
<1>7. x - 1 \in S
  BY <1>1, <1>4, <1>5, <1>6 DEF T
<1> QED
  BY <1>5, <1>6, <1>7

------------------------------------------------------------------------------
(* Recursion *)

\* f[i] is what h makes of the first i elements of s, beginning with a.
Accumulates(f, s, n, a, h) ==
  f[0] = a /\ \A i \in 1 .. n : f[i] = h[<<f[i - 1], s[i]>>]

\* What makes a recursion along sequences over S with values in T.
Recursion(S, T, a, h) == a \in T /\ h \in [T \X S -> T]

\* There is such a function: recursion along a sequence defines something.
LEMMA AccumulationExists ==
  ASSUME NEW S, NEW T, NEW a, NEW h, Recursion(S, T, a, h), NEW s \in Seq(S)
  PROVE  \E f \in [0 .. Len(s) -> T] : Accumulates(f, s, Len(s), a, h)
<1> DEFINE Reached(n) == \E f \in [0 .. n -> T] : Accumulates(f, s, n, a, h)
           N == {n \in Nat : n <= Len(s) => Reached(n)}
<1>1. Len(s) \in Nat /\ (\A i \in 1 .. Len(s) : s[i] \in S) /\ a \in T /\ h \in [T \X S -> T]
  BY Elements DEF Recursion
<1>2. 0 \in N
  <2> DEFINE f == [i \in 0 .. 0 |-> a]
  <2>1. f \in [0 .. 0 -> T] /\ Accumulates(f, s, 0, a, h)
    BY <1>1 DEF Accumulates
  <2> QED
    BY <2>1
<1>3. ASSUME NEW n \in Nat, n \in N
      PROVE  n + 1 \in N
  <2> SUFFICES ASSUME n + 1 <= Len(s) PROVE Reached(n + 1)
    OBVIOUS
  <2>1. PICK f \in [0 .. n -> T] : Accumulates(f, s, n, a, h)
    BY <1>1, <1>3
  <2> DEFINE e == h[<<f[n], s[n + 1]>>]
             g == [i \in 0 .. n + 1 |-> IF i = n + 1 THEN e ELSE f[i]]
  <2>2. e \in T
    BY <1>1, <2>1
  <2>3. g \in [0 .. n + 1 -> T]
    BY <2>2
  <2>4. g[0] = a /\ g[n + 1] = h[<<g[n], s[n + 1]>>] /\ n + 1 - 1 = n
    <3>1. f[0] = a
      BY <2>1 DEF Accumulates
    <3>2. n \in 0 .. n + 1 /\ 0 \in 0 .. n + 1 /\ n + 1 \in 0 .. n + 1 /\ n # n + 1 /\ 0 # n + 1
          /\ n + 1 - 1 = n
      OBVIOUS
    <3> QED
      BY <3>1, <3>2
  <2>5. ASSUME NEW i \in 1 .. n
        PROVE  g[i] = h[<<g[i - 1], s[i]>>]
    <3>1. f[i] = h[<<f[i - 1], s[i]>>]
      BY <2>1 DEF Accumulates
    <3>2. g[i] = f[i] /\ g[i - 1] = f[i - 1]
      OBVIOUS
    <3> QED
      BY <3>1, <3>2
  <2>6. \A i \in 1 .. n + 1 : i = n + 1 \/ i \in 1 .. n
    OBVIOUS
  <2> HIDE DEF g
  <2>7. \A i \in 1 .. n + 1 : g[i] = h[<<g[i - 1], s[i]>>]
    <3> SUFFICES ASSUME NEW i \in 1 .. n + 1 PROVE g[i] = h[<<g[i - 1], s[i]>>]
      OBVIOUS
    <3>1. CASE i = n + 1
      BY <2>4, <3>1
    <3> QED
      BY <2>5, <2>6, <3>1
  <2>8. Accumulates(g, s, n + 1, a, h)
    BY <2>4, <2>7 DEF Accumulates
  <2> QED
    BY <2>3, <2>8
<1> HIDE DEF N
<1>4. Nat \subseteq N
  BY <1>2, <1>3, EveryNumber
<1> QED
  BY <1>1, <1>4 DEF N

===============================================================================
