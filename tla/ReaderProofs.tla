---------------------------- MODULE ReaderProofs ----------------------------
(***************************************************************************)
(* Proofs about those who read a stream of bytes that comes in pieces: the *)
(* log wait and the line reader of LogText, for any log, any needle and    *)
(* any limit, and the readers of DockerWire, for any body, however it      *)
(* arrives, and any limit.                                                 *)
(*                                                                         *)
(* Each invariant says what the reader has made of the bytes it has taken, *)
(* and what it keeps for those to come.  StreamMatcher carries over the    *)
(* last Len(pattern) - 1 bytes: the occurrences that end in the next piece *)
(* are then exactly those of what it carried over and the piece.  The line *)
(* reader has delivered the lines before the place b where the current     *)
(* line begins, and the current line is put together, over the limit or    *)
(* delivered without its feed (LineInv); the lines of a text split where a *)
(* line begins (LinesSplit).  A response is whole because body_buf always  *)
(* holds what was consumed, cut by Truncate alone (BodySoFar).  The        *)
(* demultiplexer of the exec stream is compared with demux_exec_stream,    *)
(* which has all of the body: whatever part of the body comes, what is in  *)
(* the buffers and what is still owed from the place where the             *)
(* demultiplexer stands make up its answer (DemuxSoFar).  The recursions   *)
(* are unfolded with Downwards and Upwards.                                *)
(***************************************************************************)
EXTENDS LogText, DockerWire, InductionFacts, SequenceTheorems, FiniteSetTheorems,
        FunctionTheorems, TLAPS

(* The last k of the first m bytes. *)
Suffix(s, m, k) == SubSeq(s, IF m > k THEN m - k + 1 ELSE 1, m)

(* Where p begins in the bytes d + 1 to m of s. *)
Hits(s, p, d, m) ==
  {j \in d + 1 .. m : j + Len(p) - 1 <= m /\ SubSeq(s, j, j + Len(p) - 1) = p}

(* A slice of a sequence, and its length. *)
LEMMA Slice ==
  ASSUME NEW S, NEW s \in Seq(S), NEW a \in 1 .. Len(s) + 1, NEW m \in a - 1 .. Len(s)
  PROVE  SubSeq(s, a, m) \in Seq(S) /\ Len(SubSeq(s, a, m)) = m - a + 1
<1>1. Len(s) \in Nat BY LenProperties
<1>2. \A i \in a .. m : s[i] \in S BY <1>1, ElementOfSeq
<1>3. a \in Int /\ m \in Int /\ m - a + 1 >= 0 BY <1>1
<1>4. /\ SubSeq(s, a, m) \in Seq(S)
      /\ Len(SubSeq(s, a, m)) = IF a <= m THEN m - a + 1 ELSE 0
  BY <1>2, <1>3, SubSeqProperties
<1> QED BY <1>3, <1>4

(* Tail_ of a slice is a slice. *)
LEMMA TailOfSlice ==
  ASSUME NEW S, NEW s \in Seq(S), NEW a \in 1 .. Len(s) + 1, NEW m \in a - 1 .. Len(s),
         NEW k \in Nat
  PROVE  Tail_(SubSeq(s, a, m), k) = SubSeq(s, IF m - a + 1 > k THEN m - k + 1 ELSE a, m)
<1>1. Len(s) \in Nat BY LenProperties
<1>2. a \in Int /\ m \in Int /\ Len(SubSeq(s, a, m)) = m - a + 1 BY <1>1, Slice
<1>3. CASE ~(m - a + 1 > k) BY <1>2, <1>3 DEF Tail_
<1>4. CASE m - a + 1 > k /\ k = 0
  <2>1. Tail_(SubSeq(s, a, m), k) = SubSeq(SubSeq(s, a, m), m - a + 2, m - a + 1)
    BY <1>2, <1>4 DEF Tail_
  <2>2. SubSeq(SubSeq(s, a, m), m - a + 2, m - a + 1) = <<>> BY <1>2, SubSeqEmpty
  <2>3. SubSeq(s, m + 1, m) = <<>> BY <1>2, SubSeqEmpty
  <2> QED BY <1>2, <1>4, <2>1, <2>2, <2>3
<1>5. CASE m - a + 1 > k /\ k # 0
  <2>1. Tail_(SubSeq(s, a, m), k) = SubSeq(SubSeq(s, a, m), m - a + 2 - k, m - a + 1)
    BY <1>2, <1>5 DEF Tail_
  <2>2. /\ a \in 1 .. Len(s) /\ m \in 1 .. Len(s)
        /\ m - a + 2 - k \in 1 .. m - a + 1 /\ m - a + 1 \in 1 .. m - a + 1
    BY <1>1, <1>2, <1>5
  <2>3. SubSeq(SubSeq(s, a, m), m - a + 2 - k, m - a + 1)
          = SubSeq(s, a + (m - a + 2 - k) - 1, a + (m - a + 1) - 1)
    BY <2>2, SubSeqOfSubSeq
  <2>4. a + (m - a + 2 - k) - 1 = m - k + 1 /\ a + (m - a + 1) - 1 = m BY <1>2
  <2> QED BY <1>5, <2>1, <2>3, <2>4
<1> QED BY <1>2, <1>3, <1>4, <1>5

(* CollectedLogs::push keeps the last k bytes. *)
LEMMA PushKeepsSuffix ==
  ASSUME NEW S, NEW s \in Seq(S), NEW a \in 0 .. Len(s), NEW n \in a .. Len(s), NEW k \in Nat
  PROVE  Tail_(Suffix(s, a, k) \o Tail_(SubSeq(s, a + 1, n), k), k) = Suffix(s, n, k)
<1>1. Len(s) \in Nat /\ a \in Nat /\ n \in Nat BY LenProperties
<1> DEFINE c == IF a > k THEN a - k + 1 ELSE 1
           x == SubSeq(s, c, a)
           y == SubSeq(s, IF n - a > k THEN n - k + 1 ELSE a + 1, n)
<1>2. c \in 1 .. Len(s) + 1 /\ a \in c - 1 .. Len(s) BY <1>1
<1>3. Tail_(SubSeq(s, a + 1, n), k) = y
  <2>1. a + 1 \in 1 .. Len(s) + 1 /\ n \in (a + 1) - 1 .. Len(s) BY <1>1
  <2>2. n - (a + 1) + 1 = n - a BY <1>1
  <2> QED BY <2>1, <2>2, TailOfSlice
<1>4. Suffix(s, a, k) = x BY DEF Suffix
<1>5. CASE ~(n - a > k)
  <2>1. x \o y = SubSeq(s, c, n)
    <3>1. n \in a .. Len(s) BY <1>1
    <3> QED BY <1>2, <1>5, <3>1, ConcatAdjacentSubSeq
  <2>2. n \in c - 1 .. Len(s) BY <1>1, <1>2
  <2>3. Tail_(SubSeq(s, c, n), k) = SubSeq(s, IF n - c + 1 > k THEN n - k + 1 ELSE c, n)
    BY <1>2, <2>2, TailOfSlice
  <2>4. (IF n - c + 1 > k THEN n - k + 1 ELSE c) = (IF n > k THEN n - k + 1 ELSE 1)
    BY <1>1, <1>5
  <2> QED BY <1>3, <1>4, <2>1, <2>3, <2>4 DEF Suffix
<1>6. CASE n - a > k
  <2>1. n - k + 1 \in 1 .. Len(s) + 1 /\ n \in (n - k + 1) - 1 .. Len(s) BY <1>1, <1>6
  <2>2. y = SubSeq(s, n - k + 1, n) BY <1>6
  <2>3. y \in Seq(S) /\ Len(y) = k
    <3>1. n - (n - k + 1) + 1 = k BY <1>1
    <3> QED BY <2>1, <2>2, <3>1, Slice
  <2>4. x \in Seq(S) /\ Len(x) \in Nat BY <1>2, Slice, LenProperties
  <2> HIDE DEF x, y
  <2>5. Len(x \o y) = Len(x) + k BY <2>3, <2>4, ConcatProperties
  <2>6. Tail_(x \o y, k) = y
    <3>1. CASE Len(x) = 0
      <4>1. x = <<>> BY <2>4, <3>1, EmptySeq
      <4>2. x \o y = y BY <2>3, <4>1, ConcatEmptySeq
      <4> QED BY <2>3, <4>2 DEF Tail_
    <3>2. CASE Len(x) # 0 /\ k = 0
      <4>1. Tail_(x \o y, k) = SubSeq(x \o y, Len(x) + 1, Len(x)) BY <2>4, <2>5, <3>2 DEF Tail_
      <4>2. Tail_(x \o y, k) = <<>> BY <2>4, <4>1, SubSeqEmpty
      <4>3. y = <<>> BY <2>3, <3>2, EmptySeq
      <4> QED BY <4>2, <4>3
    <3>3. CASE Len(x) # 0 /\ k # 0
      <4>1. Tail_(x \o y, k) = SubSeq(x \o y, Len(x) + 1, Len(x) + k)
        BY <2>4, <2>5, <3>3 DEF Tail_
      <4>2. /\ Len(x) + 1 \in Len(x) + 1 .. Len(x) + Len(y)
            /\ Len(x) + k \in Len(x) + 1 .. Len(x) + Len(y)
        BY <2>3, <2>4, <3>3
      <4>3. SubSeq(x \o y, Len(x) + 1, Len(x) + k)
              = SubSeq(y, (Len(x) + 1) - Len(x), (Len(x) + k) - Len(x))
        BY <2>3, <2>4, <4>2, SubSeqOfConcat2
      <4>4. (Len(x) + 1) - Len(x) = 1 /\ (Len(x) + k) - Len(x) = Len(y) BY <2>3, <2>4
      <4> QED BY <2>3, <4>1, <4>3, <4>4, SubSeqFull
    <3> QED BY <3>1, <3>2, <3>3
  <2>7. n > k BY <1>1, <1>6
  <2> QED BY <1>3, <1>4, <2>2, <2>6, <2>7 DEF Suffix
<1> QED BY <1>5, <1>6

(* The occurrences in a slice are those in the whole, moved. *)
LEMMA OccurrencesInSlice ==
  ASSUME NEW S, NEW s \in Seq(S), NEW p \in Seq(S), Len(p) > 0,
         NEW d \in 0 .. Len(s), NEW m \in d .. Len(s)
  PROVE  /\ IsFiniteSet(Hits(s, p, d, m))
         /\ Occurrences(SubSeq(s, d + 1, m), p) = Cardinality(Hits(s, p, d, m))
<1> DEFINE z == SubSeq(s, d + 1, m)
           L == Len(p)
           K == {i \in 1 .. Len(z) : i + L - 1 <= Len(z) /\ SubSeq(z, i, i + L - 1) = p}
           H == Hits(s, p, d, m)
           f == [i \in K |-> i + d]
<1>1. Len(s) \in Nat /\ d \in Nat /\ m \in Nat /\ L \in Nat /\ L > 0
  BY LenProperties
<1>2. Len(z) = m - d
  <2>1. d + 1 \in 1 .. Len(s) + 1 /\ m \in (d + 1) - 1 .. Len(s) BY <1>1
  <2>2. m - (d + 1) + 1 = m - d BY <1>1
  <2> QED BY <2>1, <2>2, Slice
<1>3. ASSUME NEW i \in 1 .. m - d, i + L - 1 <= m - d
      PROVE  SubSeq(z, i, i + L - 1) = SubSeq(s, i + d, i + d + L - 1)
  <2>1. /\ d + 1 \in 1 .. Len(s) /\ m \in 1 .. Len(s)
        /\ i \in 1 .. m - (d + 1) + 1 /\ i + L - 1 \in 1 .. m - (d + 1) + 1
    BY <1>1, <1>3
  <2>2. SubSeq(z, i, i + L - 1) = SubSeq(s, (d + 1) + i - 1, (d + 1) + (i + L - 1) - 1)
    BY <2>1, SubSeqOfSubSeq
  <2>3. (d + 1) + i - 1 = i + d /\ (d + 1) + (i + L - 1) - 1 = i + d + L - 1 BY <1>1
  <2> QED BY <2>2, <2>3
<1> HIDE DEF z, L
<1>4. \A i : i \in K <=> /\ i \in 1 .. m - d /\ i + L - 1 <= m - d
                        /\ SubSeq(s, i + d, i + d + L - 1) = p
  BY <1>2, <1>3
<1>5. \A j : j \in H <=> j \in d + 1 .. m /\ j + L - 1 <= m /\ SubSeq(s, j, j + L - 1) = p
  BY DEF Hits, L
<1> HIDE DEF K, H
<1>6. \A i \in K : i \in Int BY <1>4
<1>7. f \in [K -> H]
  <2>1. ASSUME NEW i \in K PROVE i + d \in H
    <3>1. /\ i \in 1 .. m - d /\ i + L - 1 <= m - d
          /\ SubSeq(s, i + d, i + d + L - 1) = p
      BY <1>4
    <3>2. i + d \in d + 1 .. m /\ i + d + L - 1 <= m BY <1>1, <3>1
    <3> QED BY <1>5, <3>1, <3>2
  <2> QED BY <2>1
<1>8. \A a, b \in K : f[a] = f[b] => a = b BY <1>1, <1>6
<1>9. \A j \in H : \E i \in K : f[i] = j
  <2> TAKE j \in H
  <2>1. j \in d + 1 .. m /\ j + L - 1 <= m /\ SubSeq(s, j, j + L - 1) = p BY <1>5
  <2>2. /\ j - d \in 1 .. m - d /\ (j - d) + L - 1 <= m - d
        /\ (j - d) + d = j /\ (j - d) + d + L - 1 = j + L - 1
    BY <1>1, <2>1
  <2>3. j - d \in K BY <1>4, <2>1, <2>2
  <2> WITNESS j - d \in K
  <2> QED BY <2>2, <2>3
<1>10. ExistsBijection(K, H)
  <2>1. f \in Bijection(K, H) BY <1>7, <1>8, <1>9, Fun_IsBij
  <2> QED BY <2>1, Fun_ExistsBij
<1>11. IsFiniteSet(K)
  <2>1. IsFiniteSet(1 .. m - d) BY <1>1, FS_Interval
  <2>2. K \in SUBSET (1 .. m - d) BY <1>4
  <2> QED BY <2>1, <2>2, FS_Subset
<1>12. IsFiniteSet(H) /\ Cardinality(H) = Cardinality(K) BY <1>10, <1>11, FS_Bijection
<1>13. Occurrences(z, p) = Cardinality(K) BY DEF Occurrences, K, L
<1> QED BY <1>12, <1>13 DEF H, z

(* What is carried over separates the occurrences counted from the new. *)
LEMMA OccurrencesSplit ==
  ASSUME NEW S, NEW s \in Seq(S), NEW p \in Seq(S), Len(p) > 0,
         NEW a \in 0 .. Len(s), NEW n \in a .. Len(s)
  PROVE  Occurrences(SubSeq(s, 1, n), p)
           = Occurrences(SubSeq(s, 1, a), p)
             + Occurrences(SubSeq(s, IF a > Len(p) - 1 THEN a - (Len(p) - 1) + 1 ELSE 1, n), p)
<1> DEFINE L == Len(p)
           c == IF a > L - 1 THEN a - (L - 1) + 1 ELSE 1
           d == c - 1
<1>1. Len(s) \in Nat /\ a \in Nat /\ n \in Nat /\ L \in Nat /\ L > 0 BY LenProperties
<1>2. /\ d \in 0 .. Len(s) /\ n \in d .. Len(s) /\ c = d + 1 /\ d \in Nat
      /\ 0 \in 0 .. Len(s) /\ n \in 0 .. Len(s) /\ a \in 0 .. Len(s) /\ 0 + 1 = 1
  BY <1>1
<1>3. IsFiniteSet(Hits(s, p, 0, n))
      /\ Occurrences(SubSeq(s, 1, n), p) = Cardinality(Hits(s, p, 0, n))
  BY <1>1, <1>2, OccurrencesInSlice
<1>4. IsFiniteSet(Hits(s, p, 0, a))
      /\ Occurrences(SubSeq(s, 1, a), p) = Cardinality(Hits(s, p, 0, a))
  BY <1>1, <1>2, OccurrencesInSlice
<1>5. IsFiniteSet(Hits(s, p, d, n))
      /\ Occurrences(SubSeq(s, c, n), p) = Cardinality(Hits(s, p, d, n))
  BY <1>1, <1>2, OccurrencesInSlice
<1>6. Hits(s, p, 0, n) = Hits(s, p, 0, a) \cup Hits(s, p, d, n)
  <2>1. ASSUME NEW j \in Int
        PROVE  (1 <= j /\ j <= n /\ j + L - 1 <= n) <=>
                 \/ 1 <= j /\ j <= a /\ j + L - 1 <= a
                 \/ d + 1 <= j /\ j <= n /\ j + L - 1 <= n
    BY <1>1, <1>2
  <2> HIDE DEF d
  <2> QED BY <1>1, <1>2, <2>1 DEF Hits
<1>7. Hits(s, p, 0, a) \cap Hits(s, p, d, n) = {}
  <2>1. ASSUME NEW j \in Int, j <= a, j + L - 1 <= a, d + 1 <= j, 1 <= j PROVE FALSE
    BY <1>1, <2>1
  <2> HIDE DEF d
  <2> QED BY <1>1, <1>2, <2>1 DEF Hits
<1>8. Cardinality(Hits(s, p, 0, n))
        = Cardinality(Hits(s, p, 0, a)) + Cardinality(Hits(s, p, d, n))
  <2>1. Cardinality(Hits(s, p, 0, a)) \in Nat /\ Cardinality(Hits(s, p, d, n)) \in Nat
    BY <1>4, <1>5, FS_CardinalityType
  <2>2. Cardinality(Hits(s, p, 0, a) \cup Hits(s, p, d, n))
          = Cardinality(Hits(s, p, 0, a)) + Cardinality(Hits(s, p, d, n)) - Cardinality({})
    BY <1>4, <1>5, <1>7, FS_Union
  <2>3. Cardinality({}) = 0 BY FS_EmptySet
  <2>4. \A x, y \in Nat : x + y - 0 = x + y OBVIOUS
  <2>5. Cardinality(Hits(s, p, 0, n))
          = Cardinality(Hits(s, p, 0, a)) + Cardinality(Hits(s, p, d, n)) - 0
    BY <1>6, <2>2, <2>3, Zenon
  <2> HIDE DEF d
  <2> QED BY <2>1, <2>4, <2>5, Zenon
<1> QED BY <1>3, <1>4, <1>5, <1>8

(* What a log wait knows after the first `at' bytes. *)
MatchInv ==
  /\ text \in Seq(Char) /\ pattern \in Seq(Char) /\ at \in 0 .. Len(text)
  /\ reading = "none" => at = 0 /\ carry = <<>> /\ count = 0 /\ collected = <<>>
  /\ reading = "wait" =>
       /\ Len(pattern) > 0
       /\ carry = Suffix(text, at, Len(pattern) - 1)
       /\ count = Occurrences(SubSeq(text, 1, at), pattern)
       /\ collected = Suffix(text, at, MAX_COLLECTED)

LEMMA TextsAreSequences == ASSUME NEW k \in Nat PROVE Texts(k) \subseteq Seq(Char)
<1>1. ASSUME NEW j \in 0 .. k, NEW s \in [1 .. j -> Char] PROVE s \in Seq(Char)
  <2>1. j \in Nat OBVIOUS
  <2> QED BY <2>1, SeqDef
<1> QED BY <1>1 DEF Texts

LEMMA MatchInit == TextInit => MatchInv
<1> SUFFICES ASSUME TextInit PROVE MatchInv OBVIOUS
<1>1. <<>> \in Seq(Char) /\ Len(<<>>) = 0 BY EmptySeq
<1>2. 0 \in 0 .. 0 OBVIOUS
<1> QED BY <1>1, <1>2 DEF TextInit, MatchInv

LEMMA OpenMatches == MatchInv /\ OpenReader => MatchInv'
<1> SUFFICES ASSUME MatchInv, OpenReader PROVE MatchInv' OBVIOUS
<1>1. /\ at = 0 /\ carry = <<>> /\ count = 0 /\ collected = <<>>
      /\ at' = at /\ carry' = carry /\ count' = count /\ collected' = collected
  BY DEF MatchInv, OpenReader, matchVars
<1>2. text' \in Seq(Char) /\ Len(text') \in Nat
  BY TextAssumption, TextsAreSequences, LenProperties DEF OpenReader
<1>3. pattern' \in Seq(Char)
  BY TextAssumption, TextsAreSequences DEF OpenReader, MatchInv
<1>4. reading' # "none" BY DEF OpenReader
<1>5. at' \in 0 .. Len(text') BY <1>1, <1>2
<1>6. ASSUME reading' = "wait"
      PROVE  /\ Len(pattern') > 0
             /\ carry' = Suffix(text', at', Len(pattern') - 1)
             /\ count' = Occurrences(SubSeq(text', 1, at'), pattern')
             /\ collected' = Suffix(text', at', MAX_COLLECTED)
  <2>1. pattern' # <<>> BY <1>6 DEF OpenReader
  <2>2. Len(pattern') \in Nat /\ Len(pattern') > 0 BY <1>3, <2>1, EmptySeq, LenProperties
  <2>3. SubSeq(text', 1, 0) = <<>> BY SubSeqEmpty
  <2>4. ASSUME NEW k \in Nat PROVE Suffix(text', 0, k) = <<>>
    BY <2>3 DEF Suffix
  <2>5. Len(pattern') - 1 \in Nat BY <2>2
  <2>6. Occurrences(<<>>, pattern') = 0
    <3>1. Len(<<>>) = 0 BY EmptySeq
    <3>2. {i \in 1 .. 0 : i + Len(pattern') - 1 <= 0
                          /\ SubSeq(<<>>, i, i + Len(pattern') - 1) = pattern'} = {}
      OBVIOUS
    <3> QED BY <3>1, <3>2, FS_EmptySet DEF Occurrences
  <2> QED BY <1>1, <2>2, <2>3, <2>4, <2>5, <2>6, TextAssumption
<1> QED BY <1>2, <1>3, <1>4, <1>5, <1>6 DEF MatchInv

LEMMA FeedMatches == MatchInv /\ Feed => MatchInv'
<1> SUFFICES ASSUME MatchInv, Feed PROVE MatchInv' OBVIOUS
<1> DEFINE L == Len(pattern)
<1>1. /\ reading = "wait" /\ reading' = "wait" /\ text' = text /\ pattern' = pattern
      /\ text \in Seq(Char) /\ pattern \in Seq(Char) /\ at \in 0 .. Len(text)
      /\ Len(pattern) > 0
      /\ carry = Suffix(text, at, L - 1)
      /\ count = Occurrences(SubSeq(text, 1, at), pattern)
      /\ collected = Suffix(text, at, MAX_COLLECTED)
  BY DEF MatchInv, Feed
<1>2. PICK n \in at .. Len(text) :
        /\ at' = n /\ collected' = Collect(SubSeq(text, at + 1, n))
        /\ IF Len(carry \o SubSeq(text, at + 1, n)) >= Len(pattern)
           THEN /\ count' = count + Occurrences(carry \o SubSeq(text, at + 1, n), pattern)
                /\ carry' = Carry(carry \o SubSeq(text, at + 1, n))
           ELSE carry' = carry \o SubSeq(text, at + 1, n) /\ count' = count
  BY DEF Feed
<1>3. Len(text) \in Nat /\ at \in Nat /\ n \in Nat /\ L \in Nat /\ L > 0 /\ L - 1 \in Nat
  BY <1>1, <1>2, LenProperties
<1>4. n \in 0 .. Len(text) /\ at' \in 0 .. Len(text') BY <1>1, <1>2, <1>3
<1>5. collected' = Suffix(text', at', MAX_COLLECTED)
  BY <1>1, <1>2, TextAssumption, PushKeepsSuffix DEF Collect
<1> DEFINE c == IF at > L - 1 THEN at - (L - 1) + 1 ELSE 1
<1>6. /\ c \in 1 .. Len(text) + 1 /\ at \in c - 1 .. Len(text) /\ n \in c - 1 .. Len(text)
      /\ c \in Nat
  BY <1>1, <1>2, <1>3
<1>7. carry \o SubSeq(text, at + 1, n) = SubSeq(text, c, n)
  <2>1. carry = SubSeq(text, c, at) BY <1>1 DEF Suffix
  <2> QED BY <1>1, <1>2, <1>6, <2>1, ConcatAdjacentSubSeq
<1>8. Len(SubSeq(text, c, n)) = n - c + 1 BY <1>1, <1>6, Slice
<1>9. Occurrences(SubSeq(text, 1, n), pattern)
        = count + Occurrences(SubSeq(text, c, n), pattern)
  BY <1>1, <1>2, OccurrencesSplit
<1>10. Tail_(SubSeq(text, c, n), L - 1)
         = SubSeq(text, IF n - c + 1 > L - 1 THEN n - (L - 1) + 1 ELSE c, n)
  BY <1>1, <1>3, <1>6, TailOfSlice
<1>11. CASE n - c + 1 >= L
  <2>1. /\ count' = count + Occurrences(SubSeq(text, c, n), pattern)
        /\ carry' = Tail_(SubSeq(text, c, n), L - 1)
    BY <1>2, <1>7, <1>8, <1>11 DEF Carry
  <2>2. n - c + 1 > L - 1 /\ n > L - 1
    <3>1. c \in Nat /\ c >= 1 BY <1>3
    <3> HIDE DEF c, L
    <3> QED BY <1>3, <1>11, <3>1
  <2>3. carry' = Suffix(text, n, L - 1) BY <1>10, <2>1, <2>2 DEF Suffix
  <2> QED BY <1>1, <1>2, <1>4, <1>5, <1>9, <2>1, <2>3 DEF MatchInv
<1>12. CASE ~(n - c + 1 >= L)
  <2>1. count' = count /\ carry' = SubSeq(text, c, n)
    BY <1>2, <1>7, <1>8, <1>12
  <2>2. c = IF n > L - 1 THEN n - (L - 1) + 1 ELSE 1 BY <1>2, <1>3, <1>12
  <2>3. carry' = Suffix(text, n, L - 1) BY <2>1, <2>2 DEF Suffix
  <2>4. Occurrences(SubSeq(text, c, n), pattern) = 0
    <3>1. {i \in 1 .. n - c + 1 :
             i + Len(pattern) - 1 <= n - c + 1
             /\ SubSeq(SubSeq(text, c, n), i, i + Len(pattern) - 1) = pattern} = {}
      <4>1. ASSUME NEW i \in 1 .. n - c + 1 PROVE ~(i + Len(pattern) - 1 <= n - c + 1)
        <5>1. c \in Nat BY <1>3
        <5>2. ~(i + L - 1 <= n - c + 1)
          <6> HIDE DEF c, L
          <6> QED BY <1>3, <1>12, <5>1
        <5> QED BY <5>2
      <4> QED BY <4>1
    <3> QED BY <1>8, <3>1, FS_EmptySet DEF Occurrences
  <2>5. count \in Nat
    <3>1. /\ IsFiniteSet(Hits(text, pattern, 0, at))
          /\ Occurrences(SubSeq(text, 0 + 1, at), pattern)
               = Cardinality(Hits(text, pattern, 0, at))
      BY <1>1, <1>3, OccurrencesInSlice
    <3> QED BY <1>1, <3>1, FS_CardinalityType
  <2>6. count' = Occurrences(SubSeq(text, 1, n), pattern) BY <1>9, <2>1, <2>4, <2>5
  <2> QED BY <1>1, <1>2, <1>4, <1>5, <2>3, <2>6 DEF MatchInv
<1> QED BY <1>11, <1>12

LEMMA OthersMatch ==
  MatchInv /\ (FillBuf \/ EndOfFile \/ Discard \/ TakeLine \/ UNCHANGED textVars) => MatchInv'
<1> SUFFICES ASSUME MatchInv, FillBuf \/ EndOfFile \/ Discard \/ TakeLine \/ UNCHANGED textVars
             PROVE  MatchInv'
  OBVIOUS
<1>1. CASE FillBuf
  <2>1. reading' = reading /\ reading # "none" /\ reading # "wait"
    BY <1>1 DEF FillBuf, Consumer
  <2>2. text' = text /\ pattern' = pattern BY <1>1 DEF FillBuf
  <2>3. PICK n \in at + 1 .. Len(text) : at' = n BY <1>1 DEF FillBuf
  <2>4. Len(text) \in Nat /\ at \in 0 .. Len(text) BY LenProperties DEF MatchInv
  <2>5. at' \in 0 .. Len(text) BY <2>3, <2>4
  <2> QED BY <2>1, <2>2, <2>5 DEF MatchInv
<1>2. CASE EndOfFile \/ Discard \/ TakeLine \/ UNCHANGED textVars
  <2>1. UNCHANGED <<reading, text, at, pattern, carry, count, collected>>
    BY <1>2 DEF EndOfFile, Discard, TakeLine, textVars, matchVars
  <2> QED BY <2>1 DEF MatchInv
<1> QED BY <1>1, <1>2

(* For any log, needle and limit, and however the log is cut into pieces,  *)
(* StreamMatcher::feed has counted each occurrence in what it read exactly *)
(* once and CollectedLogs::push keeps its last bytes.                      *)
THEOREM MatchesExact == TextSpec => []MatchesCounted
<1>1. MatchInv /\ [TextNext]_textVars => MatchInv'
  BY OpenMatches, FeedMatches, OthersMatch DEF TextNext
<1>2. MatchInv => MatchesCounted
  <2> SUFFICES ASSUME MatchInv, reading = "wait" PROVE MatchesCounted
    BY DEF MatchesCounted
  <2>1. /\ text \in Seq(Char) /\ at \in 0 .. Len(text)
        /\ count = Occurrences(SubSeq(text, 1, at), pattern)
        /\ collected = Suffix(text, at, MAX_COLLECTED)
    BY DEF MatchInv
  <2>2. /\ Len(text) \in Nat /\ 1 \in 1 .. Len(text) + 1 /\ at \in 1 - 1 .. Len(text)
        /\ at - 1 + 1 = at
    BY <2>1, LenProperties
  <2>3. Tail_(SubSeq(text, 1, at), MAX_COLLECTED) = Suffix(text, at, MAX_COLLECTED)
    BY <2>1, <2>2, TextAssumption, TailOfSlice DEF Suffix
  <2> QED BY <2>1, <2>3 DEF MatchesCounted
<1> QED BY <1>1, <1>2, MatchInit, PTL DEF TextSpec
------------------------------------------------------------------------------
(* The types, of what a reader of either kind works on. *)
WireType ==
  /\ msg = NoMessage \/ msg \in Exchanges
  /\ arrived \in Nat /\ eof \in BOOLEAN /\ heads \in Nat /\ taken \in Nat
  /\ wpc \in {"idle", "read", "head", "body", "demux", "done"}
  /\ outcome \in {"none", "ok", "io", "status", "too_large", "exceeds",
                  "closed_in_head", "closed_in_body"}

(* What a consumer is to see of a line. *)
Seen(body) ==
  IF Len(body) > MAX_LINE_LENGTH THEN SubSeq(body, 1, MAX_LINE_LENGTH)
  ELSE StripTrailingCr(body)

(* The line feed at q is the first one behind p. *)
FirstFeed(s, p, q) ==
  /\ p < q /\ q <= Len(s) /\ s[q] = NL
  /\ \A j \in Nat : p < j /\ j < q => s[j] # NL

(* No line feed behind p and up to m. *)
LineFree(s, p, m) == \A j \in Nat : p < j /\ j <= m => s[j] # NL

(* Behind p there is a first line feed or none. *)
LEMMA NextOrFree ==
  ASSUME NEW S, NEW s \in Seq(S), NEW p \in 0..Len(s)
  PROVE  \/ LineFree(s, p, Len(s))
         \/ \E q \in 1..Len(s) : FirstFeed(s, p, q)
<1> DEFINE T == {j \in 1..Len(s) : p < j /\ s[j] = NL}
<1>1. Len(s) \in Nat
  OBVIOUS
<1>2. CASE T = {}
  <2>1. ASSUME NEW j \in Nat, p < j, j <= Len(s) PROVE s[j] # NL
    <3>1. j \in 1..Len(s)
      BY <2>1
    <3> QED  BY <1>2, <2>1, <3>1
  <2> QED  BY <2>1 DEF LineFree
<1>3. CASE T # {}
  <2>1. PICK q \in T : \A y \in T : q <= y
    <3>1. T \subseteq Nat
      OBVIOUS
    <3> HIDE DEF T
    <3> QED  BY <1>3, <3>1, Least
  <2>2. q \in 1..Len(s) /\ p < q /\ s[q] = NL
    BY <2>1
  <2>3. ASSUME NEW j \in Nat, p < j, j < q PROVE s[j] # NL
    <3>1. j \in 1..Len(s) /\ ~(q <= j)
      BY <1>1, <2>2, <2>3
    <3>2. s[j] = NL => j \in T
      BY <2>3, <3>1
    <3> QED  BY <2>1, <3>1, <3>2
  <2> QED  BY <1>1, <2>2, <2>3 DEF FirstFeed
<1> QED  BY <1>2, <1>3

(* The rest of a text, byte by byte. *)
LEMMA RestOf ==
  ASSUME NEW S, NEW s \in Seq(S), NEW p \in 0..Len(s)
  PROVE  /\ SubSeq(s, p + 1, Len(s)) \in Seq(S)
         /\ Len(SubSeq(s, p + 1, Len(s))) = Len(s) - p
         /\ \A i \in 1 .. Len(s) - p : SubSeq(s, p + 1, Len(s))[i] = s[p + i]
OBVIOUS

(* Without a line feed behind p the rest of the text has none. *)
LEMMA FreeRest ==
  ASSUME NEW S, NEW s \in Seq(S), NEW p \in 0..Len(s), LineFree(s, p, Len(s))
  PROVE  ~NewlineIn(SubSeq(s, p + 1, Len(s)))
<1> DEFINE rest == SubSeq(s, p + 1, Len(s))
<1>1. /\ Len(rest) = Len(s) - p /\ Len(s) \in Nat /\ p \in Nat
      /\ \A i \in 1 .. Len(s) - p : rest[i] = s[p + i]
  BY RestOf
<1> HIDE DEF rest
<1>2. ASSUME NEW i \in 1..Len(rest) PROVE rest[i] # NL
  <2>1. p + i \in Nat /\ p < p + i /\ p + i <= Len(s) /\ rest[i] = s[p + i]
    BY <1>1
  <2> QED  BY <2>1 DEF LineFree
<1> QED  BY <1>2 DEF NewlineIn, rest

(* Before finds the first line feed of a piece. *)
LEMMA BeforeIs ==
  ASSUME NEW S, NEW r \in Seq(S), NEW k \in 0 .. Len(r) - 1, r[k + 1] = NL,
         \A i \in 1..k : r[i] # NL
  PROVE  NewlineIn(r) /\ Before(r) = k
<1>1. Len(r) \in Nat /\ k \in Nat /\ k + 1 \in 1..Len(r)
  OBVIOUS
<1>2. NewlineIn(r)
  BY <1>1 DEF NewlineIn
<1>3. ASSUME NEW p \in 0 .. Len(r) - 1, r[p + 1] = NL, \A i \in 1..p : r[i] # NL
      PROVE  p = k
  <2>1. ~(p < k)
    <3> SUFFICES ASSUME p < k PROVE FALSE
      OBVIOUS
    <3>1. p + 1 \in 1..k
      OBVIOUS
    <3> QED  BY <1>3, <3>1
  <2>2. ~(k < p)
    <3> SUFFICES ASSUME k < p PROVE FALSE
      OBVIOUS
    <3>1. k + 1 \in 1..p
      OBVIOUS
    <3> QED  BY <1>3, <3>1
  <2> QED  BY <2>1, <2>2
<1>4. \E p \in 0 .. Len(r) - 1 : r[p + 1] = NL /\ \A i \in 1..p : r[i] # NL
  OBVIOUS
<1> QED  BY <1>2, <1>3, <1>4 DEF Before

(* In a piece with a line feed there is such a place. *)
LEMMA BeforeExists ==
  ASSUME NEW S, NEW r \in Seq(S), NewlineIn(r)
  PROVE  /\ Before(r) \in 0 .. Len(r) - 1 /\ r[Before(r) + 1] = NL
         /\ \A i \in 1..Before(r) : r[i] # NL
<1> DEFINE T == {j \in 1..Len(r) : r[j] = NL}
<1>0. Len(r) \in Nat
  OBVIOUS
<1>1. T # {} /\ T \subseteq Nat
  BY DEF NewlineIn
<1>2. PICK q \in T : \A y \in T : q <= y
  <2> HIDE DEF T
  <2> QED  BY <1>1, Least
<1>3. q \in 1..Len(r) /\ r[q] = NL
  BY <1>2
<1>4. q - 1 \in 0 .. Len(r) - 1 /\ (q - 1) + 1 = q
  BY <1>0, <1>3
<1>5. ASSUME NEW i \in 1 .. q - 1 PROVE r[i] # NL
  <2>1. i \in 1..Len(r) /\ ~(q <= i)
    BY <1>0, <1>3
  <2> QED  BY <1>2, <2>1
<1>6. Before(r) = q - 1
  BY <1>3, <1>4, <1>5, BeforeIs
<1> QED  BY <1>3, <1>4, <1>5, <1>6

(* What the line behind p gives, with g for the lines after it. *)
LineTurn(s, g, p) ==
  LET rest == SubSeq(s, p + 1, Len(s))
      body == SubSeq(rest, 1, Before(rest))
  IN  IF ~NewlineIn(rest) THEN <<>>
      ELSE <<IF Len(body) > MAX_LINE_LENGTH
             THEN SubSeq(body, 1, MAX_LINE_LENGTH) ELSE StripTrailingCr(body)>>
           \o g[p + Before(rest) + 1]

(* A line ends behind its beginning and within the text. *)
LEMMA LineEndBounds ==
  ASSUME NEW S, NEW s \in Seq(S), NEW p \in 0..Len(s),
         NewlineIn(SubSeq(s, p + 1, Len(s)))
  PROVE  p + Before(SubSeq(s, p + 1, Len(s))) + 1 \in p + 1 .. Len(s)
<1> DEFINE rest == SubSeq(s, p + 1, Len(s))
<1>1. rest \in Seq(S) /\ Len(rest) = Len(s) - p /\ Len(s) \in Nat
  BY RestOf
<1>2. Before(rest) \in 0 .. Len(rest) - 1
  <2> HIDE DEF rest
  <2>1. NewlineIn(rest)
    BY DEF rest
  <2> QED  BY <1>1, <2>1, BeforeExists
<1> HIDE DEF rest
<1>3. p + Before(rest) + 1 \in p + 1 .. Len(s)
  BY <1>1, <1>2
<1> QED  BY <1>3 DEF rest

(* The lines can be found from the last one up. *)
LEMMA LinesExist ==
  ASSUME NEW T, NEW s \in Seq(T)
  PROVE  \E g : g = [p \in 0..Len(s) |-> LineTurn(s, g, p)]
<1> DEFINE m == Len(s)
           S == {x \in 0..m : \E g : g = [p \in x..m |-> LineTurn(s, g, p)]}
<1>1. m \in Nat
  OBVIOUS
<1>2. ASSUME NEW x \in 0..m, \A y \in x + 1 .. m : y \in S
      PROVE  x \in S
  <2>1. PICK h : h = [p \in x + 1 .. m |-> LineTurn(s, h, p)]
    <3>1. CASE x = m
      <4>1. [z \in {} |-> 0] = [p \in x + 1 .. m |-> LineTurn(s, [z \in {} |-> 0], p)]
        BY <3>1, <1>1
      <4> QED  BY <4>1
    <3>2. CASE x # m
      <4>1. x + 1 \in x + 1 .. m
        BY <1>1, <3>2
      <4> QED  BY <1>2, <4>1
    <3> QED  BY <3>1, <3>2
  <2> DEFINE g == [p \in x .. m |-> IF p = x THEN LineTurn(s, h, x) ELSE h[p]]
  <2>2. ASSUME NEW p \in x..m PROVE LineTurn(s, g, p) = LineTurn(s, h, p)
    <3> DEFINE e == p + Before(SubSeq(s, p + 1, Len(s))) + 1
    <3>1. CASE ~NewlineIn(SubSeq(s, p + 1, Len(s)))
      BY <3>1 DEF LineTurn
    <3>2. CASE NewlineIn(SubSeq(s, p + 1, Len(s)))
      <4>1. p \in 0..Len(s)
        BY <1>1
      <4>2. e \in p + 1 .. Len(s)
        BY <3>2, <4>1, LineEndBounds
      <4>3. e \in x .. m /\ e # x
        <5> HIDE DEF e
        <5> QED  BY <1>1, <4>2
      <4>4. g[e] = h[e]
        <5> HIDE DEF e
        <5> QED  BY <4>3
      <4> HIDE DEF g
      <4> QED  BY <4>4 DEF LineTurn
    <3> QED  BY <3>1, <3>2
  <2>3. ASSUME NEW p \in x..m PROVE g[p] = LineTurn(s, g, p)
    <3>1. CASE p = x
      BY <2>2, <3>1
    <3>2. CASE p # x
      <4>1. p \in x + 1 .. m
        BY <1>1, <3>2
      <4>2. h[p] = LineTurn(s, h, p)
        BY <2>1, <4>1
      <4>3. g[p] = h[p]
        BY <3>2
      <4> HIDE DEF g
      <4> QED  BY <2>2, <4>2, <4>3
    <3> QED  BY <3>1, <3>2
  <2>4. g = [p \in x..m |-> g[p]]
    OBVIOUS
  <2>5. g = [p \in x..m |-> LineTurn(s, g, p)]
    <3> HIDE DEF g
    <3> QED  BY <2>3, <2>4
  <2> HIDE DEF g
  <2> QED  BY <2>5
<1>3. 0..m \subseteq S
  <2> HIDE DEF S, m
  <2> QED  BY <1>1, <1>2, Downwards
<1>4. 0 \in S
  BY <1>1, <1>3
<1> QED  BY <1>4

(* The lines from each place, unfolded once. *)
LEMMA LinesUnfold ==
  ASSUME NEW T, NEW s \in Seq(T)
  PROVE  LinesFrom(s) = [p \in 0..Len(s) |-> LineTurn(s, LinesFrom(s), p)]
BY LinesExist DEF LinesFrom, LineTurn

(* A slice of a text, byte by byte. *)
LEMMA SliceOf ==
  ASSUME NEW S, NEW s \in Seq(S), NEW p \in 0..Len(s), NEW k \in p..Len(s)
  PROVE  /\ SubSeq(s, p + 1, k) \in Seq(S) /\ Len(SubSeq(s, p + 1, k)) = k - p
         /\ DOMAIN SubSeq(s, p + 1, k) = 1 .. k - p
         /\ \A i \in 1 .. k - p : SubSeq(s, p + 1, k)[i] = s[p + i]
OBVIOUS

(* A slice of a slice is a slice. *)
LEMMA SliceOfSlice ==
  ASSUME NEW S, NEW s \in Seq(S), NEW a \in 0..Len(s), NEW b \in a..Len(s),
         NEW i \in 0 .. b - a, NEW k \in i .. b - a
  PROVE  SubSeq(SubSeq(s, a + 1, b), i + 1, k) = SubSeq(s, a + i + 1, a + k)
<1> DEFINE r == SubSeq(s, a + 1, b)
           u == SubSeq(r, i + 1, k)
           v == SubSeq(s, a + i + 1, a + k)
<1>1. /\ Len(s) \in Nat /\ a \in Nat /\ b \in Nat /\ i \in Nat /\ k \in Nat
      /\ a <= b /\ b <= Len(s) /\ i <= k /\ k <= b - a
  OBVIOUS
<1>2. /\ r \in Seq(S) /\ Len(r) = b - a
      /\ \A j \in 1 .. b - a : r[j] = s[a + j]
  BY SliceOf
<1>3. /\ u \in Seq(S) /\ Len(u) = k - i
      /\ \A j \in 1 .. k - i : u[j] = r[i + j]
  <2> HIDE DEF r
  <2>1. i \in 0..Len(r) /\ k \in i..Len(r)
    BY <1>1, <1>2
  <2> QED  BY <1>2, <2>1, SliceOf
<1>4. /\ v \in Seq(S) /\ Len(v) = k - i
      /\ \A j \in 1 .. k - i : v[j] = s[(a + i) + j]
  <2>1. a + i \in 0..Len(s) /\ a + k \in a + i .. Len(s) /\ (a + k) - (a + i) = k - i
    BY <1>1
  <2> QED  BY <2>1, SliceOf
<1> HIDE DEF r, u, v
<1>5. ASSUME NEW j \in 1..Len(u) PROVE u[j] = v[j]
  <2>1. j \in 1 .. k - i /\ i + j \in 1 .. b - a /\ a + (i + j) = (a + i) + j
    BY <1>1, <1>3
  <2> QED  BY <1>2, <1>3, <1>4, <2>1
<1>6. u = v
  BY <1>3, <1>4, <1>5, SeqEqual
<1> QED  BY <1>6 DEF r, u, v

(* The text before the line feed at q, taken from the rest behind p. *)
LEMMA SliceOfRest ==
  ASSUME NEW S, NEW s \in Seq(S), NEW p \in 0..Len(s), NEW q \in p + 1 .. Len(s)
  PROVE  SubSeq(SubSeq(s, p + 1, Len(s)), 1, q - p - 1) = SubSeq(s, p + 1, q - 1)
<1>1. /\ Len(s) \in p..Len(s) /\ 0 \in 0 .. Len(s) - p /\ q - p - 1 \in 0 .. Len(s) - p
      /\ 0 + 1 = 1 /\ p + 0 + 1 = p + 1 /\ p + (q - p - 1) = q - 1
  OBVIOUS
<1>2. SubSeq(SubSeq(s, p + 1, Len(s)), 0 + 1, q - p - 1)
        = SubSeq(s, p + 0 + 1, p + (q - p - 1))
  BY <1>1, SliceOfSlice
<1> QED  BY <1>1, <1>2

(* A slice of a prefix. *)
LEMMA PrefixSlice ==
  ASSUME NEW S, NEW s \in Seq(S), NEW b \in 0..Len(s), NEW p \in 0..b, NEW k \in p..b
  PROVE  /\ SubSeq(s, 1, b) \in Seq(S) /\ Len(SubSeq(s, 1, b)) = b
         /\ \A i \in 1..b : SubSeq(s, 1, b)[i] = s[i]
         /\ SubSeq(SubSeq(s, 1, b), p + 1, k) = SubSeq(s, p + 1, k)
<1>1. /\ 0 \in 0..Len(s) /\ b \in 0..Len(s) /\ p \in 0 .. b - 0 /\ k \in p .. b - 0
      /\ 0 + 1 = 1 /\ 0 + p + 1 = p + 1 /\ 0 + k = k /\ b - 0 = b
  OBVIOUS
<1>2. SubSeq(SubSeq(s, 0 + 1, b), p + 1, k) = SubSeq(s, 0 + p + 1, 0 + k)
  BY <1>1, SliceOfSlice
<1>3. /\ SubSeq(s, 0 + 1, b) \in Seq(S) /\ Len(SubSeq(s, 0 + 1, b)) = b - 0
      /\ \A i \in 1 .. b - 0 : SubSeq(s, 0 + 1, b)[i] = s[0 + i]
  BY <1>1, SliceOf
<1>4. \A i \in 1..b : 0 + i = i
  OBVIOUS
<1> QED  BY <1>1, <1>2, <1>3, <1>4

(* ... by the next line feed, or the lack of one. *)
LEMMA NoMoreLines ==
  ASSUME NEW S, NEW s \in Seq(S), NEW p \in 0..Len(s), LineFree(s, p, Len(s))
  PROVE  LinesFrom(s)[p] = <<>>
<1>1. ~NewlineIn(SubSeq(s, p + 1, Len(s)))
  BY FreeRest
<1>2. LinesFrom(s)[p] = LineTurn(s, LinesFrom(s), p)
  BY LinesUnfold
<1> QED  BY <1>1, <1>2 DEF LineTurn

(* Before finds the first line feed of the rest. *)
LEMMA BeforeNext ==
  ASSUME NEW S, NEW s \in Seq(S), NEW p \in 0..Len(s), NEW q \in Nat, FirstFeed(s, p, q)
  PROVE  /\ NewlineIn(SubSeq(s, p + 1, Len(s)))
         /\ Before(SubSeq(s, p + 1, Len(s))) = q - p - 1
<1> DEFINE rest == SubSeq(s, p + 1, Len(s))
<1>1. /\ rest \in Seq(S) /\ Len(rest) = Len(s) - p /\ Len(s) \in Nat /\ p \in Nat
      /\ \A i \in 1 .. Len(s) - p : rest[i] = s[p + i]
  BY RestOf
<1>2. /\ p < q /\ q <= Len(s) /\ s[q] = NL
      /\ \A j \in Nat : p < j /\ j < q => s[j] # NL
  BY DEF FirstFeed
<1> HIDE DEF rest
<1>3. q - p - 1 \in 0 .. Len(rest) - 1 /\ (q - p - 1) + 1 \in 1 .. Len(s) - p
      /\ p + ((q - p - 1) + 1) = q
  BY <1>1, <1>2
<1>4. rest[(q - p - 1) + 1] = NL
  BY <1>1, <1>2, <1>3
<1>5. ASSUME NEW i \in 1 .. q - p - 1 PROVE rest[i] # NL
  <2>1. i \in 1 .. Len(s) - p /\ p + i \in Nat /\ p < p + i /\ p + i < q
    BY <1>1, <1>2
  <2> QED  BY <1>1, <1>2, <2>1
<1>6. NewlineIn(rest) /\ Before(rest) = q - p - 1
  BY <1>1, <1>3, <1>4, <1>5, BeforeIs
<1> QED  BY <1>6 DEF rest

(* A line feed at q makes a line of the text between p and q. *)
LEMMA OneMoreLine ==
  ASSUME NEW S, NEW s \in Seq(S), NEW p \in 0..Len(s), NEW q \in Nat, FirstFeed(s, p, q)
  PROVE  LinesFrom(s)[p] = <<Seen(SubSeq(s, p + 1, q - 1))>> \o LinesFrom(s)[q]
<1> DEFINE rest == SubSeq(s, p + 1, Len(s))
<1>1. NewlineIn(rest) /\ Before(rest) = q - p - 1
  BY BeforeNext
<1>2. Len(s) \in Nat /\ p \in Nat /\ p < q /\ q <= Len(s)
  BY DEF FirstFeed
<1>3. p + (q - p - 1) + 1 = q /\ q \in p + 1 .. Len(s)
  BY <1>2
<1>4. SubSeq(rest, 1, q - p - 1) = SubSeq(s, p + 1, q - 1)
  BY <1>3, SliceOfRest
<1>5. LinesFrom(s)[p] = LineTurn(s, LinesFrom(s), p)
  BY LinesUnfold
<1> HIDE DEF rest
<1>6. LineTurn(s, LinesFrom(s), p)
        = <<Seen(SubSeq(rest, 1, Before(rest)))>> \o LinesFrom(s)[p + Before(rest) + 1]
  BY <1>1 DEF LineTurn, Seen, rest
<1> QED  BY <1>1, <1>3, <1>4, <1>5, <1>6

(* Stripping a carriage return gives a text, and no longer one. *)
LEMMA StripType ==
  ASSUME NEW S, NEW l \in Seq(S)
  PROVE  StripTrailingCr(l) \in Seq(S) /\ Len(StripTrailingCr(l)) <= Len(l)
BY DEF StripTrailingCr

(* What is seen of a line is a text; if it is short, so is the line. *)
LEMMA SeenType ==
  ASSUME NEW S, NEW l \in Seq(S)
  PROVE  Seen(l) \in Seq(S) /\ (Len(Seen(l)) < MAX_LINE_LENGTH => Len(l) <= MAX_LINE_LENGTH)
<1>1. CASE Len(l) > MAX_LINE_LENGTH
  <2>1. MAX_LINE_LENGTH \in 0..Len(l) /\ MAX_LINE_LENGTH \in Nat
    BY <1>1, TextAssumption
  <2>2. /\ SubSeq(l, 1, MAX_LINE_LENGTH) \in Seq(S)
        /\ Len(SubSeq(l, 1, MAX_LINE_LENGTH)) = MAX_LINE_LENGTH
    <3>1. 0 \in 0..MAX_LINE_LENGTH /\ MAX_LINE_LENGTH \in 0..MAX_LINE_LENGTH
      BY <2>1
    <3> QED  BY <2>1, <3>1, PrefixSlice
  <2> QED  BY <1>1, <2>1, <2>2 DEF Seen
<1>2. CASE ~(Len(l) > MAX_LINE_LENGTH)
  <2>1. Len(l) \in Nat /\ MAX_LINE_LENGTH \in Nat
    BY TextAssumption
  <2> QED  BY <1>2, <2>1, StripType DEF Seen
<1> QED  BY <1>1, <1>2

(* A line begins at the beginning or behind a line feed. *)
LineStart(s, b) == b = 0 \/ s[b] = NL

(* The lines are texts. *)
LEMMA LinesType ==
  ASSUME NEW S, NEW s \in Seq(S)
  PROVE  \A p \in 0..Len(s) : LinesFrom(s)[p] \in Seq(Seq(S))
<1> DEFINE m == Len(s)
           G == {x \in 0..m : LinesFrom(s)[x] \in Seq(Seq(S))}
<1>1. m \in Nat
  OBVIOUS
<1>2. ASSUME NEW x \in 0..m, \A y \in x + 1 .. m : y \in G
      PROVE  x \in G
  <2>1. CASE LineFree(s, x, Len(s))
    <3>1. LinesFrom(s)[x] = <<>>
      BY <2>1, NoMoreLines
    <3>2. <<>> \in Seq(Seq(S))
      OBVIOUS
    <3> QED  BY <3>1, <3>2
  <2>2. CASE \E q \in 1..Len(s) : FirstFeed(s, x, q)
    <3>1. PICK q \in 1..Len(s) : FirstFeed(s, x, q)
      BY <2>2
    <3>2. q \in Nat /\ x \in Nat /\ x < q /\ q <= m
      BY <3>1 DEF FirstFeed
    <3>3. LinesFrom(s)[x] = <<Seen(SubSeq(s, x + 1, q - 1))>> \o LinesFrom(s)[q]
      BY <3>1, <3>2, OneMoreLine
    <3>4. LinesFrom(s)[q] \in Seq(Seq(S))
      <4>1. q \in x + 1 .. m
        BY <1>1, <3>2
      <4> QED  BY <1>2, <4>1
    <3>5. Seen(SubSeq(s, x + 1, q - 1)) \in Seq(S)
      <4>1. q - 1 \in x..Len(s)
        BY <1>1, <3>2
      <4>2. SubSeq(s, x + 1, q - 1) \in Seq(S)
        BY <4>1, SliceOf
      <4> QED  BY <4>2, SeenType
    <3>6. <<Seen(SubSeq(s, x + 1, q - 1))>> \in Seq(Seq(S))
      BY <3>5
    <3>7. LinesFrom(s)[x] \in Seq(Seq(S))
      BY <3>3, <3>4, <3>6, ConcatProperties
    <3> QED  BY <3>7
  <2> QED  BY <2>1, <2>2, NextOrFree
<1>3. 0..m \subseteq G
  <2> HIDE DEF G, m
  <2> QED  BY <1>1, <1>2, Downwards
<1> QED  BY <1>3

(* The lines of a text are those up to the beginning of one, and those     *)
(* from there.                                                             *)
LEMMA LinesSplit ==
  ASSUME NEW S, NEW s \in Seq(S), NEW b \in 0..Len(s), LineStart(s, b)
  PROVE  LinesOf(s) = LinesOf(SubSeq(s, 1, b)) \o LinesFrom(s)[b]
<1> DEFINE t == SubSeq(s, 1, b)
           G == {x \in 0..b : LinesFrom(s)[x] = LinesFrom(t)[x] \o LinesFrom(s)[b]}
<1>1. b \in Nat /\ Len(s) \in Nat /\ b <= Len(s)
  OBVIOUS
<1>2. /\ t \in Seq(S) /\ Len(t) = b /\ \A i \in 1..b : t[i] = s[i]
      /\ \A p \in 0..b : \A k \in p..b : SubSeq(t, p + 1, k) = SubSeq(s, p + 1, k)
  <2>1. 0 \in 0..b /\ b \in 0..b
    BY <1>1
  <2> QED  BY <2>1, PrefixSlice
<1> HIDE DEF t
<1>3. LinesFrom(s)[b] \in Seq(Seq(S))
  BY LinesType
<1>4. ASSUME NEW x \in 0..b, \A y \in x + 1 .. b : y \in G
      PROVE  x \in G
  <2>1. CASE x = b
    <3>1. LineFree(t, x, Len(t))
      BY <1>1, <1>2, <2>1 DEF LineFree
    <3>2. LinesFrom(t)[x] = <<>>
      BY <1>2, <3>1, NoMoreLines
    <3>3. <<>> \o LinesFrom(s)[b] = LinesFrom(s)[b]
      BY <1>3, ConcatEmptySeq
    <3> QED  BY <2>1, <3>2, <3>3
  <2>2. CASE x # b
    <3>1. x \in Nat /\ x < b /\ b # 0 /\ s[b] = NL /\ b \in 1..b
      BY <1>1, <2>2 DEF LineStart
    <3>2. t[b] = NL
      BY <1>2, <3>1
    <3>3. ~LineFree(t, x, Len(t))
      BY <1>1, <1>2, <3>1, <3>2 DEF LineFree
    <3>4. PICK q \in 1..Len(t) : FirstFeed(t, x, q)
      BY <1>2, <3>3, NextOrFree
    <3>5. /\ q \in Nat /\ x < q /\ q <= b /\ t[q] = NL
          /\ \A j \in Nat : x < j /\ j < q => t[j] # NL
      BY <1>1, <1>2, <3>4 DEF FirstFeed
    <3>6. FirstFeed(s, x, q)
      <4>1. q <= Len(s) /\ s[q] = NL
        <5>1. q \in 1..b /\ q <= Len(s)
          BY <1>1, <3>1, <3>5
        <5> QED  BY <1>2, <3>5, <5>1
      <4>2. ASSUME NEW j \in Nat, x < j, j < q PROVE s[j] # NL
        <5>1. j \in 1..b
          BY <1>1, <3>1, <3>5, <4>2
        <5> QED  BY <1>2, <3>5, <4>2, <5>1
      <4> QED  BY <3>5, <4>1, <4>2 DEF FirstFeed
    <3> DEFINE e == Seen(SubSeq(s, x + 1, q - 1))
    <3>7. q - 1 \in x..b /\ q - 1 \in x..Len(s) /\ x \in 0..Len(s) /\ q \in x + 1 .. b
      BY <1>1, <3>1, <3>5
    <3>8. LinesFrom(s)[x] = <<e>> \o LinesFrom(s)[q]
      BY <3>5, <3>6, <3>7, OneMoreLine
    <3>9. LinesFrom(t)[x] = <<e>> \o LinesFrom(t)[q]
      <4>1. SubSeq(t, x + 1, q - 1) = SubSeq(s, x + 1, q - 1)
        BY <1>2, <3>7
      <4>2. x \in 0..Len(t)
        BY <1>2
      <4>3. LinesFrom(t)[x] = <<Seen(SubSeq(t, x + 1, q - 1))>> \o LinesFrom(t)[q]
        BY <1>2, <3>4, <3>5, <4>2, OneMoreLine
      <4> QED  BY <4>1, <4>3
    <3>10. LinesFrom(s)[q] = LinesFrom(t)[q] \o LinesFrom(s)[b]
      BY <1>4, <3>7
    <3>11. <<e>> \in Seq(Seq(S)) /\ LinesFrom(t)[q] \in Seq(Seq(S))
      <4>1. SubSeq(s, x + 1, q - 1) \in Seq(S)
        BY <3>7, SliceOf
      <4>2. e \in Seq(S)
        BY <4>1, SeenType
      <4>3. q \in 0..Len(t)
        BY <1>2, <1>1, <3>5
      <4> HIDE DEF e
      <4> QED  BY <1>2, <4>2, <4>3, LinesType
    <3>12. <<e>> \o (LinesFrom(t)[q] \o LinesFrom(s)[b])
             = (<<e>> \o LinesFrom(t)[q]) \o LinesFrom(s)[b]
      <4> DEFINE U == Seq(S)
                 u == LinesFrom(t)[q]
                 v == LinesFrom(s)[b]
      <4>1. <<e>> \in Seq(U) /\ u \in Seq(U) /\ v \in Seq(U)
        BY <1>3, <3>11
      <4> HIDE DEF e, U, u, v
      <4>2. (<<e>> \o u) \o v = <<e>> \o (u \o v)
        BY ONLY <4>1, ConcatAssociative
      <4> QED  BY <4>2 DEF u, v
    <3> QED  BY <3>8, <3>9, <3>10, <3>12
  <2> QED  BY <2>1, <2>2
<1>5. 0..b \subseteq G
  <2> HIDE DEF G
  <2> QED  BY <1>1, <1>4, Downwards
<1>6. 0 \in G
  <2> HIDE DEF G
  <2> QED  BY <1>1, <1>5
<1> QED  BY <1>6 DEF LinesOf, t

(* So are those of a prefix. *)
LEMMA LinesOfType ==
  ASSUME NEW S, NEW s \in Seq(S), NEW b \in 0..Len(s)
  PROVE  LinesOf(SubSeq(s, 1, b)) \in Seq(Seq(S))
<1>1. 0 \in 0..b /\ b \in 0..b /\ b \in Nat
  OBVIOUS
<1>2. SubSeq(s, 1, b) \in Seq(S) /\ Len(SubSeq(s, 1, b)) = b
  BY <1>1, PrefixSlice
<1> QED  BY <1>1, <1>2, LinesType DEF LinesOf

(* A piece without a line feed brings no line. *)
LEMMA SameLines ==
  ASSUME NEW S, NEW s \in Seq(S), NEW d \in 0..Len(s), NEW b \in 0..d,
         LineStart(s, b), LineFree(s, b, d)
  PROVE  LinesOf(SubSeq(s, 1, d)) = LinesOf(SubSeq(s, 1, b))
<1> DEFINE t == SubSeq(s, 1, d)
<1>1. d \in Nat /\ b \in Nat /\ b <= d /\ 0 \in 0..d /\ b \in 0..d
  OBVIOUS
<1>2. /\ t \in Seq(S) /\ Len(t) = d /\ \A i \in 1..d : t[i] = s[i]
      /\ SubSeq(t, 0 + 1, b) = SubSeq(s, 0 + 1, b)
  BY <1>1, PrefixSlice
<1> HIDE DEF t
<1>3. LineStart(t, b)
  <2>1. b # 0 => b \in 1..d
    BY <1>1
  <2> QED  BY <1>2, <2>1 DEF LineStart
<1>4. LineFree(t, b, Len(t))
  <2>1. ASSUME NEW j \in Nat, b < j, j <= d PROVE t[j] # NL
    <3>1. j \in 1..d
      BY <1>1, <2>1
    <3> QED  BY <1>2, <2>1, <3>1 DEF LineFree
  <2> QED  BY <1>2, <2>1 DEF LineFree
<1>5. b \in 0..Len(t)
  BY <1>2
<1>6. LinesOf(t) = LinesOf(SubSeq(t, 1, b)) \o LinesFrom(t)[b] /\ LinesFrom(t)[b] = <<>>
  BY <1>2, <1>3, <1>4, <1>5, LinesSplit, NoMoreLines
<1>7. LinesOf(SubSeq(t, 1, b)) \in Seq(Seq(S))
  BY <1>2, <1>5, LinesOfType
<1>8. LinesOf(t) = LinesOf(SubSeq(t, 1, b))
  BY <1>6, <1>7, ConcatEmptySeq
<1>9. 0 + 1 = 1
  OBVIOUS
<1> QED  BY <1>2, <1>8, <1>9 DEF t

(* The next line feed brings one. *)
LEMMA LastLine ==
  ASSUME NEW S, NEW s \in Seq(S), NEW b \in 0..Len(s), LineStart(s, b),
         FirstFeed(s, b, Len(s))
  PROVE  LinesOf(s) = Append(LinesOf(SubSeq(s, 1, b)), Seen(SubSeq(s, b + 1, Len(s) - 1)))
<1> DEFINE n == Len(s)
           u == LinesOf(SubSeq(s, 1, b))
           e == Seen(SubSeq(s, b + 1, n - 1))
<1>1. n \in Nat /\ b < n /\ n \in 0..n /\ n - 1 \in b..n
  BY DEF FirstFeed
<1>2. LinesOf(s) = u \o LinesFrom(s)[b]
  BY LinesSplit
<1>3. LinesFrom(s)[b] = <<e>> \o LinesFrom(s)[n]
  BY <1>1, OneMoreLine
<1>4. LinesFrom(s)[n] = <<>>
  <2>1. LineFree(s, n, n)
    BY <1>1 DEF LineFree
  <2> QED  BY <1>1, <2>1, NoMoreLines
<1>5. u \in Seq(Seq(S))
  BY LinesOfType
<1>6. e \in Seq(S)
  <2>1. SubSeq(s, b + 1, n - 1) \in Seq(S)
    BY <1>1, SliceOf
  <2> QED  BY <2>1, SeenType
<1> HIDE DEF u, e, n
<1>7. <<e>> \o <<>> = <<e>>
  OBVIOUS
<1>8. Append(u, e) = u \o <<e>>
  BY <1>5, <1>6, AppendIsConcat
<1> QED  BY <1>2, <1>3, <1>4, <1>7, <1>8 DEF u, e, n

(* The line feed that ends the current line brings that line. *)
LEMMA MoreLines ==
  ASSUME NEW S, NEW s \in Seq(S), NEW b \in 0..Len(s), NEW q \in Nat,
         LineStart(s, b), FirstFeed(s, b, q)
  PROVE  LinesOf(SubSeq(s, 1, q))
           = Append(LinesOf(SubSeq(s, 1, b)), Seen(SubSeq(s, b + 1, q - 1)))
<1> DEFINE t == SubSeq(s, 1, q)
<1>1. /\ b < q /\ q <= Len(s) /\ s[q] = NL
      /\ \A j \in Nat : b < j /\ j < q => s[j] # NL
  BY DEF FirstFeed
<1>2. Len(s) \in Nat /\ q \in 0..Len(s) /\ b \in 0..q /\ 0 \in 0..q /\ b \in Nat
      /\ q - 1 \in b..q /\ q \in 1..q /\ 0 + 1 = 1
  BY <1>1
<1>3. /\ t \in Seq(S) /\ Len(t) = q /\ \A i \in 1..q : t[i] = s[i]
      /\ SubSeq(t, 0 + 1, b) = SubSeq(s, 0 + 1, b)
      /\ SubSeq(t, b + 1, q - 1) = SubSeq(s, b + 1, q - 1)
  BY <1>2, PrefixSlice
<1> HIDE DEF t
<1>4. LineStart(t, b)
  <2>1. b # 0 => b \in 1..q
    BY <1>2
  <2> QED  BY <1>3, <2>1 DEF LineStart
<1>5. FirstFeed(t, b, Len(t))
  <2>1. ASSUME NEW j \in Nat, b < j, j < q PROVE t[j] # NL
    <3>1. j \in 1..q
      BY <1>2, <2>1
    <3> QED  BY <1>1, <1>3, <2>1, <3>1
  <2>2. t[q] = NL
    BY <1>1, <1>2, <1>3
  <2>3. q <= q
    OBVIOUS
  <2> QED  BY <1>1, <1>3, <2>1, <2>2, <2>3 DEF FirstFeed
<1>6. b \in 0..Len(t)
  BY <1>2, <1>3
<1>7. LinesOf(t) = Append(LinesOf(SubSeq(t, 1, b)), Seen(SubSeq(t, b + 1, Len(t) - 1)))
  BY <1>3, <1>4, <1>5, <1>6, LastLine
<1> QED  BY <1>2, <1>3, <1>7 DEF t

(* At the end of the text: nothing is left, or a line without its feed. *)
LEMMA AllLinesSame ==
  ASSUME NEW S, NEW s \in Seq(S), LineStart(s, Len(s))
  PROVE  AllLinesOf(s) = LinesOf(s)
<1>1. Len(s) = 0 => s = <<>>
  OBVIOUS
<1> QED  BY <1>1 DEF AllLinesOf, LineStart

(* A last line without its line feed is a line too. *)
LEMMA AllLinesMore ==
  ASSUME NEW S, NL \in S, NEW s \in Seq(S), NEW b \in 0..Len(s), b < Len(s),
         LineStart(s, b), LineFree(s, b, Len(s))
  PROVE  AllLinesOf(s)
           = Append(LinesOf(SubSeq(s, 1, b)), Seen(SubSeq(s, b + 1, Len(s))))
<1> DEFINE t == Append(s, NL)
           n == Len(s)
<1>1. n \in Nat /\ b \in Nat /\ n > b /\ n \in 1..n
  OBVIOUS
<1>2. s[n] # NL /\ s # <<>>
  <2>1. s[n] # NL
    BY <1>1 DEF LineFree
  <2>2. Len(<<>>) = 0
    OBVIOUS
  <2>3. s # <<>>
    BY <1>1, <2>2
  <2> QED  BY <2>1, <2>3
<1>3. AllLinesOf(s) = LinesOf(t)
  BY <1>2 DEF AllLinesOf
<1>4. /\ t \in Seq(S) /\ Len(t) = n + 1 /\ t[n + 1] = NL
      /\ \A i \in 1..n : t[i] = s[i]
  BY AppendProperties
<1>5. SubSeq(t, 1, n) = s
  <2>1. /\ SubSeq(t, 1, n) \in Seq(S) /\ Len(SubSeq(t, 1, n)) = n
        /\ \A i \in 1..n : SubSeq(t, 1, n)[i] = t[i]
    <3> HIDE DEF t
    <3>1. n \in 0..Len(t) /\ 0 \in 0..n /\ n \in 0..n
      BY <1>1, <1>4
    <3> QED  BY <1>4, <3>1, PrefixSlice
  <2> HIDE DEF t
  <2>2. \A i \in 1..Len(s) : SubSeq(t, 1, n)[i] = s[i]
    BY <1>4, <2>1
  <2> QED  BY <2>1, <2>2, SeqEqual
<1> HIDE DEF t
<1>6. /\ SubSeq(SubSeq(t, 1, n), 0 + 1, b) = SubSeq(t, 0 + 1, b)
      /\ SubSeq(SubSeq(t, 1, n), b + 1, n) = SubSeq(t, b + 1, n)
  <2>1. n \in 0..Len(t) /\ 0 \in 0..n /\ b \in 0..n /\ n \in b..n
    BY <1>1, <1>4
  <2> QED  BY <1>4, <2>1, PrefixSlice
<1>7. LineStart(t, b)
  <2>1. b # 0 => b \in 1..n
    BY <1>1
  <2> QED  BY <1>4, <2>1 DEF LineStart
<1>8. FirstFeed(t, b, Len(t))
  <2>1. ASSUME NEW j \in Nat, b < j, j < n + 1 PROVE t[j] # NL
    <3>1. j \in 1..n /\ j <= n
      BY <1>1, <2>1
    <3> QED  BY <1>4, <2>1, <3>1 DEF LineFree
  <2>2. b < n + 1 /\ n + 1 <= n + 1
    BY <1>1
  <2> QED  BY <1>4, <2>1, <2>2 DEF FirstFeed
<1>9. LinesOf(t) = Append(LinesOf(SubSeq(t, 1, b)), Seen(SubSeq(t, b + 1, Len(t) - 1)))
  <2>1. b \in 0..Len(t)
    BY <1>1, <1>4
  <2> QED  BY <1>4, <1>7, <1>8, <2>1, LastLine
<1>10. Len(t) - 1 = n /\ 0 + 1 = 1
  BY <1>1, <1>4
<1> QED  BY <1>3, <1>5, <1>6, <1>9, <1>10

(* If every line is seen shorter than the limit, none exceeds it. *)
ShortLines(s) == \A i \in DOMAIN AllLinesOf(s) : Len(AllLinesOf(s)[i]) < MAX_LINE_LENGTH

(* The element between two parts. *)
LEMMA ElementOfConcat ==
  ASSUME NEW U, NEW u \in Seq(U), NEW e \in U, NEW v \in Seq(U)
  PROVE  /\ Len(u) + 1 \in DOMAIN (u \o (<<e>> \o v))
         /\ (u \o (<<e>> \o v))[Len(u) + 1] = e
<1>1. <<e>> \o v \in Seq(U) /\ Len(<<e>> \o v) = 1 + Len(v) /\ (<<e>> \o v)[1] = e
  OBVIOUS
<1> DEFINE w == <<e>> \o v
<1> HIDE DEF w
<1>2. w \in Seq(U) /\ Len(w) >= 1 /\ w[1] = e /\ Len(w) \in Nat /\ Len(u) \in Nat
  BY <1>1 DEF w
<1>3. Len(u) + 1 \in DOMAIN (u \o w) /\ (u \o w)[Len(u) + 1] = e
  BY ONLY <1>2, u \in Seq(U)
<1> QED  BY <1>3 DEF w

(* Where every line is seen short, no stretch of a line exceeds the limit. *)
LEMMA ShortLineIs ==
  ASSUME NEW S, NL \in S, NEW s \in Seq(S), ShortLines(s), NEW b \in 0..Len(s),
         NEW m \in b..Len(s), LineStart(s, b), LineFree(s, b, m)
  PROVE  m - b <= MAX_LINE_LENGTH
<1>1. /\ Len(s) \in Nat /\ b \in Nat /\ m \in Nat /\ b <= m /\ m <= Len(s)
      /\ MAX_LINE_LENGTH \in Nat
  BY TextAssumption
<1>2. CASE m = b
  BY <1>1, <1>2
<1>3. CASE m # b /\ LineFree(s, b, Len(s))
  <2> DEFINE u == LinesOf(SubSeq(s, 1, b))
             r == SubSeq(s, b + 1, Len(s))
  <2>1. AllLinesOf(s) = Append(u, Seen(r))
    BY <1>1, <1>3, AllLinesMore
  <2>2. u \in Seq(Seq(S)) /\ r \in Seq(S) /\ Len(r) = Len(s) - b
    <3>1. Len(s) \in b..Len(s)
      BY <1>1
    <3>2. r \in Seq(S) /\ Len(r) = Len(s) - b
      BY <3>1, SliceOf
    <3>3. u \in Seq(Seq(S))
      BY LinesOfType
    <3> QED  BY <3>2, <3>3
  <2>3. Seen(r) \in Seq(S) /\ (Len(Seen(r)) < MAX_LINE_LENGTH => Len(r) <= MAX_LINE_LENGTH)
    BY <2>2, SeenType
  <2> HIDE DEF u, r
  <2>4. Len(u) + 1 \in DOMAIN Append(u, Seen(r)) /\ Append(u, Seen(r))[Len(u) + 1] = Seen(r)
    BY <2>2, <2>3
  <2>5. Len(Seen(r)) < MAX_LINE_LENGTH
    BY <2>1, <2>4 DEF ShortLines
  <2> QED  BY <1>1, <2>2, <2>3, <2>5
<1>4. CASE m # b /\ ~LineFree(s, b, Len(s))
  <2>1. PICK q \in 1..Len(s) : FirstFeed(s, b, q)
    BY <1>4, NextOrFree
  <2>2. /\ q \in Nat /\ b < q /\ q <= Len(s) /\ s[q] = NL
    BY <2>1 DEF FirstFeed
  <2>3. m < q
    BY <1>1, <2>2 DEF LineFree
  <2> DEFINE t == IF s = <<>> \/ s[Len(s)] = NL THEN s ELSE Append(s, NL)
             n == Len(s)
  <2>4. /\ t \in Seq(S) /\ Len(t) \in Nat /\ Len(t) >= n
        /\ \A i \in 1..n : t[i] = s[i]
    <3>1. CASE s = <<>> \/ s[Len(s)] = NL
      BY <1>1, <3>1
    <3>2. CASE ~(s = <<>> \/ s[Len(s)] = NL)
      <4>1. t = Append(s, NL)
        BY <3>2
      <4> HIDE DEF t
      <4> QED  BY <1>1, <4>1, AppendProperties
    <3> QED  BY <3>1, <3>2
  <2>5. AllLinesOf(s) = LinesOf(t)
    BY DEF AllLinesOf
  <2> HIDE DEF t
  <2>6. LineStart(t, b)
    <3>1. b # 0 => b \in 1..n
      BY <1>1
    <3> QED  BY <2>4, <3>1 DEF LineStart
  <2>7. FirstFeed(t, b, q)
    <3>1. ASSUME NEW j \in Nat, b < j, j < q PROVE t[j] # NL
      <4>1. j \in 1..n
        BY <1>1, <2>2, <3>1
      <4> QED  BY <2>1, <2>4, <3>1, <4>1 DEF FirstFeed
    <3>2. q \in 1..n /\ q <= Len(t)
      BY <2>2, <2>4, <1>1
    <3> QED  BY <2>2, <2>4, <3>1, <3>2 DEF FirstFeed
  <2> DEFINE u == LinesOf(SubSeq(t, 1, b))
             r == SubSeq(t, b + 1, q - 1)
             v == LinesFrom(t)[q]
  <2>8. b \in 0..Len(t) /\ q - 1 \in b..Len(t) /\ q \in 0..Len(t)
    BY <1>1, <2>2, <2>4
  <2>9. LinesOf(t) = u \o (<<Seen(r)>> \o v)
    <3>1. LinesOf(t) = u \o LinesFrom(t)[b]
      BY <2>4, <2>6, <2>8, LinesSplit
    <3>2. LinesFrom(t)[b] = <<Seen(r)>> \o v
      BY <2>2, <2>4, <2>7, <2>8, OneMoreLine
    <3> QED  BY <3>1, <3>2
  <2>10. u \in Seq(Seq(S)) /\ v \in Seq(Seq(S)) /\ r \in Seq(S) /\ Len(r) = q - 1 - b
    BY <2>4, <2>8, LinesOfType, LinesType, SliceOf
  <2>11. Seen(r) \in Seq(S) /\ (Len(Seen(r)) < MAX_LINE_LENGTH => Len(r) <= MAX_LINE_LENGTH)
    BY <2>10, SeenType
  <2> HIDE DEF u, r, v
  <2>12. /\ Len(u) + 1 \in DOMAIN (u \o (<<Seen(r)>> \o v))
         /\ (u \o (<<Seen(r)>> \o v))[Len(u) + 1] = Seen(r)
    BY <2>10, <2>11, ElementOfConcat
  <2>13. Len(Seen(r)) < MAX_LINE_LENGTH
    BY <2>5, <2>9, <2>12 DEF ShortLines
  <2>14. Len(r) <= MAX_LINE_LENGTH
    BY <2>11, <2>13
  <2> QED  BY <1>1, <2>2, <2>3, <2>10, <2>14
<1> QED  BY <1>2, <1>3, <1>4

(* The pieces can be put together from the first one up. *)
LEMMA FlatExists ==
  ASSUME NEW s, NEW m \in Nat
  PROVE  \E g : g = [i \in 0..m |-> IF i = 0 THEN <<>> ELSE g[i - 1] \o s[i]]
<1> DEFINE T(g, i) == IF i = 0 THEN <<>> ELSE g[i - 1] \o s[i]
           S == {x \in 0..m : \E g : g = [i \in 0..x |-> T(g, i)]}
<1>1. 0 \in S
  <2> DEFINE g == [i \in 0..0 |-> <<>>]
  <2>1. g = [i \in 0..0 |-> T(g, i)]
    OBVIOUS
  <2>2. 0 \in 0..m
    OBVIOUS
  <2> HIDE DEF g
  <2> QED  BY <2>1, <2>2
<1>2. ASSUME NEW x \in 0..m, x # m, x \in S PROVE x + 1 \in S
  <2>1. PICK h : h = [i \in 0..x |-> T(h, i)]
    BY <1>2
  <2> DEFINE g == [i \in 0 .. x + 1 |-> IF i = x + 1 THEN h[x] \o s[x + 1] ELSE h[i]]
  <2>2. ASSUME NEW i \in 0 .. x + 1 PROVE g[i] = T(g, i)
    <3>1. CASE i = x + 1
      <4>1. i # 0 /\ i - 1 = x /\ x \in 0 .. x + 1 /\ x # x + 1
        BY <3>1
      <4>2. g[x] = h[x]
        BY <4>1
      <4> QED  BY <3>1, <4>1, <4>2
    <3>2. CASE i # x + 1 /\ i # 0
      <4>1. i \in 0..x /\ i - 1 \in 0 .. x + 1 /\ i - 1 # x + 1 /\ i - 1 \in 0..x
        BY <3>2
      <4>2. g[i] = h[i] /\ g[i - 1] = h[i - 1]
        BY <4>1
      <4>3. h[i] = T(h, i)
        BY <2>1, <4>1
      <4> QED  BY <3>2, <4>2, <4>3
    <3>3. CASE i # x + 1 /\ i = 0
      <4>1. g[0] = h[0] /\ h[0] = T(h, 0)
        BY <2>1, <3>3
      <4> QED  BY <3>3, <4>1
    <3> QED  BY <3>1, <3>2, <3>3
  <2>3. g = [i \in 0 .. x + 1 |-> T(g, i)]
    BY <2>2
  <2>4. x + 1 \in 0..m
    BY <1>2
  <2> HIDE DEF g
  <2> QED  BY <2>3, <2>4
<1>3. 0..m \subseteq S
  <2> HIDE DEF S
  <2> QED  BY <1>1, <1>2, Upwards
<1>4. m \in S
  <2>1. m \in 0..m
    OBVIOUS
  <2> HIDE DEF S
  <2> QED  BY <1>3, <2>1
<1> QED  BY <1>4

(* The concatenation of the first i texts. *)
LEMMA FlatUnfolds ==
  ASSUME NEW s, Len(s) \in Nat
  PROVE  /\ FlatTo(s)[0] = <<>>
         /\ \A i \in 1..Len(s) : FlatTo(s)[i] = FlatTo(s)[i - 1] \o s[i]
<1>1. FlatTo(s) = [i \in 0..Len(s) |-> IF i = 0 THEN <<>> ELSE FlatTo(s)[i - 1] \o s[i]]
  BY FlatExists DEF FlatTo
<1> DEFINE f == FlatTo(s)
<1> HIDE DEF f
<1>2. 0 \in 0..Len(s) /\ \A i \in 1..Len(s) : i \in 0..Len(s) /\ i # 0
  OBVIOUS
<1>3. f = [i \in 0..Len(s) |-> IF i = 0 THEN <<>> ELSE f[i - 1] \o s[i]]
  BY <1>1 DEF f
<1>4. f[0] = <<>>
  BY <1>2, <1>3
<1>5. \A i \in 1..Len(s) : f[i] = f[i - 1] \o s[i]
  BY <1>2, <1>3
<1> QED  BY <1>4, <1>5 DEF f

(* A piece more at the end. *)
LEMMA FlatAppend ==
  ASSUME NEW S, NEW s \in Seq(Seq(S)), NEW x \in Seq(S)
  PROVE  Flat(s) \in Seq(S) /\ Flat(Append(s, x)) = Flat(s) \o x
<1> DEFINE n == Len(s)
           t == Append(s, x)
           G == {k \in 0..n : FlatTo(t)[k] = FlatTo(s)[k] /\ FlatTo(s)[k] \in Seq(S)}
<1>1. n \in Nat /\ \A i \in 1..n : s[i] \in Seq(S)
  OBVIOUS
<1>2. Len(t) = n + 1 /\ t[n + 1] = x /\ \A i \in 1..n : t[i] = s[i]
  BY AppendProperties
<1> HIDE DEF t, n
<1>3. FlatTo(s)[0] = <<>> /\ \A i \in 1..n : FlatTo(s)[i] = FlatTo(s)[i - 1] \o s[i]
  BY <1>1, FlatUnfolds DEF n
<1>4. FlatTo(t)[0] = <<>> /\ \A i \in 1 .. n + 1 : FlatTo(t)[i] = FlatTo(t)[i - 1] \o t[i]
  <2>1. Len(t) \in Nat
    BY <1>1, <1>2
  <2>2. /\ FlatTo(t)[0] = <<>>
        /\ \A i \in 1..Len(t) : FlatTo(t)[i] = FlatTo(t)[i - 1] \o t[i]
    BY <2>1, FlatUnfolds
  <2> QED  BY <1>2, <2>2
<1>5. 0 \in G
  <2>1. <<>> \in Seq(S) /\ 0 \in 0..n
    BY <1>1
  <2> QED  BY <1>3, <1>4, <2>1
<1>6. ASSUME NEW k \in 0..n, k # n, k \in G PROVE k + 1 \in G
  <2>1. k + 1 \in 1..n /\ k + 1 \in 1 .. n + 1 /\ (k + 1) - 1 = k /\ k + 1 \in 0..n
    BY <1>1, <1>6
  <2>2. FlatTo(s)[k + 1] = FlatTo(s)[k] \o s[k + 1]
    BY <1>3, <2>1
  <2>3. FlatTo(t)[k + 1] = FlatTo(t)[k] \o t[k + 1]
    BY <1>4, <2>1
  <2>4. FlatTo(t)[k] = FlatTo(s)[k] /\ FlatTo(s)[k] \in Seq(S)
    BY <1>6
  <2>5. t[k + 1] = s[k + 1] /\ s[k + 1] \in Seq(S)
    BY <1>1, <1>2, <2>1
  <2>6. FlatTo(s)[k] \o s[k + 1] \in Seq(S)
    BY <2>4, <2>5, ConcatProperties
  <2> QED  BY <2>1, <2>2, <2>3, <2>4, <2>5, <2>6
<1>7. 0..n \subseteq G
  <2> HIDE DEF G
  <2> QED  BY <1>1, <1>5, <1>6, Upwards
<1>8. n \in 0..n /\ n + 1 \in 1 .. n + 1 /\ (n + 1) - 1 = n
  BY <1>1
<1>9. FlatTo(t)[n] = FlatTo(s)[n] /\ FlatTo(s)[n] \in Seq(S)
  BY <1>7, <1>8
<1>10. FlatTo(t)[n + 1] = FlatTo(t)[n] \o x
  BY <1>2, <1>4, <1>8
<1> QED  BY <1>2, <1>9, <1>10 DEF Flat, t, n

(* What is left of a byte. *)
LetterOf(c) == IF c \in {NL, CR} THEN <<>> ELSE <<c>>
EachLetter(s) == [i \in DOMAIN s |-> LetterOf(s[i])]

(* The letters of a text are what is left of its bytes, concatenated. *)
LEMMA EachLetterOf ==
  ASSUME NEW S, NEW s \in Seq(S)
  PROVE  /\ EachLetter(s) \in Seq(Seq(S)) /\ OnlyLetters(s) = Flat(EachLetter(s))
         /\ OnlyLetters(s) \in Seq(S)
<1>1. ASSUME NEW c \in S PROVE LetterOf(c) \in Seq(S)
  BY DEF LetterOf
<1>2. DOMAIN s = 1..Len(s) /\ Len(s) \in Nat /\ \A i \in 1..Len(s) : s[i] \in S
  OBVIOUS
<1>3. EachLetter(s) \in [1..Len(s) -> Seq(S)]
  BY <1>1, <1>2 DEF EachLetter
<1>4. EachLetter(s) \in Seq(Seq(S))
  BY <1>2, <1>3
<1>5. OnlyLetters(s) = Flat(EachLetter(s))
  BY DEF OnlyLetters, EachLetter, LetterOf
<1>6. <<>> \in Seq(S)
  OBVIOUS
<1>7. Flat(EachLetter(s)) \in Seq(S)
  BY <1>4, <1>6, FlatAppend
<1> QED  BY <1>4, <1>5, <1>7

(* One more byte, and what is left of it. *)
LEMMA LettersAppend ==
  ASSUME NEW S, NEW s \in Seq(S), NEW c \in S
  PROVE  OnlyLetters(Append(s, c)) = OnlyLetters(s) \o LetterOf(c)
<1> DEFINE n == Len(s)
           t == Append(s, c)
<1>1. n \in Nat /\ t \in Seq(S) /\ Len(t) = n + 1 /\ t[n + 1] = c
      /\ \A i \in 1..n : t[i] = s[i]
  BY AppendProperties
<1>2. LetterOf(c) \in Seq(S)
  BY DEF LetterOf
<1>3. EachLetter(s) \in Seq(Seq(S)) /\ Len(EachLetter(s)) = n /\ \A i \in 1..n : EachLetter(s)[i] = LetterOf(s[i])
  <2>1. EachLetter(s) \in Seq(Seq(S))
    BY EachLetterOf
  <2>2. DOMAIN s = 1..n /\ DOMAIN EachLetter(s) = 1..n
    BY DEF EachLetter
  <2>3. Len(EachLetter(s)) = n
    BY <1>1, <2>1, <2>2
  <2> QED  BY <2>1, <2>2, <2>3 DEF EachLetter
<1> HIDE DEF n, t
<1>4. /\ EachLetter(t) \in Seq(Seq(S)) /\ Len(EachLetter(t)) = n + 1
      /\ \A i \in 1 .. n + 1 : EachLetter(t)[i] = LetterOf(t[i])
  <2>1. EachLetter(t) \in Seq(Seq(S))
    BY <1>1, EachLetterOf
  <2>2. DOMAIN t = 1 .. n + 1 /\ DOMAIN EachLetter(t) = 1 .. n + 1
    BY <1>1 DEF EachLetter
  <2>3. Len(EachLetter(t)) = n + 1
    BY <1>1, <2>1, <2>2
  <2> QED  BY <2>1, <2>2, <2>3 DEF EachLetter
<1> DEFINE u == EachLetter(s)
           v == EachLetter(t)
           w == Append(u, LetterOf(c))
<1>5. /\ w \in Seq(Seq(S)) /\ Len(w) = n + 1 /\ w[n + 1] = LetterOf(c)
      /\ \A i \in 1..n : w[i] = u[i]
  <2> HIDE DEF u
  <2>1. u \in Seq(Seq(S)) /\ Len(u) = n
    BY <1>3 DEF u
  <2> QED  BY <1>2, <2>1, AppendProperties
<1>6. v = w
  <2>1. ASSUME NEW i \in 1 .. n + 1 PROVE v[i] = w[i]
    <3>1. CASE i = n + 1
      <4>1. v[n + 1] = LetterOf(t[n + 1])
        BY <1>1, <1>4
      <4> HIDE DEF v, w
      <4> QED  BY <1>1, <1>5, <3>1, <4>1
    <3>2. CASE i # n + 1
      <4>1. i \in 1..n /\ i \in 1 .. n + 1
        BY <1>1, <3>2
      <4>2. v[i] = LetterOf(t[i]) /\ u[i] = LetterOf(s[i]) /\ t[i] = s[i]
        BY <1>1, <1>3, <1>4, <4>1
      <4> HIDE DEF v, w, u
      <4> QED  BY <1>5, <4>1, <4>2
    <3> QED  BY <3>1, <3>2
  <2>2. v \in Seq(Seq(S)) /\ Len(v) = n + 1
    BY <1>4
  <2> HIDE DEF u, v, w
  <2>3. Len(v) = Len(w) /\ \A i \in 1..Len(v) : v[i] = w[i]
    BY <1>5, <2>1, <2>2
  <2> QED  BY <1>5, <2>2, <2>3, SeqEqual
<1>7. OnlyLetters(t) = Flat(v) /\ OnlyLetters(s) = Flat(u)
  BY <1>1, EachLetterOf
<1>8. Flat(w) = Flat(u) \o LetterOf(c)
  BY <1>2, <1>3, FlatAppend
<1> HIDE DEF u, v, w
<1> QED  BY <1>6, <1>7, <1>8 DEF t

(* The letters of two pieces. *)
LEMMA LettersConcat ==
  ASSUME NEW S, NEW s \in Seq(S), NEW t \in Seq(S)
  PROVE  OnlyLetters(s \o t) = OnlyLetters(s) \o OnlyLetters(t)
<1> DEFINE n == Len(t)
           P(k) == SubSeq(t, 1, k)
           G == {k \in 0..n : OnlyLetters(s \o P(k)) = OnlyLetters(s) \o OnlyLetters(P(k))}
<1>1. n \in Nat
  OBVIOUS
<1>2. ASSUME NEW k \in 0..n PROVE P(k) \in Seq(S)
  <2>1. k \in 0..Len(t) /\ 0 \in 0..k /\ k \in 0..k
    OBVIOUS
  <2> QED  BY <2>1, PrefixSlice
<1>3. OnlyLetters(s) \in Seq(S)
  BY EachLetterOf
<1>4. 0 \in G
  <2>1. P(0) = <<>>
    OBVIOUS
  <2>2. s \o <<>> = s /\ OnlyLetters(s) \o <<>> = OnlyLetters(s)
    BY <1>3, ConcatEmptySeq
  <2>3. OnlyLetters(<<>>) = <<>>
    <3>1. EachLetter(<<>>) = <<>>
      BY DEF EachLetter
    <3>2. <<>> \in Seq(S) /\ Len(<<>>) = 0
      OBVIOUS
    <3>3. OnlyLetters(<<>>) = Flat(<<>>)
      BY <3>1, <3>2, EachLetterOf
    <3>4. FlatTo(<<>>)[0] = <<>>
      BY <3>2, FlatUnfolds
    <3> QED  BY <3>2, <3>3, <3>4 DEF Flat
  <2>4. 0 \in 0..n
    BY <1>1
  <2> QED  BY <2>1, <2>2, <2>3, <2>4
<1>5. ASSUME NEW k \in 0..n, k # n, k \in G PROVE k + 1 \in G
  <2>1. k + 1 \in 1..n /\ k + 1 \in 0..n /\ k \in Nat
    BY <1>1, <1>5
  <2> DEFINE c == t[k + 1]
  <2>2. c \in S
    BY <2>1
  <2>3. P(k + 1) = Append(P(k), c)
    BY <2>1
  <2>4. s \o Append(P(k), c) = Append(s \o P(k), c)
    <3> DEFINE p == P(k)
    <3>1. p \in Seq(S)
      BY <1>2
    <3> HIDE DEF p, c
    <3>2. s \o Append(p, c) = Append(s \o p, c)
      BY <2>2, <3>1
    <3> QED  BY <3>2 DEF p
  <2>5. OnlyLetters(Append(P(k), c)) = OnlyLetters(P(k)) \o LetterOf(c)
    BY <1>2, <2>2, LettersAppend
  <2>6. OnlyLetters(Append(s \o P(k), c)) = OnlyLetters(s \o P(k)) \o LetterOf(c)
    <3>1. s \o P(k) \in Seq(S)
      BY <1>2, ConcatProperties
    <3> QED  BY <2>2, <3>1, LettersAppend
  <2>7. OnlyLetters(s \o P(k)) = OnlyLetters(s) \o OnlyLetters(P(k))
    BY <1>5
  <2>8. (OnlyLetters(s) \o OnlyLetters(P(k))) \o LetterOf(c)
          = OnlyLetters(s) \o (OnlyLetters(P(k)) \o LetterOf(c))
    <3>1. LetterOf(c) \in Seq(S)
      BY <2>2 DEF LetterOf
    <3>2. OnlyLetters(P(k)) \in Seq(S)
      BY <1>2, EachLetterOf
    <3> DEFINE u == OnlyLetters(s)
               v == OnlyLetters(P(k))
               w == LetterOf(c)
    <3>3. u \in Seq(S) /\ v \in Seq(S) /\ w \in Seq(S)
      BY <1>3, <3>1, <3>2
    <3> HIDE DEF u, v, w
    <3>4. (u \o v) \o w = u \o (v \o w)
      BY ONLY <3>3, ConcatAssociative
    <3> QED  BY <3>4 DEF u, v, w
  <2> HIDE DEF P, c
  <2> QED  BY <2>1, <2>3, <2>4, <2>5, <2>6, <2>7, <2>8
<1>6. 0..n \subseteq G
  <2> HIDE DEF G, n
  <2> QED  BY <1>1, <1>4, <1>5, Upwards
<1>7. n \in G
  <2> HIDE DEF G
  <2> QED  BY <1>1, <1>6
<1>8. P(n) = t
  BY SubSeqFull
<1> QED  BY <1>7, <1>8

(* A line feed or a carriage return brings no letter. *)
LEMMA LettersOfOne ==
  ASSUME NEW S, NEW c \in S, c \in {NL, CR}, NEW s \in Seq(S)
  PROVE  OnlyLetters(Append(s, c)) = OnlyLetters(s)
<1>1. OnlyLetters(s) \in Seq(S) /\ LetterOf(c) = <<>>
  BY EachLetterOf DEF LetterOf
<1> QED  BY <1>1, LettersAppend, ConcatEmptySeq

(* Stripping a carriage return loses no letter. *)
LEMMA LettersStripped ==
  ASSUME NEW S, CR \in S, NEW l \in Seq(S)
  PROVE  OnlyLetters(StripTrailingCr(l)) = OnlyLetters(l)
<1>1. CASE ~(l # <<>> /\ l[Len(l)] = CR)
  BY <1>1 DEF StripTrailingCr
<1>2. CASE l # <<>> /\ l[Len(l)] = CR
  <2> DEFINE h == SubSeq(l, 1, Len(l) - 1)
  <2>1. h \in Seq(S) /\ l = Append(h, CR)
    BY <1>2
  <2>2. StripTrailingCr(l) = h
    BY <1>2 DEF StripTrailingCr
  <2> HIDE DEF h
  <2>3. OnlyLetters(Append(h, CR)) = OnlyLetters(h)
    BY <2>1, LettersOfOne
  <2> QED  BY <2>1, <2>2, <2>3
<1> QED  BY <1>1, <1>2

(* A piece of the text, what is in front of a place in it, and behind it. *)
LEMMA Piece ==
  ASSUME NEW S, NEW s \in Seq(S), NEW a \in 0..Len(s), NEW d \in 0..a
  PROVE  /\ SubSeq(s, d + 1, a) \in Seq(S) /\ Len(SubSeq(s, d + 1, a)) = a - d
         /\ \A i \in 1 .. a - d : SubSeq(s, d + 1, a)[i] = s[d + i]
         /\ \A k \in 0 .. a - d :
              /\ SubSeq(SubSeq(s, d + 1, a), 1, k) = SubSeq(s, d + 1, d + k)
              /\ SubSeq(SubSeq(s, d + 1, a), k + 1, a - d) = SubSeq(s, (d + k) + 1, a)
<1>1. /\ Len(s) \in Nat /\ a \in Nat /\ d \in Nat /\ d <= a /\ a <= Len(s)
      /\ d \in 0..Len(s) /\ a \in d..Len(s)
  OBVIOUS
<1>2. /\ SubSeq(s, d + 1, a) \in Seq(S) /\ Len(SubSeq(s, d + 1, a)) = a - d
      /\ \A i \in 1 .. a - d : SubSeq(s, d + 1, a)[i] = s[d + i]
  BY <1>1, SliceOf
<1>3. ASSUME NEW k \in 0 .. a - d
      PROVE  /\ SubSeq(SubSeq(s, d + 1, a), 1, k) = SubSeq(s, d + 1, d + k)
             /\ SubSeq(SubSeq(s, d + 1, a), k + 1, a - d) = SubSeq(s, (d + k) + 1, a)
  <2>1. /\ 0 \in 0 .. a - d /\ k \in 0 .. a - d /\ a - d \in k .. a - d
        /\ 0 + 1 = 1 /\ d + 0 + 1 = d + 1 /\ d + (a - d) = a /\ d + k + 1 = (d + k) + 1
    BY <1>1
  <2>2. SubSeq(SubSeq(s, d + 1, a), 0 + 1, k) = SubSeq(s, d + 0 + 1, d + k)
    BY <1>1, <2>1, SliceOfSlice
  <2>3. SubSeq(SubSeq(s, d + 1, a), k + 1, a - d) = SubSeq(s, d + k + 1, d + (a - d))
    BY <1>1, <2>1, SliceOfSlice
  <2> QED  BY <2>1, <2>2, <2>3
<1> QED  BY <1>2, <1>3

(* A piece without a line feed goes on with the line. *)
LEMMA FreePiece ==
  ASSUME NEW S, NEW s \in Seq(S), NEW a \in 0..Len(s), NEW d \in 0..a, NEW b \in 0..d,
         LineFree(s, b, d), ~NewlineIn(SubSeq(s, d + 1, a))
  PROVE  LineFree(s, b, a)
<1> DEFINE h == SubSeq(s, d + 1, a)
<1>1. a \in Nat /\ d \in Nat /\ b \in Nat /\ d <= a /\ b <= d
  OBVIOUS
<1>2. Len(h) = a - d /\ \A i \in 1 .. a - d : h[i] = s[d + i]
  BY Piece
<1>3. \A i \in 1..Len(h) : h[i] # NL
  BY DEF NewlineIn
<1> HIDE DEF h
<1>4. ASSUME NEW j \in Nat, b < j, j <= a PROVE s[j] # NL
  <2>1. CASE j <= d
    BY <1>4, <2>1 DEF LineFree
  <2>2. CASE ~(j <= d)
    <3>1. j - d \in 1 .. a - d /\ d + (j - d) = j
      BY <1>1, <1>4, <2>2
    <3> QED  BY <1>2, <1>3, <3>1
  <2> QED  BY <2>1, <2>2
<1> QED  BY <1>4 DEF LineFree

(* The first line feed of a piece ends the line. *)
LEMMA FeedInPiece ==
  ASSUME NEW S, NEW s \in Seq(S), NEW a \in 0..Len(s), NEW d \in 0..a, NEW b \in 0..d,
         LineFree(s, b, d), NewlineIn(SubSeq(s, d + 1, a))
  PROVE  /\ Before(SubSeq(s, d + 1, a)) \in 0 .. a - d - 1
         /\ FirstFeed(s, b, d + Before(SubSeq(s, d + 1, a)) + 1)
         /\ LineFree(s, b, d + Before(SubSeq(s, d + 1, a)))
<1> DEFINE h == SubSeq(s, d + 1, a)
           k == Before(h)
<1>1. a \in Nat /\ d \in Nat /\ b \in Nat /\ d <= a /\ b <= d /\ Len(s) \in Nat /\ a <= Len(s)
  OBVIOUS
<1>2. h \in Seq(S) /\ Len(h) = a - d /\ \A i \in 1 .. a - d : h[i] = s[d + i]
  BY Piece
<1>3. k \in 0 .. Len(h) - 1 /\ h[k + 1] = NL /\ \A i \in 1..k : h[i] # NL
  <2>1. NewlineIn(h)
    OBVIOUS
  <2> HIDE DEF h
  <2> QED  BY <1>2, <2>1, BeforeExists
<1> HIDE DEF h, k
<1>4. k \in 0 .. a - d - 1 /\ k \in Nat /\ k + 1 \in 1 .. a - d /\ d + (k + 1) = d + k + 1
  BY <1>1, <1>2, <1>3
<1>5. s[d + k + 1] = NL
  BY <1>2, <1>3, <1>4
<1>6. ASSUME NEW j \in Nat, b < j, j <= d + k PROVE s[j] # NL
  <2>1. CASE j <= d
    BY <1>6, <2>1 DEF LineFree
  <2>2. CASE ~(j <= d)
    <3>1. j - d \in 1 .. a - d /\ j - d \in 1..k /\ d + (j - d) = j
      BY <1>1, <1>4, <1>6, <2>2
    <3> QED  BY <1>2, <1>3, <3>1
  <2> QED  BY <2>1, <2>2
<1>7. LineFree(s, b, d + k)
  BY <1>6 DEF LineFree
<1>8. FirstFeed(s, b, d + k + 1)
  <2>1. b < d + k + 1 /\ d + k + 1 <= Len(s)
    BY <1>1, <1>4
  <2>2. ASSUME NEW j \in Nat, b < j, j < d + k + 1 PROVE s[j] # NL
    <3>1. j <= d + k
      BY <1>1, <1>4, <2>2
    <3> QED  BY <1>6, <2>2, <3>1
  <2> QED  BY <1>5, <2>1, <2>2 DEF FirstFeed
<1>9. k \in 0 .. a - d - 1
  BY <1>4
<1> QED  BY <1>7, <1>8, <1>9 DEF h, k

(* The bytes from b to d, and on. *)
LEMMA Adjacent ==
  ASSUME NEW S, NEW s \in Seq(S), NEW e \in 0..Len(s), NEW d \in 0..e, NEW b \in 0..d
  PROVE  /\ SubSeq(s, b + 1, d) \o SubSeq(s, d + 1, e) = SubSeq(s, b + 1, e)
         /\ SubSeq(s, 1, d) \o SubSeq(s, d + 1, e) = SubSeq(s, 1, e)
<1>1. /\ b + 1 \in 1 .. Len(s) + 1 /\ d \in (b + 1) - 1 .. Len(s) /\ e \in d..Len(s)
      /\ 1 \in 1 .. Len(s) + 1 /\ d \in 1 - 1 .. Len(s)
  OBVIOUS
<1> QED  BY <1>1, ConcatAdjacentSubSeq

(* The letters of a longer prefix. *)
LEMMA LettersOn ==
  ASSUME NEW S, NEW s \in Seq(S), NEW e \in 0..Len(s), NEW d \in 0..e
  PROVE  OnlyLetters(SubSeq(s, 1, e))
           = OnlyLetters(SubSeq(s, 1, d)) \o OnlyLetters(SubSeq(s, d + 1, e))
<1>1. 0 \in 0..d /\ d \in 0..d /\ d \in 0..Len(s)
  OBVIOUS
<1>2. SubSeq(s, 1, d) \in Seq(S)
  BY <1>1, PrefixSlice
<1>3. SubSeq(s, d + 1, e) \in Seq(S)
  BY Piece
<1>4. SubSeq(s, 1, d) \o SubSeq(s, d + 1, e) = SubSeq(s, 1, e)
  BY <1>1, Adjacent
<1> QED  BY <1>2, <1>3, <1>4, LettersConcat

(* Passing a line feed passes no letter. *)
LEMMA LettersOverFeed ==
  ASSUME NEW S, NL \in S, NEW s \in Seq(S), NEW d \in 0 .. Len(s) - 1, s[d + 1] = NL
  PROVE  OnlyLetters(SubSeq(s, 1, d + 1)) = OnlyLetters(SubSeq(s, 1, d))
<1>1. Len(s) \in Nat /\ d \in Nat /\ d \in 0..Len(s) /\ 0 \in 0..d /\ d \in 0..d
  OBVIOUS
<1>2. SubSeq(s, 1, d) \in Seq(S)
  BY <1>1, PrefixSlice
<1>3. SubSeq(s, 1, d + 1) = Append(SubSeq(s, 1, d), s[d + 1])
  OBVIOUS
<1> QED  BY <1>2, <1>3, LettersOfOne

(* A line is delivered when h has been added to what there was of it. *)
LEMMA LettersDelivered ==
  ASSUME NEW S, CR \in S, NEW fs \in Seq(Seq(S)), NEW l \in Seq(S), NEW h \in Seq(S)
  PROVE  OnlyLetters(Flat(Append(fs, StripTrailingCr(l \o h))) \o <<>>)
           = OnlyLetters(Flat(fs) \o l) \o OnlyLetters(h)
<1> DEFINE f == StripTrailingCr(l \o h)
           u == Flat(fs)
<1>1. l \o h \in Seq(S)
  BY ConcatProperties
<1>2. f \in Seq(S) /\ OnlyLetters(f) = OnlyLetters(l \o h)
  BY <1>1, StripType, LettersStripped
<1> HIDE DEF f
<1>3. u \in Seq(S) /\ Flat(Append(fs, f)) = u \o f
  BY <1>2, FlatAppend
<1> HIDE DEF u
<1>4. u \o f \in Seq(S) /\ (u \o f) \o <<>> = u \o f
  BY <1>2, <1>3, ConcatProperties, ConcatEmptySeq
<1>5. OnlyLetters(u \o f) = OnlyLetters(u) \o OnlyLetters(l \o h)
  BY <1>2, <1>3, LettersConcat
<1>6. OnlyLetters(u) \o OnlyLetters(l \o h) = OnlyLetters(u \o (l \o h))
  BY <1>1, <1>3, LettersConcat
<1>7. u \o (l \o h) = (u \o l) \o h
  BY <1>3, ConcatAssociative
<1>8. OnlyLetters((u \o l) \o h) = OnlyLetters(u \o l) \o OnlyLetters(h)
  <2>1. u \o l \in Seq(S)
    BY <1>3, ConcatProperties
  <2> QED  BY <2>1, LettersConcat
<1> QED  BY <1>3, <1>4, <1>5, <1>6, <1>7, <1>8 DEF f, u

(* ... or goes on. *)
LEMMA LettersGoOn ==
  ASSUME NEW S, NEW fs \in Seq(Seq(S)), NEW l \in Seq(S), NEW h \in Seq(S)
  PROVE  OnlyLetters(Flat(fs) \o (l \o h)) = OnlyLetters(Flat(fs) \o l) \o OnlyLetters(h)
<1> DEFINE u == Flat(fs)
<1>1. u \in Seq(S)
  BY FlatAppend
<1> HIDE DEF u
<1>2. u \o (l \o h) = (u \o l) \o h /\ u \o l \in Seq(S)
  BY <1>1, ConcatAssociative, ConcatProperties
<1>3. OnlyLetters((u \o l) \o h) = OnlyLetters(u \o l) \o OnlyLetters(h)
  BY <1>2, LettersConcat
<1> QED  BY <1>2, <1>3 DEF u

-----------------------------------------------------------------------------
(* Bytes that have been made part of a line. *)
Taken == at - Len(hold)

(* The types of what the reader has. *)
LineType ==
  /\ text \in Seq(Char) /\ at \in 0..Len(text)
  /\ hold \in Seq(Char) /\ Len(hold) <= at
  /\ line \in Seq(Char) /\ Len(line) <= MAX_LINE_LENGTH
  /\ truncated \in [present : BOOLEAN, head : Seq(Char)]
  /\ truncated.present => line = <<>>
  /\ frames \in Seq(Seq(Char)) /\ paused \in BOOLEAN
  /\ reading = "none" =>
       /\ at = 0 /\ hold = <<>> /\ line = <<>> /\ ~truncated.present
       /\ frames = <<>> /\ ~paused

(* The line that is being read begins behind b. *)
Current(b) == b \in 0..Taken /\ LineStart(text, b) /\ LineFree(text, b, Taken)

(* It is put together, ... *)
Plain(b) ==
  /\ ~truncated.present
  /\ frames = LinesOf(SubSeq(text, 1, b)) /\ line = SubSeq(text, b + 1, Taken)

(* ... or over the limit, ... *)
Cut(b) ==
  /\ truncated.present
  /\ frames = LinesOf(SubSeq(text, 1, b))
  /\ truncated.head = SubSeq(text, b + 1, b + MAX_LINE_LENGTH)
  /\ b + MAX_LINE_LENGTH <= Taken /\ b + MAX_LINE_LENGTH < at
  /\ LineFree(text, b, b + MAX_LINE_LENGTH + 1)

(* ... or has been delivered at the end of the text, without its feed. *)
Flushed(b) ==
  /\ ~truncated.present /\ line = <<>>
  /\ Taken = Len(text) /\ b < Taken /\ frames = AllLinesOf(text)

(* No letter is lost where no line is cut. *)
LettersKept(b) ==
  ShortLines(text) =>
    /\ ~truncated.present /\ Len(line) <= Taken - b
    /\ OnlyLetters(Flat(frames) \o line) = OnlyLetters(SubSeq(text, 1, Taken))

(* What the reader has made of the bytes taken. *)
LineInv ==
  /\ LineType
  /\ reading \in {"linux", "macos"} =>
       /\ hold = SubSeq(text, Taken + 1, at)
       /\ \E b \in 0..Taken :
            /\ Current(b) /\ LettersKept(b)
            /\ ~paused => Plain(b) \/ Cut(b) \/ Flushed(b)

(* Line feed and carriage return are among the bytes. *)
LEMMA CharFacts == NL \in Char /\ CR \in Char
BY DEF Char

(* The limit on a line is at least one byte. *)
LEMMA Limits == MAX_LINE_LENGTH \in Nat /\ MAX_LINE_LENGTH >= 1
BY TextAssumption

(* Where the reader is in the text. *)
LEMMA Place ==
  ASSUME LineInv, reading \in {"linux", "macos"}
  PROVE  /\ text \in Seq(Char) /\ Len(text) \in Nat /\ at \in 0..Len(text) /\ at \in Nat
         /\ Taken \in 0..at /\ Taken \in Nat /\ Len(hold) = at - Taken
         /\ hold = SubSeq(text, Taken + 1, at)
         /\ line \in Seq(Char) /\ Len(line) \in Nat /\ Len(line) <= MAX_LINE_LENGTH
         /\ frames \in Seq(Seq(Char)) /\ Taken \in 0..Len(text)
<1>1. LineType /\ hold = SubSeq(text, Taken + 1, at)
  BY DEF LineInv
<1>2. Len(text) \in Nat /\ Len(hold) \in Nat /\ Len(line) \in Nat
  BY <1>1 DEF LineType
<1>3. at \in 0..Len(text) /\ Len(hold) <= at
  BY <1>1 DEF LineType
<1>4. Taken \in 0..at /\ Taken \in Nat /\ Len(hold) = at - Taken /\ Taken \in 0..Len(text)
  BY <1>2, <1>3 DEF Taken
<1> QED  BY <1>1, <1>2, <1>3, <1>4 DEF LineType

(* Taken, from what is held. *)
LEMMA TakenIs ==
  ASSUME NEW S, NEW s \in Seq(S), NEW a \in 0..Len(s), NEW e \in 0..a
  PROVE  a - Len(SubSeq(s, e + 1, a)) = e
<1>1. Len(SubSeq(s, e + 1, a)) = a - e
  BY Piece
<1> QED  BY <1>1

(* A piece of a text is a text. *)
LEMMA PieceType ==
  ASSUME NEW S, NEW s \in Seq(S), NEW a \in 0..Len(s), NEW d \in 0..a
  PROVE  SubSeq(s, d + 1, a) \in Seq(S) /\ Len(SubSeq(s, d + 1, a)) = a - d
BY Piece

(* What a step leaves in hand is again a piece of the text. *)
LEMMA NewPlace ==
  ASSUME LineInv, reading \in {"linux", "macos"}, reading' = reading, text' = text,
         at' \in 0..Len(text), NEW e \in 0..at', hold' = SubSeq(text, e + 1, at'),
         line' \in Seq(Char), Len(line') <= MAX_LINE_LENGTH,
         truncated' \in [present : BOOLEAN, head : Seq(Char)],
         truncated'.present => line' = <<>>,
         frames' \in Seq(Seq(Char)), paused' \in BOOLEAN
  PROVE  LineType' /\ Taken' = e /\ hold' = SubSeq(text', Taken' + 1, at')
<1>1. text \in Seq(Char) /\ Len(text) \in Nat
  BY Place
<1>2. Taken' = e
  BY <1>1, TakenIs DEF Taken
<1>3. hold' \in Seq(Char) /\ Len(hold') = at' - e
  BY <1>1, PieceType
<1>4. Len(hold') <= at'
  <2>1. at' \in Nat /\ e \in Nat
    BY <1>1
  <2>2. Len(hold') = at' - e
    BY <1>3
  <2>3. \A x, y \in Nat : x - y <= x
    OBVIOUS
  <2>4. at' - e <= at'
    BY <2>1, <2>3, Zenon
  <2> QED  BY <2>2, <2>4, Zenon
<1> QED  BY <1>1, <1>2, <1>3, <1>4 DEF LineType

(* TakeLine, to the line feed. *)
LEMMA TakeToFeed ==
  ASSUME LineInv, TakeLine, NewlineIn(hold) PROVE LineInv'
<1> DEFINE D == Taken
           pos == Before(hold)
           room == MAX_LINE_LENGTH - Len(line)
           f == IF pos > room THEN line \o SubSeq(hold, 1, room)
                ELSE StripTrailingCr(line \o SubSeq(hold, 1, pos))
           q == D + pos + 1
<1>1. /\ reading \in {"linux", "macos"} /\ hold # <<>> /\ ~truncated.present
      /\ frames' = Append(frames, f) /\ line' = <<>> /\ truncated' = truncated
      /\ hold' = SubSeq(hold, (pos + 1) + 1, Len(hold))
      /\ reading' = reading /\ text' = text /\ at' = at /\ paused' = paused
  BY DEF TakeLine, Consumer, DeliverLine, Consume
<1>2. /\ text \in Seq(Char) /\ Len(text) \in Nat /\ at \in 0..Len(text) /\ at \in Nat
      /\ D \in 0..at /\ D \in Nat /\ Len(hold) = at - D
      /\ hold = SubSeq(text, D + 1, at)
      /\ line \in Seq(Char) /\ Len(line) \in Nat /\ Len(line) <= MAX_LINE_LENGTH
      /\ frames \in Seq(Seq(Char)) /\ MAX_LINE_LENGTH \in Nat /\ D \in 0..Len(text)
  BY <1>1, Place, Limits
<1>3. PICK b \in 0..D :
        /\ Current(b) /\ LettersKept(b)
        /\ ~paused => Plain(b) \/ Cut(b) \/ Flushed(b)
  BY <1>1 DEF LineInv
<1>4. LineStart(text, b) /\ LineFree(text, b, D) /\ b \in Nat /\ b <= D /\ b \in 0..Len(text)
  BY <1>2, <1>3 DEF Current
<1> HIDE DEF D
<1>5. pos \in 0 .. at - D - 1 /\ FirstFeed(text, b, q) /\ LineFree(text, b, D + pos)
  BY <1>2, <1>4, FeedInPiece
<1> HIDE DEF pos
<1>6. /\ pos \in Nat /\ q \in Nat /\ q \in 0..at /\ q \in 0..Len(text) /\ q - 1 = D + pos
      /\ pos \in 0 .. at - D /\ pos + 1 \in 0 .. at - D /\ room \in Nat
      /\ D + pos \in 0..Len(text) /\ D + pos \in b..Len(text) /\ D \in 0 .. D + pos
      /\ D + (pos + 1) = q /\ text[q] = NL /\ D + pos \in 0 .. Len(text) - 1
  <2>1. text[q] = NL
    BY <1>5 DEF FirstFeed
  <2> QED  BY <1>2, <1>4, <1>5, <2>1
<1>7. /\ SubSeq(hold, 1, pos) = SubSeq(text, D + 1, D + pos)
      /\ SubSeq(hold, 1, pos) \in Seq(Char)
      /\ hold' = SubSeq(text, q + 1, at)
  <2>1. /\ SubSeq(SubSeq(text, D + 1, at), 1, pos) = SubSeq(text, D + 1, D + pos)
        /\ SubSeq(SubSeq(text, D + 1, at), (pos + 1) + 1, at - D)
             = SubSeq(text, (D + (pos + 1)) + 1, at)
    BY <1>2, <1>6, Piece
  <2>2. SubSeq(text, D + 1, D + pos) \in Seq(Char)
    BY <1>2, <1>6, Piece
  <2> QED  BY <1>1, <1>2, <1>6, <2>1, <2>2
<1>8. line \o SubSeq(hold, 1, pos) \in Seq(Char)
  BY <1>2, <1>7, ConcatProperties
<1>9. f \in Seq(Char)
  <2>1. CASE pos > room
    <3>1. room \in 0 .. at - D /\ D + room \in 0..Len(text) /\ D \in 0 .. D + room
      BY <1>2, <1>6, <2>1
    <3>2. SubSeq(hold, 1, room) = SubSeq(text, D + 1, D + room)
      BY <1>2, <3>1, Piece
    <3>3. SubSeq(text, D + 1, D + room) \in Seq(Char)
      BY <1>2, <3>1, Piece
    <3>4. line \o SubSeq(hold, 1, room) \in Seq(Char)
      BY <1>2, <3>2, <3>3, ConcatProperties
    <3> QED  BY <2>1, <3>4
  <2>2. CASE ~(pos > room)
    BY <1>8, <2>2, StripType
  <2> QED  BY <2>1, <2>2
<1>10. LineType' /\ Taken' = q /\ hold' = SubSeq(text', Taken' + 1, at')
  <2>1. frames' \in Seq(Seq(Char))
    <3> HIDE DEF f
    <3> QED  BY <1>1, <1>2, <1>9, AppendProperties
  <2>2. line' \in Seq(Char) /\ Len(line') <= MAX_LINE_LENGTH
    BY <1>1, <1>2
  <2>3. truncated' \in [present : BOOLEAN, head : Seq(Char)] /\ paused' \in BOOLEAN
    BY <1>1 DEF LineInv, LineType
  <2> HIDE DEF q
  <2> QED  BY <1>1, <1>2, <1>6, <1>7, <2>1, <2>2, <2>3, NewPlace
<1> PICK e \in Nat : e = q
  BY <1>6
<1>11. Current(e)'
  <2>1. LineStart(text, q) /\ q \in 0..q
    BY <1>6 DEF LineStart
  <2>2. LineFree(text, q, q)
    BY <1>6 DEF LineFree
  <2> HIDE DEF q
  <2> QED  BY <1>1, <1>10, <2>1, <2>2 DEF Current
<1>12. LettersKept(e)'
  <2> SUFFICES ASSUME ShortLines(text)
      PROVE  /\ ~truncated.present /\ Len(<<>>) <= q - q
             /\ OnlyLetters(Flat(Append(frames, f)) \o <<>>) = OnlyLetters(SubSeq(text, 1, q))
    <3> HIDE DEF q, f
    <3> QED  BY <1>1, <1>10 DEF LettersKept, ShortLines
  <2>1. /\ Len(line) <= D - b
        /\ OnlyLetters(Flat(frames) \o line) = OnlyLetters(SubSeq(text, 1, D))
    BY <1>3 DEF LettersKept, D
  <2>2. (D + pos) - b <= MAX_LINE_LENGTH
    BY <1>2, <1>4, <1>5, <1>6, CharFacts, ShortLineIs
  <2>3. ~(pos > room)
    BY <1>2, <1>4, <1>6, <2>1, <2>2
  <2>4. f = StripTrailingCr(line \o SubSeq(hold, 1, pos))
    BY <2>3
  <2>5. OnlyLetters(Flat(Append(frames, f)) \o <<>>)
          = OnlyLetters(SubSeq(text, 1, D)) \o OnlyLetters(SubSeq(text, D + 1, D + pos))
    <3> DEFINE h == SubSeq(hold, 1, pos)
    <3>1. h \in Seq(Char) /\ h = SubSeq(text, D + 1, D + pos)
      BY <1>7
    <3> HIDE DEF h
    <3>2. OnlyLetters(Flat(Append(frames, StripTrailingCr(line \o h))) \o <<>>)
            = OnlyLetters(Flat(frames) \o line) \o OnlyLetters(h)
      <4>1. frames \in Seq(Seq(Char)) /\ line \in Seq(Char) /\ h \in Seq(Char) /\ CR \in Char
        BY <1>2, <3>1, CharFacts
      <4> QED  BY ONLY <4>1, LettersDelivered
    <3>3. f = StripTrailingCr(line \o h)
      BY <2>4 DEF h
    <3> HIDE DEF f
    <3> QED  BY <2>1, <3>1, <3>2, <3>3
  <2>6. OnlyLetters(SubSeq(text, 1, D + pos))
          = OnlyLetters(SubSeq(text, 1, D)) \o OnlyLetters(SubSeq(text, D + 1, D + pos))
    BY <1>2, <1>6, LettersOn
  <2>7. OnlyLetters(SubSeq(text, 1, q)) = OnlyLetters(SubSeq(text, 1, D + pos))
    BY <1>2, <1>6, CharFacts, LettersOverFeed
  <2>8. Len(<<>>) <= q - q
    BY <1>6
  <2> QED  BY <1>1, <2>5, <2>6, <2>7, <2>8
<1>13. ASSUME ~paused PROVE Plain(e)'
  <2>1. Plain(b)
    <3>1. ~Cut(b)
      BY <1>1 DEF Cut
    <3>2. ~Flushed(b)
      <4>1. D # Len(text)
        BY <1>2, <1>5, <1>6
      <4> QED  BY <4>1 DEF Flushed, D
    <3> QED  BY <1>3, <1>13, <3>1, <3>2
  <2>2. frames = LinesOf(SubSeq(text, 1, b)) /\ line = SubSeq(text, b + 1, D)
    BY <2>1 DEF Plain, D
  <2> DEFINE body == SubSeq(text, b + 1, D + pos)
  <2>3. /\ line \o SubSeq(hold, 1, pos) = body /\ Len(body) = (D + pos) - b
        /\ Len(line) = D - b /\ body \in Seq(Char)
    <3>1. line \o SubSeq(hold, 1, pos) = body
      BY <1>2, <1>4, <1>6, <1>7, <2>2, Adjacent
    <3>2. Len(body) = (D + pos) - b /\ body \in Seq(Char)
      <4>1. b \in 0 .. D + pos
        BY <1>4, <1>6
      <4> QED  BY <1>2, <1>6, <4>1, PieceType
    <3>3. Len(line) = D - b
      <4>1. D \in b..Len(text)
        BY <1>2, <1>4
      <4> QED  BY <1>2, <1>4, <2>2, <4>1, SliceOf
    <3> QED  BY <3>1, <3>2, <3>3
  <2>4. f = Seen(body)
    <3>1. CASE pos > room
      <4>1. /\ Len(body) > MAX_LINE_LENGTH /\ room \in 0 .. at - D
            /\ D + room = b + MAX_LINE_LENGTH /\ D + room \in 0..Len(text)
            /\ D \in 0 .. D + room /\ b \in 0..D
            /\ MAX_LINE_LENGTH \in 0 .. (D + pos) - b /\ b \in 0 .. D + pos
        BY <1>2, <1>4, <1>6, <2>3, <3>1
      <4>2. SubSeq(hold, 1, room) = SubSeq(text, D + 1, D + room)
        <5>1. SubSeq(SubSeq(text, D + 1, at), 1, room) = SubSeq(text, D + 1, D + room)
          <6>1. /\ text \in Seq(Char) /\ at \in 0..Len(text) /\ D \in 0..at
                /\ room \in 0 .. at - D
            BY <1>2, <4>1
          <6> HIDE DEF room, D
          <6> QED  BY ONLY <6>1, Piece
        <5> QED  BY <1>2, <5>1
      <4>3. line \o SubSeq(hold, 1, room) = SubSeq(text, b + 1, D + room)
        BY <1>2, <2>2, <4>1, <4>2, Adjacent
      <4>4. SubSeq(body, 1, MAX_LINE_LENGTH) = SubSeq(text, b + 1, b + MAX_LINE_LENGTH)
        BY <1>2, <1>6, <4>1, Piece
      <4> QED  BY <3>1, <4>1, <4>3, <4>4 DEF Seen
    <3>2. CASE ~(pos > room)
      <4>1. ~(Len(body) > MAX_LINE_LENGTH)
        BY <1>2, <1>4, <1>6, <2>3, <3>2
      <4> QED  BY <2>3, <3>2, <4>1 DEF Seen
    <3> QED  BY <3>1, <3>2
  <2>5. LinesOf(SubSeq(text, 1, q)) = Append(frames, f)
    <3>1. LinesOf(SubSeq(text, 1, q))
            = Append(LinesOf(SubSeq(text, 1, b)), Seen(SubSeq(text, b + 1, q - 1)))
      BY <1>2, <1>4, <1>5, <1>6, MoreLines
    <3> HIDE DEF q, f
    <3> QED  BY <1>6, <2>2, <2>4, <3>1
  <2>6. SubSeq(text, q + 1, q) = <<>>
    <3>1. q + 1 > q /\ q + 1 \in Int /\ q \in Int
      BY <1>6
    <3> HIDE DEF q
    <3> QED  BY <1>2, <3>1, SubSeqEmpty
  <2> HIDE DEF q, f
  <2> QED  BY <1>1, <1>10, <2>5, <2>6 DEF Plain
<1>14. e \in 0..q
  BY <1>6
<1> HIDE DEF q, f
<1> QED  BY <1>1, <1>10, <1>11, <1>12, <1>13, <1>14 DEF LineInv

(* TakeLine, to the end of the piece or of the limit. *)
LEMMA TakeAll ==
  ASSUME LineInv, TakeLine, ~NewlineIn(hold) PROVE LineInv'
<1> DEFINE D == Taken
           room == MAX_LINE_LENGTH - Len(line)
<1>1. /\ reading \in {"linux", "macos"} /\ hold # <<>> /\ ~truncated.present
      /\ frames' = frames
      /\ reading' = reading /\ text' = text /\ at' = at /\ paused' = paused
  BY DEF TakeLine, Consumer
<1>2. /\ text \in Seq(Char) /\ Len(text) \in Nat /\ at \in 0..Len(text) /\ at \in Nat
      /\ D \in 0..at /\ D \in Nat /\ Len(hold) = at - D
      /\ hold = SubSeq(text, D + 1, at)
      /\ line \in Seq(Char) /\ Len(line) \in Nat /\ Len(line) <= MAX_LINE_LENGTH
      /\ frames \in Seq(Seq(Char)) /\ MAX_LINE_LENGTH \in Nat /\ D \in 0..Len(text)
  BY <1>1, Place, Limits
<1>3. PICK b \in 0..D :
        /\ Current(b) /\ LettersKept(b)
        /\ ~paused => Plain(b) \/ Cut(b) \/ Flushed(b)
  BY <1>1 DEF LineInv
<1>4. LineStart(text, b) /\ LineFree(text, b, D) /\ b \in Nat /\ b <= D /\ b \in 0..Len(text)
  BY <1>2, <1>3 DEF Current
<1> HIDE DEF D
<1>5. LineFree(text, b, at)
  BY <1>2, <1>4, FreePiece
<1>6. ASSUME ShortLines(text)
      PROVE  /\ at - b <= MAX_LINE_LENGTH /\ Len(line) <= D - b /\ ~(Len(hold) > room)
             /\ OnlyLetters(Flat(frames) \o line) = OnlyLetters(SubSeq(text, 1, D))
  <2>1. at \in b..Len(text)
    BY <1>2, <1>4
  <2>2. at - b <= MAX_LINE_LENGTH
    BY <1>2, <1>4, <1>5, <1>6, <2>1, CharFacts, ShortLineIs
  <2>3. /\ Len(line) <= D - b
        /\ OnlyLetters(Flat(frames) \o line) = OnlyLetters(SubSeq(text, 1, D))
    BY <1>3, <1>6 DEF LettersKept, D
  <2>4. ~(Len(hold) > room)
    BY <1>2, <1>4, <2>2, <2>3
  <2> QED  BY <2>2, <2>3, <2>4
<1>7. ASSUME ~paused
      PROVE  /\ frames = LinesOf(SubSeq(text, 1, b)) /\ line = SubSeq(text, b + 1, D)
             /\ Len(line) = D - b
  <2>1. ~Cut(b)
    BY <1>1 DEF Cut
  <2>2. ~Flushed(b)
    <3>1. Len(hold) # 0
      BY <1>1, <1>2
    <3>2. D # Len(text)
      BY <1>2, <3>1
    <3> QED  BY <3>2 DEF Flushed, D
  <2>3. Plain(b)
    BY <1>3, <1>7, <2>1, <2>2
  <2>4. frames = LinesOf(SubSeq(text, 1, b)) /\ line = SubSeq(text, b + 1, D)
    BY <2>3 DEF Plain, D
  <2>5. Len(line) = D - b
    BY <1>2, <2>4, PieceType
  <2> QED  BY <2>4, <2>5
<1>8. CASE Len(hold) > room
  <2> DEFINE hd == line \o SubSeq(hold, 1, room)
  <2>1. /\ truncated' = [present |-> TRUE, head |-> hd]
        /\ line' = <<>> /\ hold' = SubSeq(hold, room + 1, Len(hold))
    BY <1>8 DEF TakeLine, Consume
  <2>2. /\ room \in Nat /\ room \in 0 .. at - D /\ D + room \in 0..at /\ D + room < at
        /\ D + room \in 0..Len(text) /\ D \in 0 .. D + room /\ b \in 0 .. D + room
    BY <1>2, <1>4, <1>8
  <2>3. /\ SubSeq(hold, 1, room) = SubSeq(text, D + 1, D + room)
        /\ SubSeq(hold, 1, room) \in Seq(Char)
        /\ hold' = SubSeq(text, (D + room) + 1, at)
    <3> HIDE DEF room
    <3>1. /\ SubSeq(SubSeq(text, D + 1, at), 1, room) = SubSeq(text, D + 1, D + room)
          /\ SubSeq(SubSeq(text, D + 1, at), room + 1, at - D)
               = SubSeq(text, (D + room) + 1, at)
      <4>1. text \in Seq(Char) /\ at \in 0..Len(text) /\ D \in 0..at /\ room \in 0 .. at - D
        BY <1>2, <2>2
      <4> QED  BY ONLY <4>1, Piece
    <3>2. SubSeq(text, D + 1, D + room) \in Seq(Char)
      BY <1>2, <2>2, PieceType
    <3> QED  BY <1>2, <2>1, <3>1, <3>2
  <2>4. hd \in Seq(Char)
    <3> HIDE DEF room
    <3> QED  BY <1>2, <2>3, ConcatProperties
  <2>e. D + room \in Nat
    BY <1>2, <2>2
  <2> PICK e \in Nat : e = D + room
    <3> HIDE DEF room
    <3> QED  BY <2>e
  <2>5. LineType' /\ Taken' = e /\ hold' = SubSeq(text', Taken' + 1, at')
    <3>1. truncated' \in [present : BOOLEAN, head : Seq(Char)]
      <4> HIDE DEF hd
      <4> QED  BY <2>1, <2>4
    <3>2. line' \in Seq(Char) /\ Len(line') <= MAX_LINE_LENGTH
      BY <1>2, <2>1
    <3>3. paused' \in BOOLEAN
      BY <1>1 DEF LineInv, LineType
    <3>4. e \in 0..at' /\ hold' = SubSeq(text, e + 1, at') /\ at' \in 0..Len(text)
      BY <1>1, <1>2, <2>2, <2>3
    <3>5. frames' \in Seq(Seq(Char)) /\ reading' = reading /\ text' = text
      BY <1>1, <1>2
    <3> HIDE DEF hd, room
    <3> QED  BY <1>1, <2>1, <3>1, <3>2, <3>3, <3>4, <3>5, NewPlace
  <2>6. LineFree(text, b, e) /\ b \in 0..e
    BY <1>2, <1>5, <2>2 DEF LineFree
  <2>7. Current(b)'
    BY <1>1, <1>4, <2>5, <2>6 DEF Current
  <2>8. LettersKept(b)'
    <3>1. ~ShortLines(text)
      BY <1>6, <1>8
    <3> QED  BY <1>1, <3>1 DEF LettersKept, ShortLines
  <2>9. ASSUME ~paused PROVE Cut(b)'
    <3>1. /\ frames = LinesOf(SubSeq(text, 1, b)) /\ line = SubSeq(text, b + 1, D)
          /\ Len(line) = D - b
      BY <1>7, <2>9
    <3>2. /\ D + room = b + MAX_LINE_LENGTH /\ b + MAX_LINE_LENGTH <= e
          /\ b + MAX_LINE_LENGTH < at
      BY <1>2, <1>4, <2>2, <3>1
    <3>3. hd = SubSeq(text, b + 1, b + MAX_LINE_LENGTH)
      <4> HIDE DEF room
      <4> QED  BY <1>2, <2>2, <2>3, <3>1, <3>2, Adjacent
    <3>4. LineFree(text, b, b + MAX_LINE_LENGTH + 1)
      <4>1. b + MAX_LINE_LENGTH + 1 <= at /\ b + MAX_LINE_LENGTH + 1 \in Nat
        BY <1>2, <1>4, <3>2
      <4> QED  BY <1>2, <1>5, <4>1 DEF LineFree
    <3>5. truncated'.present /\ truncated'.head = hd
      <4> HIDE DEF hd
      <4> QED  BY <2>1
    <3> HIDE DEF hd, room
    <3> QED  BY <1>1, <2>5, <3>1, <3>2, <3>3, <3>4, <3>5 DEF Cut
  <2> QED  BY <1>1, <2>5, <2>6, <2>7, <2>8, <2>9 DEF LineInv
<1>9. CASE ~(Len(hold) > room)
  <2>1. /\ truncated' = truncated
        /\ line' = line \o hold /\ hold' = SubSeq(hold, Len(hold) + 1, Len(hold))
    BY <1>9 DEF TakeLine, Consume
  <2>2. hold \in Seq(Char) /\ Len(line \o hold) = Len(line) + (at - D)
        /\ line \o hold \in Seq(Char)
    <3>1. hold \in Seq(Char)
      BY <1>2, PieceType
    <3>2. Len(line \o hold) = Len(line) + Len(hold) /\ line \o hold \in Seq(Char)
      BY <1>2, <3>1, ConcatProperties
    <3> QED  BY <1>2, <3>1, <3>2
  <2>3. hold' = SubSeq(text, at + 1, at)
    <3>1. at - D \in 0 .. at - D /\ (D + (at - D)) + 1 = at + 1
      BY <1>2
    <3>2. SubSeq(SubSeq(text, D + 1, at), (at - D) + 1, at - D)
            = SubSeq(text, (D + (at - D)) + 1, at)
      BY <1>2, <3>1, Piece
    <3> QED  BY <1>2, <2>1, <3>1, <3>2
  <2> PICK e \in Nat : e = at
    BY <1>2
  <2>4. LineType' /\ Taken' = e /\ hold' = SubSeq(text', Taken' + 1, at')
    <3>1. truncated' \in [present : BOOLEAN, head : Seq(Char)] /\ paused' \in BOOLEAN
      BY <1>1, <2>1 DEF LineInv, LineType
    <3>2. line' \in Seq(Char) /\ Len(line') <= MAX_LINE_LENGTH
      BY <1>2, <1>9, <2>1, <2>2
    <3>3. e \in 0..at' /\ hold' = SubSeq(text, e + 1, at') /\ at' \in 0..Len(text)
      BY <1>1, <1>2, <2>3
    <3>4. frames' \in Seq(Seq(Char)) /\ reading' = reading /\ text' = text
      BY <1>1, <1>2
    <3> QED  BY <1>1, <2>1, <3>1, <3>2, <3>3, <3>4, NewPlace
  <2>5. LineFree(text, b, e) /\ b \in 0..e
    BY <1>2, <1>4, <1>5
  <2>6. Current(b)'
    BY <1>1, <1>4, <2>4, <2>5 DEF Current
  <2>7. LettersKept(b)'
    <3> SUFFICES ASSUME ShortLines(text)
        PROVE  /\ ~truncated.present /\ Len(line \o hold) <= e - b
               /\ OnlyLetters(Flat(frames) \o (line \o hold)) = OnlyLetters(SubSeq(text, 1, e))
      BY <1>1, <2>1, <2>4 DEF LettersKept, ShortLines
    <3>1. /\ Len(line) <= D - b
          /\ OnlyLetters(Flat(frames) \o line) = OnlyLetters(SubSeq(text, 1, D))
      BY <1>6
    <3>2. Len(line \o hold) <= e - b
      BY <1>2, <1>4, <2>2, <3>1
    <3>3. OnlyLetters(Flat(frames) \o (line \o hold))
            = OnlyLetters(Flat(frames) \o line) \o OnlyLetters(hold)
      <4>1. frames \in Seq(Seq(Char)) /\ line \in Seq(Char) /\ hold \in Seq(Char)
        BY <1>2, <2>2
      <4> QED  BY ONLY <4>1, LettersGoOn
    <3>4. OnlyLetters(SubSeq(text, 1, at))
            = OnlyLetters(SubSeq(text, 1, D)) \o OnlyLetters(SubSeq(text, D + 1, at))
      BY <1>2, LettersOn
    <3> QED  BY <1>1, <1>2, <3>1, <3>2, <3>3, <3>4
  <2>8. ASSUME ~paused PROVE Plain(b)'
    <3>1. frames = LinesOf(SubSeq(text, 1, b)) /\ line = SubSeq(text, b + 1, D)
      BY <1>7, <2>8
    <3>2. line \o hold = SubSeq(text, b + 1, at)
      BY <1>2, <3>1, Adjacent
    <3> QED  BY <1>1, <2>1, <2>4, <3>1, <3>2 DEF Plain
  <2> QED  BY <1>1, <2>4, <2>5, <2>6, <2>7, <2>8 DEF LineInv
<1> QED  BY <1>8, <1>9

(* A line over the limit, of which the head is delivered. *)
LEMMA HeadOfLong ==
  ASSUME NEW S, NEW s \in Seq(S), NEW e \in 0..Len(s), NEW b \in 0..e,
         b + MAX_LINE_LENGTH < e
  PROVE  Seen(SubSeq(s, b + 1, e)) = SubSeq(s, b + 1, b + MAX_LINE_LENGTH)
<1>1. e \in Nat /\ b \in Nat /\ MAX_LINE_LENGTH \in Nat
  BY Limits
<1>2. Len(SubSeq(s, b + 1, e)) = e - b
  BY PieceType
<1>3. MAX_LINE_LENGTH \in 0 .. e - b /\ e - b > MAX_LINE_LENGTH
  BY <1>1
<1>4. SubSeq(SubSeq(s, b + 1, e), 1, MAX_LINE_LENGTH) = SubSeq(s, b + 1, b + MAX_LINE_LENGTH)
  BY <1>3, Piece
<1> QED  BY <1>2, <1>3, <1>4 DEF Seen

(* The rest of an overlong line is discarded: its head is delivered once. *)
LEMMA DiscardLine == ASSUME LineInv, Discard PROVE LineInv'
<1> DEFINE D == Taken
<1>1. /\ reading \in {"linux", "macos"} /\ hold # <<>> /\ truncated.present
      /\ reading' = reading /\ text' = text /\ at' = at /\ paused' = paused /\ line' = line
  BY DEF Discard, Consumer
<1>2. /\ text \in Seq(Char) /\ Len(text) \in Nat /\ at \in 0..Len(text) /\ at \in Nat
      /\ D \in 0..at /\ D \in Nat /\ Len(hold) = at - D
      /\ hold = SubSeq(text, D + 1, at)
      /\ line \in Seq(Char) /\ Len(line) \in Nat /\ Len(line) <= MAX_LINE_LENGTH
      /\ frames \in Seq(Seq(Char)) /\ MAX_LINE_LENGTH \in Nat /\ D \in 0..Len(text)
  BY <1>1, Place, Limits
<1>3. PICK b \in 0..D :
        /\ Current(b) /\ LettersKept(b)
        /\ ~paused => Plain(b) \/ Cut(b) \/ Flushed(b)
  BY <1>1 DEF LineInv
<1>4. LineStart(text, b) /\ LineFree(text, b, D) /\ b \in Nat /\ b <= D /\ b \in 0..Len(text)
  BY <1>2, <1>3 DEF Current
<1>5. ~ShortLines(text)
  BY <1>1, <1>3 DEF LettersKept
<1>6. ~paused => Cut(b)
  BY <1>1, <1>3 DEF Plain, Flushed
<1>7. /\ truncated \in [present : BOOLEAN, head : Seq(Char)] /\ paused \in BOOLEAN
      /\ truncated.head \in Seq(Char) /\ line = <<>>
  BY <1>1 DEF LineInv, LineType
<1>8. CASE NewlineIn(hold)
  <2> DEFINE pos == Before(hold)
             q == D + pos + 1
  <2>1. /\ hold' = SubSeq(hold, (pos + 1) + 1, Len(hold))
        /\ frames' = Append(frames, truncated.head) /\ truncated' = Absent
    BY <1>8 DEF Discard, Consume, DeliverLine
  <2> HIDE DEF D
  <2>2. pos \in 0 .. at - D - 1 /\ FirstFeed(text, b, q)
    BY <1>2, <1>4, <1>8, FeedInPiece
  <2> HIDE DEF pos
  <2>3. /\ pos \in Nat /\ q \in Nat /\ q \in 0..at /\ q \in 0..Len(text) /\ q - 1 = D + pos
        /\ pos + 1 \in 0 .. at - D /\ D + (pos + 1) = q /\ b < q
    BY <1>2, <1>4, <2>2
  <2>4. text[q] = NL
    BY <2>2 DEF FirstFeed
  <2>5. hold' = SubSeq(text, q + 1, at)
    <3>1. SubSeq(SubSeq(text, D + 1, at), (pos + 1) + 1, at - D)
            = SubSeq(text, (D + (pos + 1)) + 1, at)
      <4> DEFINE k == pos + 1
      <4>1. k \in 0 .. at - D
        BY <2>3
      <4> HIDE DEF k
      <4>2. SubSeq(SubSeq(text, D + 1, at), k + 1, at - D) = SubSeq(text, (D + k) + 1, at)
        BY <1>2, <4>1, Piece
      <4> QED  BY <4>2 DEF k
    <3> QED  BY <1>2, <2>1, <2>3, <3>1
  <2> PICK e \in Nat : e = q
    BY <2>3
  <2>6. LineType' /\ Taken' = e /\ hold' = SubSeq(text', Taken' + 1, at')
    <3>1. frames' \in Seq(Seq(Char))
      BY <1>2, <1>7, <2>1, AppendProperties
    <3>2. truncated' \in [present : BOOLEAN, head : Seq(Char)] /\ ~truncated'.present
      <4>1. <<>> \in Seq(Char)
        OBVIOUS
      <4> QED  BY <2>1, <4>1 DEF Absent
    <3>3. e \in 0..at' /\ hold' = SubSeq(text, e + 1, at') /\ at' \in 0..Len(text)
      BY <1>1, <1>2, <2>3, <2>5
    <3>4. line' \in Seq(Char) /\ Len(line') <= MAX_LINE_LENGTH /\ paused' \in BOOLEAN
      BY <1>1, <1>2, <1>7
    <3> HIDE DEF q
    <3> QED  BY <1>1, <3>1, <3>2, <3>3, <3>4, NewPlace
  <2>7. Current(e)'
    <3>1. LineStart(text, q) /\ q \in 0..q
      BY <2>3, <2>4 DEF LineStart
    <3>2. LineFree(text, q, q)
      BY <2>3 DEF LineFree
    <3> HIDE DEF q
    <3> QED  BY <1>1, <2>6, <3>1, <3>2 DEF Current
  <2>8. LettersKept(e)'
    BY <1>1, <1>5 DEF LettersKept, ShortLines
  <2>9. ASSUME ~paused PROVE Plain(e)'
    <3>1. /\ frames = LinesOf(SubSeq(text, 1, b))
          /\ truncated.head = SubSeq(text, b + 1, b + MAX_LINE_LENGTH)
          /\ LineFree(text, b, b + MAX_LINE_LENGTH + 1)
      BY <1>6, <2>9 DEF Cut
    <3>2. b + MAX_LINE_LENGTH < q - 1
      <4>1. ~(q <= b + MAX_LINE_LENGTH + 1)
        BY <2>3, <2>4, <3>1 DEF LineFree
      <4> QED  BY <1>2, <1>4, <2>3, <4>1
    <3>3. Seen(SubSeq(text, b + 1, q - 1)) = truncated.head
      <4>1. q - 1 \in 0..Len(text) /\ b \in 0 .. q - 1
        BY <1>2, <1>4, <2>3
      <4> HIDE DEF q
      <4> QED  BY <1>2, <3>1, <3>2, <4>1, HeadOfLong
    <3>4. LinesOf(SubSeq(text, 1, q))
            = Append(LinesOf(SubSeq(text, 1, b)), Seen(SubSeq(text, b + 1, q - 1)))
      BY <1>2, <1>4, <2>2, <2>3, MoreLines
    <3>5. SubSeq(text, q + 1, q) = <<>>
      <4>1. q + 1 > q /\ q + 1 \in Int /\ q \in Int
        BY <2>3
      <4> HIDE DEF q
      <4> QED  BY <1>2, <4>1, SubSeqEmpty
    <3>6. ~truncated'.present
      BY <2>1 DEF Absent
    <3> HIDE DEF q
    <3> QED  BY <1>1, <1>7, <2>1, <2>6, <3>1, <3>3, <3>4, <3>5, <3>6 DEF Plain
  <2>10. e \in 0..e
    OBVIOUS
  <2> HIDE DEF q
  <2> QED  BY <1>1, <2>6, <2>7, <2>8, <2>9, <2>10 DEF LineInv
<1>9. CASE ~NewlineIn(hold)
  <2>1. /\ hold' = SubSeq(hold, Len(hold) + 1, Len(hold))
        /\ frames' = frames /\ truncated' = truncated
    BY <1>9 DEF Discard, Consume
  <2>2. Cut(b) => /\ b + MAX_LINE_LENGTH <= D /\ b + MAX_LINE_LENGTH < at
                  /\ frames = LinesOf(SubSeq(text, 1, b))
                  /\ truncated.head = SubSeq(text, b + 1, b + MAX_LINE_LENGTH)
                  /\ LineFree(text, b, b + MAX_LINE_LENGTH + 1)
    BY DEF Cut
  <2> HIDE DEF D
  <2>3. LineFree(text, b, at)
    BY <1>2, <1>4, <1>9, FreePiece
  <2>4. hold' = SubSeq(text, at + 1, at)
    <3>1. at - D \in 0 .. at - D /\ (D + (at - D)) + 1 = at + 1
      BY <1>2
    <3>2. SubSeq(SubSeq(text, D + 1, at), (at - D) + 1, at - D)
            = SubSeq(text, (D + (at - D)) + 1, at)
      BY <1>2, <3>1, Piece
    <3> QED  BY <1>2, <2>1, <3>1, <3>2
  <2> PICK e \in Nat : e = at
    BY <1>2
  <2>5. LineType' /\ Taken' = e /\ hold' = SubSeq(text', Taken' + 1, at')
    <3>1. e \in 0..at' /\ hold' = SubSeq(text, e + 1, at') /\ at' \in 0..Len(text)
      BY <1>1, <1>2, <2>4
    <3>2. /\ line' \in Seq(Char) /\ Len(line') <= MAX_LINE_LENGTH /\ paused' \in BOOLEAN
          /\ frames' \in Seq(Seq(Char)) /\ line' = <<>>
          /\ truncated' \in [present : BOOLEAN, head : Seq(Char)]
      BY <1>1, <1>2, <1>7, <2>1
    <3> QED  BY <1>1, <3>1, <3>2, NewPlace
  <2>6. b \in 0..e /\ LineFree(text, b, e)
    BY <1>2, <1>4, <2>3
  <2>7. Current(b)'
    BY <1>1, <1>4, <2>5, <2>6 DEF Current
  <2>8. LettersKept(b)'
    BY <1>1, <1>5 DEF LettersKept, ShortLines
  <2>9. ASSUME ~paused PROVE Cut(b)'
    <3>1. b + MAX_LINE_LENGTH <= e
      BY <1>2, <1>4, <1>6, <2>2, <2>9
    <3> QED  BY <1>1, <1>6, <2>1, <2>2, <2>5, <2>9, <3>1 DEF Cut
  <2> QED  BY <1>1, <2>5, <2>6, <2>7, <2>8, <2>9 DEF LineInv
<1> QED  BY <1>8, <1>9

(* More bytes come: no line changes. *)
LEMMA FillLine == ASSUME LineInv, FillBuf PROVE LineInv'
<1> DEFINE D == Taken
<1>1. /\ reading \in {"linux", "macos"} /\ hold = <<>>
      /\ UNCHANGED <<reading, text, line, truncated, frames, paused>>
  BY DEF FillBuf, Consumer
<1>2. /\ text \in Seq(Char) /\ Len(text) \in Nat /\ at \in 0..Len(text) /\ at \in Nat
      /\ D \in 0..at /\ D \in Nat /\ Len(hold) = at - D /\ D \in 0..Len(text)
  BY <1>1, Place
<1>3. D = at
  <2>1. Len(hold) = 0
    BY <1>1
  <2> HIDE DEF D
  <2> QED  BY <1>2, <2>1
<1>4. PICK n \in at + 1 .. Len(text) : hold' = SubSeq(text, at + 1, n) /\ at' = n
  BY DEF FillBuf
<1>5. n \in 0..Len(text) /\ at \in 0..n /\ at < n /\ n \in Nat
  BY <1>2, <1>4
<1>6. PICK b \in 0..D :
        /\ Current(b) /\ LettersKept(b)
        /\ ~paused => Plain(b) \/ Cut(b) \/ Flushed(b)
  BY <1>1 DEF LineInv
<1> PICK e \in Nat : e = at
  BY <1>2
<1>7. LineType' /\ Taken' = e /\ hold' = SubSeq(text', Taken' + 1, at')
  <2>1. e \in 0..at' /\ hold' = SubSeq(text, e + 1, at') /\ at' \in 0..Len(text)
    BY <1>4, <1>5
  <2>2. /\ line' \in Seq(Char) /\ Len(line') <= MAX_LINE_LENGTH /\ paused' \in BOOLEAN
        /\ frames' \in Seq(Seq(Char)) /\ (truncated'.present => line' = <<>>)
        /\ truncated' \in [present : BOOLEAN, head : Seq(Char)]
    BY <1>1 DEF LineInv, LineType
  <2> QED  BY <1>1, <2>1, <2>2, NewPlace
<1>8. Taken' = Taken
  BY <1>3, <1>7
<1>9. Current(b)' /\ LettersKept(b)'
  BY <1>1, <1>6, <1>8 DEF Current, LettersKept, ShortLines
<1>10. ASSUME ~paused PROVE Plain(b)' \/ Cut(b)' \/ Flushed(b)'
  <2>1. Plain(b) => Plain(b)'
    BY <1>1, <1>8 DEF Plain
  <2>2. Flushed(b) => Flushed(b)'
    BY <1>1, <1>8 DEF Flushed
  <2>3. Cut(b) => Cut(b)'
    <3> SUFFICES ASSUME Cut(b) PROVE Cut(b)'
      OBVIOUS
    <3>1. b \in Nat /\ MAX_LINE_LENGTH \in Nat /\ b + MAX_LINE_LENGTH < at
      BY <1>2, <1>6, Limits DEF Cut
    <3>2. b + MAX_LINE_LENGTH < at'
      BY <1>2, <1>4, <1>5, <3>1
    <3> QED  BY <1>1, <1>8, <3>2 DEF Cut
  <2> QED  BY <1>6, <1>10, <2>1, <2>2, <2>3
<1> QED  BY <1>1, <1>3, <1>7, <1>8, <1>9, <1>10 DEF LineInv

(* Nothing has no letters and no lines. *)
LEMMA Nothing ==
  /\ OnlyLetters(<<>>) = <<>> /\ Flat(<<>>) = <<>> /\ LinesOf(<<>>) = <<>>
  /\ Flat(<<>>) \o <<>> = <<>>
<1>1. <<>> \in Seq(Char) /\ <<>> \in Seq(Seq(Char)) /\ Len(<<>>) = 0
  OBVIOUS
<1>2. Flat(<<>>) = <<>>
  <2>1. FlatTo(<<>>)[0] = <<>>
    BY <1>1, FlatUnfolds
  <2> QED  BY <1>1, <2>1 DEF Flat
<1>3. OnlyLetters(<<>>) = <<>>
  <2>1. EachLetter(<<>>) = <<>>
    BY DEF EachLetter
  <2> QED  BY <1>1, <1>2, <2>1, EachLetterOf
<1>4. LinesOf(<<>>) = <<>>
  <2>1. LineFree(<<>>, 0, Len(<<>>)) /\ 0 \in 0..Len(<<>>)
    BY <1>1 DEF LineFree
  <2> QED  BY <1>1, <2>1, NoMoreLines DEF LinesOf
<1>5. <<>> \o <<>> = <<>>
  BY <1>1, ConcatEmptySeq
<1> QED  BY <1>2, <1>3, <1>4, <1>5

(* The end of the file: Linux delivers what is left, macOS waits for more. *)
LEMMA EndLine == ASSUME LineInv, EndOfFile PROVE LineInv'
<1> DEFINE D == Taken
<1>1. /\ reading \in {"linux", "macos"} /\ hold = <<>>
      /\ UNCHANGED <<reading, text, at, hold>>
      /\ paused' = (paused \/ (at < Len(text) /\ (truncated.present \/ line # <<>>)))
  BY DEF EndOfFile, Consumer
<1>2. /\ text \in Seq(Char) /\ Len(text) \in Nat /\ at \in 0..Len(text) /\ at \in Nat
      /\ D \in 0..at /\ D \in Nat /\ Len(hold) = at - D /\ D \in 0..Len(text)
      /\ line \in Seq(Char) /\ Len(line) \in Nat /\ Len(line) <= MAX_LINE_LENGTH
      /\ frames \in Seq(Seq(Char)) /\ MAX_LINE_LENGTH \in Nat
      /\ hold = SubSeq(text, D + 1, at)
  BY <1>1, Place, Limits
<1>3. D = at
  <2>1. Len(hold) = 0
    BY <1>1
  <2> HIDE DEF D
  <2> QED  BY <1>2, <2>1
<1>4. PICK b \in 0..D :
        /\ Current(b) /\ LettersKept(b)
        /\ ~paused => Plain(b) \/ Cut(b) \/ Flushed(b)
  BY <1>1 DEF LineInv
<1>5. LineStart(text, b) /\ LineFree(text, b, D) /\ b \in Nat /\ b <= D /\ b \in 0..Len(text)
  BY <1>2, <1>4 DEF Current
<1>6. Taken' = Taken /\ hold' = SubSeq(text', Taken' + 1, at')
  <2>1. Taken' = Taken
    BY <1>1 DEF Taken
  <2> QED  BY <1>1, <1>2, <2>1
<1>7. Current(b)' /\ b \in 0..Taken'
  BY <1>1, <1>4, <1>6 DEF Current
<1>8. /\ truncated \in [present : BOOLEAN, head : Seq(Char)] /\ paused \in BOOLEAN
      /\ truncated.head \in Seq(Char) /\ (truncated.present => line = <<>>)
      /\ paused' \in BOOLEAN
  BY <1>1 DEF LineInv, LineType
<1>9. <<>> \in Seq(Char) /\ Len(<<>>) = 0 /\ Absent.present = FALSE
      /\ Absent \in [present : BOOLEAN, head : Seq(Char)]
  BY DEF Absent
<1>10. CASE truncated.present
  <2>1. /\ frames' = Append(frames, truncated.head) /\ truncated' = Absent
        /\ line' = <<>>
    BY <1>8, <1>10 DEF EndOfFile, DeliverLine
  <2>2. LineType'
    <3>1. frames' \in Seq(Seq(Char))
      BY <1>2, <1>8, <2>1, AppendProperties
    <3>2. text' \in Seq(Char) /\ at' \in 0..Len(text') /\ hold' \in Seq(Char) /\ Len(hold') <= at'
      BY <1>1, <1>2, <1>9
    <3> QED  BY <1>1, <1>2, <1>8, <1>9, <2>1, <3>1, <3>2 DEF LineType
  <2>3. LettersKept(b)'
    BY <1>1, <1>4, <1>10 DEF LettersKept, ShortLines
  <2>4. ASSUME ~paused' PROVE Flushed(b)'
    <3>1. ~paused /\ at = Len(text)
      <4>1. ~paused /\ ~(at < Len(text))
        BY <1>1, <1>10, <2>4, Zenon
      <4> QED  BY <1>2, <4>1
    <3>2. Cut(b)
      BY <1>4, <1>10, <3>1 DEF Plain, Flushed
    <3>3. /\ frames = LinesOf(SubSeq(text, 1, b)) /\ b + MAX_LINE_LENGTH < at
          /\ truncated.head = SubSeq(text, b + 1, b + MAX_LINE_LENGTH)
      BY <3>2 DEF Cut
    <3>4. b < Len(text) /\ b \in 0..at /\ LineFree(text, b, Len(text))
      BY <1>2, <1>3, <1>5, <3>1, <3>3
    <3>5. Seen(SubSeq(text, b + 1, Len(text))) = truncated.head
      BY <1>2, <3>1, <3>3, <3>4, HeadOfLong
    <3>6. AllLinesOf(text)
            = Append(LinesOf(SubSeq(text, 1, b)), Seen(SubSeq(text, b + 1, Len(text))))
      BY <1>2, <1>5, <3>4, CharFacts, AllLinesMore
    <3> QED  BY <1>1, <1>3, <1>6, <1>9, <2>1, <3>1, <3>3, <3>4, <3>5, <3>6 DEF Flushed
  <2> QED  BY <1>1, <1>6, <1>7, <2>2, <2>3, <2>4 DEF LineInv
<1>11. CASE ~truncated.present /\ line = <<>>
  <2>1. /\ UNCHANGED <<frames, truncated, line>> /\ paused' = paused
    BY <1>1, <1>8, <1>11 DEF EndOfFile
  <2>2. LineType'
    BY <1>1, <2>1 DEF LineInv, LineType
  <2>3. LettersKept(b)'
    BY <1>1, <1>4, <1>6, <2>1 DEF LettersKept, ShortLines
  <2>4. ASSUME ~paused PROVE Plain(b)' \/ Flushed(b)'
    <3>1. Plain(b) \/ Flushed(b)
      BY <1>4, <1>11, <2>4 DEF Cut
    <3>2. Plain(b) => Plain(b)'
      BY <1>1, <1>6, <2>1 DEF Plain
    <3>3. Flushed(b) => Flushed(b)'
      BY <1>1, <1>6, <2>1 DEF Flushed
    <3> QED  BY <3>1, <3>2, <3>3
  <2> QED  BY <1>1, <1>6, <1>7, <2>1, <2>2, <2>3, <2>4 DEF LineInv
<1>12. CASE ~truncated.present /\ line # <<>>
  <2>1. /\ frames' = Append(frames, StripTrailingCr(line)) /\ truncated' = truncated
        /\ line' = <<>>
    BY <1>12 DEF EndOfFile, DeliverLine
  <2>2. StripTrailingCr(line) \in Seq(Char)
    BY <1>2, StripType
  <2>3. LineType'
    <3>1. frames' \in Seq(Seq(Char))
      BY <1>2, <2>1, <2>2, AppendProperties
    <3>2. text' \in Seq(Char) /\ at' \in 0..Len(text') /\ hold' \in Seq(Char) /\ Len(hold') <= at'
      BY <1>1, <1>2, <1>9
    <3> QED  BY <1>1, <1>2, <1>8, <1>9, <2>1, <3>1, <3>2 DEF LineType
  <2>4. LettersKept(b)'
    <3> SUFFICES ASSUME ShortLines(text)
        PROVE  /\ Len(<<>>) <= D - b
               /\ OnlyLetters(Flat(Append(frames, StripTrailingCr(line))) \o <<>>)
                    = OnlyLetters(SubSeq(text, 1, D))
      BY <1>1, <1>6, <1>12, <2>1 DEF LettersKept, ShortLines
    <3>1. OnlyLetters(Flat(frames) \o line) = OnlyLetters(SubSeq(text, 1, D))
      BY <1>4 DEF LettersKept
    <3>2. OnlyLetters(Flat(Append(frames, StripTrailingCr(line \o <<>>))) \o <<>>)
            = OnlyLetters(Flat(frames) \o line) \o OnlyLetters(<<>>)
      <4>1. frames \in Seq(Seq(Char)) /\ line \in Seq(Char) /\ CR \in Char
        BY <1>2, CharFacts
      <4>2. \A h \in Seq(Char) :
              OnlyLetters(Flat(Append(frames, StripTrailingCr(line \o h))) \o <<>>)
                = OnlyLetters(Flat(frames) \o line) \o OnlyLetters(h)
        BY ONLY <4>1, LettersDelivered
      <4> QED  BY <1>9, <4>2, Zenon
    <3>3. line \o <<>> = line
      BY <1>2, ConcatEmptySeq
    <3>4. OnlyLetters(SubSeq(text, 1, D)) \o <<>> = OnlyLetters(SubSeq(text, 1, D))
      <4> DEFINE p == SubSeq(text, 1, D)
      <4>1. p \in Seq(Char)
        <5>1. 0 \in 0..D /\ 0 + 1 = 1
          BY <1>2
        <5>2. SubSeq(text, 0 + 1, D) \in Seq(Char)
          BY <1>2, <5>1, PieceType
        <5> QED  BY <5>1, <5>2
      <4> HIDE DEF p
      <4>2. OnlyLetters(p) \in Seq(Char)
        BY <4>1, EachLetterOf
      <4>3. OnlyLetters(p) \o <<>> = OnlyLetters(p)
        BY <4>2, ConcatEmptySeq
      <4> QED  BY <4>3 DEF p
    <3>5. Len(<<>>) <= D - b
      BY <1>2, <1>5, <1>9
    <3> QED  BY <3>1, <3>2, <3>3, <3>4, <3>5, Nothing
  <2>5. ASSUME ~paused' PROVE Flushed(b)'
    <3>1. ~paused /\ at = Len(text)
      <4>1. ~paused /\ ~(at < Len(text))
        BY <1>1, <1>12, <2>5, Zenon
      <4> QED  BY <1>2, <4>1
    <3>2. Plain(b)
      BY <1>4, <1>12, <3>1 DEF Cut, Flushed
    <3>3. frames = LinesOf(SubSeq(text, 1, b)) /\ line = SubSeq(text, b + 1, Len(text))
      BY <1>3, <3>1, <3>2 DEF Plain
    <3>4. b < Len(text) /\ LineFree(text, b, Len(text))
      <4>1. Len(line) # 0
        BY <1>2, <1>12
      <4>2. Len(line) = at - b
        <5>1. b \in 0..at
          BY <1>3
        <5> QED  BY <1>2, <3>1, <3>3, <5>1, PieceType
      <4> QED  BY <1>2, <1>3, <1>5, <3>1, <4>1, <4>2
    <3>5. Seen(line) = StripTrailingCr(line)
      <4>1. ~(Len(line) > MAX_LINE_LENGTH)
        BY <1>2
      <4> QED  BY <4>1 DEF Seen
    <3>6. AllLinesOf(text)
            = Append(LinesOf(SubSeq(text, 1, b)), Seen(SubSeq(text, b + 1, Len(text))))
      BY <1>2, <1>5, <3>4, CharFacts, AllLinesMore
    <3> QED  BY <1>1, <1>3, <1>6, <1>12, <2>1, <3>1, <3>3, <3>4, <3>5, <3>6 DEF Flushed
  <2> QED  BY <1>1, <1>6, <1>7, <2>3, <2>4, <2>5 DEF LineInv
<1> QED  BY <1>10, <1>11, <1>12

(* A reader that has just been opened has read nothing. *)
LEMMA OpenLine == ASSUME LineInv, OpenReader PROVE LineInv'
<1>1. /\ LineType /\ at = 0 /\ hold = <<>> /\ line = <<>> /\ ~truncated.present
      /\ frames = <<>> /\ ~paused
      /\ UNCHANGED <<at, hold, line, truncated, frames, paused>>
  BY DEF OpenReader, LineInv, LineType, lineVars
<1>2. text' \in Seq(Char) /\ reading' # "none"
  BY TextAssumption, TextsAreSequences DEF OpenReader
<1>3. <<>> \in Seq(Char) /\ Len(<<>>) = 0 /\ Len(text') \in Nat /\ 0 \in 0..Len(text') /\ 0 \in 0..0
  BY <1>2
<1>4. LineType'
  BY <1>1, <1>2, <1>3 DEF LineType
<1>5. Taken' = 0
  <2>1. at' = 0 /\ Len(hold') = 0
    BY <1>1, <1>3
  <2> QED  BY ONLY <2>1 DEF Taken
<1>6. SubSeq(text', 0 + 1, 0) = <<>> /\ SubSeq(text', 1, 0) = <<>>
  BY <1>2
<1>7. Current(0)'
  BY <1>3, <1>5 DEF Current, LineStart, LineFree
<1>8. LettersKept(0)'
  <2>1. Len(<<>>) <= 0 - 0
    BY <1>3
  <2> QED  BY <1>1, <1>5, <1>6, <2>1, Nothing DEF LettersKept
<1>9. Plain(0)'
  BY <1>1, <1>5, <1>6, Nothing DEF Plain
<1>10. hold' = SubSeq(text', Taken' + 1, at')
  BY <1>1, <1>5, <1>6
<1> QED  BY <1>3, <1>4, <1>5, <1>7, <1>8, <1>9, <1>10 DEF LineInv

(* Every step keeps the invariant. *)
LEMMA StepLine == LineInv /\ [TextNext]_textVars => LineInv'
<1> SUFFICES ASSUME LineInv, [TextNext]_textVars PROVE LineInv'
  OBVIOUS
<1>1. CASE OpenReader
  BY <1>1, OpenLine
<1>2. CASE FillBuf
  BY <1>2, FillLine
<1>3. CASE EndOfFile
  BY <1>3, EndLine
<1>4. CASE Discard
  BY <1>4, DiscardLine
<1>5. CASE TakeLine
  BY <1>5, TakeToFeed, TakeAll
<1>6. CASE Feed
  <2>1. /\ reading = "wait" /\ UNCHANGED <<reading, text, hold, line, truncated, frames, paused>>
    BY <1>6 DEF Feed, lineVars
  <2>2. PICK n \in at..Len(text) : at' = n
    BY <1>6 DEF Feed
  <2>3. at \in 0..Len(text) /\ Len(text) \in Nat /\ Len(hold) \in Nat /\ Len(hold) <= at
    BY DEF LineInv, LineType
  <2>4. at' \in 0..Len(text) /\ Len(hold) <= at'
    BY <2>2, <2>3
  <2>5. LineType'
    BY <2>1, <2>4 DEF LineInv, LineType
  <2> QED  BY <2>1, <2>5 DEF LineInv
<1>7. CASE UNCHANGED textVars
  <2>1. UNCHANGED <<reading, text, at, hold, line, truncated, frames, paused>>
    BY <1>7 DEF textVars
  <2>2. Taken' = Taken /\ LineType'
    BY <2>1 DEF LineInv, LineType, Taken
  <2>3. \A b : (Current(b) => Current(b)') /\ (LettersKept(b) => LettersKept(b)')
    BY <2>1, <2>2 DEF Current, LettersKept, ShortLines
  <2>4. \A b : Plain(b) \/ Cut(b) \/ Flushed(b) => Plain(b)' \/ Cut(b)' \/ Flushed(b)'
    BY <2>1, <2>2 DEF Plain, Cut, Flushed
  <2> QED  BY <2>1, <2>2, <2>3, <2>4 DEF LineInv
<1> QED  BY <1>1, <1>2, <1>3, <1>4, <1>5, <1>6, <1>7 DEF TextNext

(* It holds before anything is opened. *)
LEMMA InitLine == TextInit => LineInv
<1> SUFFICES ASSUME TextInit PROVE LineInv
  OBVIOUS
<1>1. <<>> \in Seq(Char) /\ Len(<<>>) = 0 /\ <<>> \in Seq(Seq(Char)) /\ 0 \in 0..0 /\ 0 <= 0
  OBVIOUS
<1>2. Absent \in [present : BOOLEAN, head : Seq(Char)] /\ ~Absent.present
  BY <1>1 DEF Absent
<1>3. 0 <= MAX_LINE_LENGTH
  BY Limits
<1>4. LineType
  BY <1>1, <1>2, <1>3 DEF TextInit, LineType
<1> QED  BY <1>4 DEF TextInit, LineInv

(* What the invariant says of the lines delivered. *)
LEMMA LinesSeen == LineInv => LinesFaithful
<1> SUFFICES ASSUME LineInv, reading \in {"linux", "macos"}
    PROVE  LET done == SubSeq(text, 1, at - Len(hold))
               all  == AllLinesOf(text)
               pending == line # <<>> \/ truncated.present
           IN  IF ~paused
               THEN frames = IF done = text /\ ~pending THEN all ELSE LinesOf(done)
               ELSE (\A i \in DOMAIN all : Len(all[i]) < MAX_LINE_LENGTH)
                    => OnlyLetters(Flat(frames) \o line) = OnlyLetters(done)
  BY DEF LinesFaithful
<1> DEFINE D == Taken
           done == SubSeq(text, 1, D)
           pending == line # <<>> \/ truncated.present
<1>1. /\ text \in Seq(Char) /\ Len(text) \in Nat /\ D \in 0..Len(text) /\ D \in Nat
      /\ line \in Seq(Char)
  BY Place
<1>2. PICK b \in 0..D :
        /\ Current(b) /\ LettersKept(b)
        /\ ~paused => Plain(b) \/ Cut(b) \/ Flushed(b)
  BY DEF LineInv
<1>3. LineStart(text, b) /\ LineFree(text, b, D) /\ b \in Nat /\ b <= D
  BY <1>1, <1>2 DEF Current
<1>4. LinesOf(done) = LinesOf(SubSeq(text, 1, b))
  BY <1>1, <1>3, SameLines
<1>5. Len(done) = D
  <2>1. 0 \in 0..D /\ 0 + 1 = 1 /\ D - 0 = D
    BY <1>1
  <2>2. Len(SubSeq(text, 0 + 1, D)) = D - 0
    BY <1>1, <2>1, PieceType
  <2> QED  BY <2>1, <2>2
<1>6. done = text <=> D = Len(text)
  <2>1. D = Len(text) => done = text
    BY <1>1, SubSeqFull
  <2> QED  BY <1>5, <2>1
<1>7. ASSUME ~paused PROVE frames = IF done = text /\ ~pending THEN AllLinesOf(text)
                                    ELSE LinesOf(done)
  <2>1. CASE Plain(b)
    <3>1. frames = LinesOf(done) /\ line = SubSeq(text, b + 1, D)
      BY <1>4, <2>1 DEF Plain
    <3>2. ASSUME done = text, ~pending PROVE AllLinesOf(text) = LinesOf(done)
      <4>1. D = Len(text) /\ line = <<>>
        BY <1>6, <3>2
      <4>2. Len(line) = D - b
        BY <1>1, <3>1, PieceType
      <4>3. Len(<<>>) = 0
        OBVIOUS
      <4>4. b = Len(text)
        <5> HIDE DEF D
        <5> QED  BY <1>1, <1>3, <4>1, <4>2, <4>3
      <4> QED  BY <1>1, <1>3, <3>2, <4>4, AllLinesSame
    <3> QED  BY <3>1, <3>2
  <2>2. CASE Cut(b)
    BY <1>4, <2>2 DEF Cut
  <2>3. CASE Flushed(b)
    BY <1>6, <2>3 DEF Flushed
  <2> QED  BY <1>2, <1>7, <2>1, <2>2, <2>3
<1>8. ASSUME \A i \in DOMAIN AllLinesOf(text) : Len(AllLinesOf(text)[i]) < MAX_LINE_LENGTH
      PROVE  OnlyLetters(Flat(frames) \o line) = OnlyLetters(done)
  BY <1>2, <1>8 DEF LettersKept, ShortLines
<1> QED  BY <1>7, <1>8 DEF Taken

(* For any log and limit, and however the log is cut into pieces, the      *)
(* consumers see the lines of the log: read_line_limited delivers each     *)
(* line once, in order and whole, or by its head when it is over the       *)
(* limit; and no letter of a shorter line is lost where the macOS task     *)
(* meets the end of a file that is still growing.                          *)
THEOREM LinesAreFaithful == TextSpec => []LinesFaithful
BY InitLine, StepLine, LinesSeen, PTL DEF TextSpec

(* Nothing is read before a request is sent, and nothing after the reader  *)
(* has returned.                                                           *)
WireOrder ==
  /\ msg = NoMessage <=> wpc = "idle"
  /\ wpc = "idle" => /\ arrived = 0 /\ heads = 0 /\ taken = 0 /\ bodyBuf = <<>>
                     /\ data = <<>> /\ demux = NewDemuxer
                     /\ streams = [s \in 1..2 |-> <<>>]
  /\ outcome = "none" <=> wpc # "done"
  /\ msg # NoMessage =>
       /\ arrived <= WireLen /\ heads <= arrived /\ heads <= msg.interim + 1
       /\ wpc = "head" => heads <= msg.interim
       /\ wpc \in {"body", "demux"} => heads = msg.interim + 1
       /\ heads = msg.interim + 1 /\ wpc # "done" => msg.framing # "none"
       /\ taken <= Received
       /\ wpc = "demux" => msg.reader = "oneshot"

(* What body_buf may hold of n bytes. *)
Kept(n) == IF msg.limit = "Truncate" THEN Smaller(BodyMax, n) ELSE n

(* The body so far is what was consumed, cut by Truncate alone, and what   *)
(* was consumed is within the limits.                                      *)
BodySoFar ==
  msg # NoMessage /\ msg.reader = "response" =>
    /\ bodyBuf = SubSeq(msg.body, 1, Kept(taken))
    /\ msg.limit = "Error" => taken <= BodyMax
    /\ wpc # "done" => DecoderAccepts(taken)
    /\ wpc # "done" /\ heads = msg.interim + 1 /\ msg.framing = "length" =>
         DecoderAccepts(Len(msg.body))

(* The inductive invariant of a response. *)
WireInv == WireType /\ WireOrder /\ BodySoFar /\ ResponseWhole

(* What an exchange consists of. *)
LEMMA ExchangeType ==
  ASSUME NEW m \in Exchanges
  PROVE  /\ m.reader \in {"response", "oneshot"} /\ m.interim \in Nat
         /\ m.limit \in {"Unlimited", "Truncate", "Error"} /\ m.good \in BOOLEAN
         /\ m.framing \in {"none", "length", "chunked", "close"}
         /\ m.body \in Seq(Byte) /\ Len(m.body) \in Nat
         /\ m.framing = "none" => m.body = <<>>
         /\ m # NoMessage
<1>1. /\ m.reader \in {"response", "oneshot"} /\ m.interim \in 0..MaxInterim
      /\ m.limit \in {"Unlimited", "Truncate", "Error"} /\ m.good \in BOOLEAN
      /\ m.framing \in {"none", "length", "chunked", "close"}
      /\ m.body \in Bodies
      /\ m.framing = "none" => m.body = <<>>
  BY DEF Exchanges
<1>2. PICK n \in 0..MaxBody : m.body \in [1..n -> Byte]
  BY <1>1 DEF Bodies
<1>3. m.body \in Seq(Byte) /\ Len(m.body) \in Nat
  BY <1>2, WireAssumption
<1>4. m # NoMessage
  BY <1>1 DEF NoMessage
<1> QED  BY <1>1, <1>3, <1>4, WireAssumption

(* The body of an exchange is a sequence of numbers. *)
LEMMA BodyOfNumbers ==
  ASSUME NEW m \in Exchanges
  PROVE  m.body \in Seq(Nat)
<1> DEFINE b == m.body
<1>1. b \in Seq(Byte)
  BY ExchangeType
<1> HIDE DEF b
<1>2. b \in [1..Len(b) -> Byte] /\ Len(b) \in Nat
  BY <1>1
<1>3. b \in [1..Len(b) -> Nat]
  BY <1>2, WireAssumption
<1>4. b \in Seq(Nat)
  BY <1>2, <1>3
<1> QED  BY <1>4 DEF b

(* Received grows with what arrived and stays within the body. *)
LEMMA ReceivedBound ==
  ASSUME msg \in Exchanges, arrived \in Nat
  PROVE  /\ Received \in Nat /\ Received <= Len(msg.body)
         /\ Received > 0 => arrived > msg.interim + 1
         /\ Received < Len(msg.body) => arrived <= msg.interim + 1 + Received
         /\ WireLen \in Nat /\ msg.interim + 1 + Len(msg.body) <= WireLen
BY ExchangeType DEF Received, WireLen

(* More of the response has the earlier bytes too. *)
LEMMA ReceivedGrows ==
  ASSUME msg \in Exchanges, arrived \in Nat, arrived' \in Nat, arrived <= arrived',
         msg' = msg
  PROVE  Received <= Received' /\ WireLen' = WireLen
BY ExchangeType DEF Received, WireLen

(* A prefix and the slice after it are the longer prefix. *)
LEMMA PrefixGrows ==
  ASSUME NEW S, NEW b \in Seq(S), NEW m \in Nat, NEW n \in Nat,
         m <= n, n <= Len(b)
  PROVE  SubSeq(b, 1, m) \o SubSeq(b, m + 1, n) = SubSeq(b, 1, n)
OBVIOUS

(* A slice of a slice, by the places in the whole. *)
LEMMA SubSeqOfSlice ==
  ASSUME NEW S, NEW b \in Seq(S), NEW m \in Nat, NEW n \in Nat, NEW k \in Nat,
         m <= n, n <= Len(b), k <= n - m
  PROVE  /\ SubSeq(SubSeq(b, m + 1, n), 1, k) = SubSeq(b, m + 1, m + k)
         /\ Len(SubSeq(b, m + 1, n)) = n - m
         /\ Len(SubSeq(b, 1, m)) = m
OBVIOUS

(* Before a request everything is empty. *)
LEMMA InitWireInv == WireInit => WireInv
<1> SUFFICES ASSUME WireInit PROVE WireInv
  OBVIOUS
<1>1. WireType /\ WireOrder
  BY DEF WireInit, WireType, WireOrder, NoMessage
<1>2. BodySoFar /\ ResponseWhole
  <2>1. msg = NoMessage /\ outcome = "none"
    BY DEF WireInit
  <2> QED  BY <2>1 DEF BodySoFar, ResponseWhole
<1> QED  BY <1>1, <1>2 DEF WireInv

(* Types and order, action by action. *)
LEMMA StepOrder ==
  ASSUME WireType, WireOrder, [WireNext]_wireVars
  PROVE  WireType' /\ WireOrder'
<1> USE DEF WireType, WireOrder
<1>1. CASE SendRequest
  <2>1. msg' \in Exchanges /\ msg' # NoMessage
    BY <1>1, ExchangeType DEF SendRequest
  <2>2. /\ msg'.interim \in Nat /\ WireLen' \in Nat /\ Received' \in Nat
    BY <1>1, <2>1, ExchangeType DEF SendRequest, WireLen, Received
  <2> QED  BY <1>1, <2>1, <2>2 DEF SendRequest
<1>2. CASE ReadSocket
  <2>1. msg \in Exchanges /\ msg' = msg /\ msg.interim \in Nat /\ msg # NoMessage
    BY <1>2, ExchangeType DEF ReadSocket
  <2>2. /\ arrived' \in Nat /\ arrived <= arrived' /\ arrived' <= WireLen
    BY <1>2, <2>1, ReceivedBound DEF ReadSocket
  <2>3. Received <= Received' /\ WireLen' = WireLen
    BY <2>1, <2>2, ReceivedGrows
  <2>6. Received' \in Nat /\ Received \in Nat
    BY <2>1, <2>2, ExchangeType DEF Received
  <2>4. /\ heads' = heads /\ taken' = taken /\ eof' \in BOOLEAN /\ wpc = "read"
        /\ \/ wpc' = AfterRead /\ outcome' = outcome
           \/ wpc' = "done" /\ outcome' = "io"
    BY <1>2 DEF ReadSocket, Return
  <2>5. wpc' # "idle" /\ WireType'
    BY <2>1, <2>2, <2>4 DEF AfterRead
  <2> QED  BY <2>1, <2>2, <2>3, <2>4, <2>5, <2>6 DEF AfterRead
<1>3. CASE DecodeHeaders
  <2>1. msg \in Exchanges /\ msg' = msg /\ msg.interim \in Nat /\ msg # NoMessage
    BY <1>3, ExchangeType DEF DecodeHeaders
  <2>2. arrived' = arrived /\ Received' = Received /\ WireLen' = WireLen /\ taken' = taken
    BY <1>3, <2>1 DEF DecodeHeaders, Received, WireLen
  <2>3. /\ heads' \in {heads, heads + 1} /\ heads' <= arrived /\ wpc = "head" /\ eof' = eof
        /\ wpc' \in {"read", "head", "body", "done"}
        /\ outcome' = "none" <=> wpc' # "done"
        /\ wpc' = "head" => heads < msg.interim
        /\ wpc' = "body" => heads' = heads + 1 /\ ~(heads < msg.interim) /\ msg.framing # "none"
        /\ wpc' = "read" => heads' = heads
    BY <1>3, <2>1 DEF DecodeHeaders, Return, HeadArrived
  <2>4. outcome' \in {"none", "status", "ok", "too_large", "closed_in_head"}
    BY <1>3, <2>1 DEF DecodeHeaders, Return
  <2> QED  BY <2>1, <2>2, <2>3, <2>4
<1>4. CASE DrainBody \/ DrainOneshot
  <2>1. /\ msg \in Exchanges /\ msg' = msg /\ msg # NoMessage /\ wpc = "body"
        /\ arrived' = arrived /\ Received' = Received /\ WireLen' = WireLen
        /\ heads' = heads /\ eof' = eof
    BY <1>4 DEF DrainBody, DrainOneshot, Received, WireLen
  <2>2. Received \in Nat
    BY <2>1, ReceivedBound
  <2>3. taken' \in Nat /\ taken' <= Received
    BY <1>4, <2>2 DEF DrainBody, DrainOneshot
  <2>4. \/ wpc' \in {wpc, "demux"} /\ outcome' = outcome
        \/ wpc' = "done" /\ outcome' \in {"ok", "exceeds", "too_large"}
    <3>1. CASE DrainBody
      BY <3>1 DEF DrainBody, Return
    <3>2. CASE DrainOneshot
      BY <3>2 DEF DrainOneshot
    <3> QED  BY <1>4, <3>1, <3>2
  <2>5. wpc' = "demux" => msg.reader = "oneshot"
    <3>1. DrainBody => wpc' # "demux"
      BY <2>1 DEF DrainBody, Return
    <3> QED  BY <1>4, <3>1 DEF DrainOneshot
  <2> QED  BY <2>1, <2>2, <2>3, <2>4, <2>5
<1>5. CASE FeedReturns \/ OneshotReturns \/ SliceDone \/ TakeHeader \/ TakePayload
  <2>1. /\ msg \in Exchanges /\ msg' = msg /\ msg # NoMessage /\ wpc \in {"body", "demux"}
        /\ arrived' = arrived /\ Received' = Received /\ WireLen' = WireLen
        /\ heads' = heads /\ eof' = eof /\ taken' = taken
    BY <1>5
      DEF FeedReturns, OneshotReturns, SliceDone, TakeHeader, TakePayload,
          Received,
                WireLen
  <2>2. \/ wpc' \in {"body", "read", "demux"} /\ outcome' = outcome
        \/ wpc' = "done" /\ outcome' \in {"ok", "closed_in_body", "exceeds"}
    <3>1. CASE FeedReturns \/ OneshotReturns
      BY <3>1 DEF FeedReturns, OneshotReturns, Return
    <3>2. CASE SliceDone \/ TakeHeader
      BY <3>2 DEF SliceDone, TakeHeader
    <3>3. CASE TakePayload
      BY <3>3 DEF TakePayload, Return
    <3> QED  BY <1>5, <3>1, <3>2, <3>3
  <2>3. wpc' = "demux" => wpc = "demux"
    BY <1>5
      DEF FeedReturns, OneshotReturns, SliceDone, TakeHeader, TakePayload,
          Return
  <2> QED  BY <2>1, <2>2, <2>3
<1>6. CASE UNCHANGED wireVars
  BY <1>6 DEF wireVars, Received, WireLen
<1> QED  BY <1>1, <1>2, <1>3, <1>4, <1>5, <1>6 DEF WireNext

(* What the limits accept of a body they accept of a part of it. *)
LEMMA AcceptsLess ==
  ASSUME msg \in Exchanges, NEW m \in Nat, NEW n \in Nat, m <= n
  PROVE  DecoderAccepts(n) => DecoderAccepts(m)
BY WireAssumption, ExchangeType DEF DecoderAccepts

(* The slice that ends at n, the room body_buf has, and what it keeps.     *)
SliceTo(n) == SubSeq(msg.body, taken + 1, n)
Room == IF BodyMax > Len(bodyBuf) THEN BodyMax - Len(bodyBuf) ELSE 0
KeptOf(n) == IF msg.limit = "Truncate" /\ Len(SliceTo(n)) > Room
             THEN SubSeq(SliceTo(n), 1, Room) ELSE SliceTo(n)

(* body_buf after a slice. *)
LEMMA BodyAfterSlice ==
  ASSUME msg \in Exchanges, taken \in Nat, NEW n \in taken + 1 .. Len(msg.body),
         bodyBuf = SubSeq(msg.body, 1, Kept(taken))
  PROVE  /\ bodyBuf \o KeptOf(n) = SubSeq(msg.body, 1, Kept(n))
         /\ Len(SliceTo(n)) = n - taken
         /\ msg.limit # "Truncate" => Len(bodyBuf) = taken
<1> DEFINE b == msg.body
           room == Room
           slice == SliceTo(n)
           kept == KeptOf(n)
<1>0. /\ room = IF BodyMax > Len(bodyBuf) THEN BodyMax - Len(bodyBuf) ELSE 0
      /\ slice = SubSeq(msg.body, taken + 1, n)
      /\ kept = IF msg.limit = "Truncate" /\ Len(slice) > room
                THEN SubSeq(slice, 1, room) ELSE slice
  BY DEF Room, SliceTo, KeptOf
<1> HIDE DEF room, slice, kept
<1>1. b \in Seq(Byte) /\ Len(b) \in Nat /\ n \in Nat /\ taken < n /\ n <= Len(b)
  BY ExchangeType
<1>2. Len(slice) = n - taken
  BY <1>0, <1>1, SubSeqOfSlice
<1>3. Kept(taken) \in Nat /\ Kept(taken) <= taken /\ BodyMax \in Nat
  BY WireAssumption DEF Kept, Smaller
<1>4. Len(bodyBuf) = Kept(taken)
  BY <1>1, <1>3, SubSeqOfSlice
<1>5. CASE msg.limit # "Truncate"
  <2>1. Kept(taken) = taken /\ Kept(n) = n /\ kept = slice
    BY <1>0, <1>5 DEF Kept
  <2> HIDE DEF b
  <2>2. SubSeq(b, 1, taken) \o SubSeq(b, taken + 1, n) = SubSeq(b, 1, n)
    BY <1>1, PrefixGrows
  <2> QED  BY <1>0, <1>2, <1>4, <2>1, <2>2 DEF b, slice, kept
<1>6. CASE msg.limit = "Truncate" /\ BodyMax <= taken
  <2>1. Kept(taken) = BodyMax /\ Kept(n) = BodyMax /\ room = 0
    BY <1>0, <1>1, <1>3, <1>4, <1>6 DEF Kept, Smaller
  <2>2. kept = <<>>
    <3>1. slice \in Seq(Byte) /\ Len(slice) > 0
      BY <1>0, <1>1, <1>2
    <3>2. SubSeq(slice, 1, 0) = <<>>
      BY <3>1
    <3> QED  BY <1>0, <1>6, <2>1, <3>1, <3>2
  <2>3. SubSeq(b, 1, BodyMax) \in Seq(Byte)
    BY <1>1, <1>3, <1>6
  <2> QED  BY <1>2, <1>6, <2>1, <2>2, <2>3 DEF slice, kept
<1>7. CASE msg.limit = "Truncate" /\ taken < BodyMax /\ n <= BodyMax
  <2>1. Kept(taken) = taken /\ Kept(n) = n /\ room = BodyMax - taken
    BY <1>0, <1>1, <1>3, <1>4, <1>7 DEF Kept, Smaller
  <2>2. kept = slice
    BY <1>0, <1>1, <1>2, <1>3, <1>7, <2>1
  <2> HIDE DEF b
  <2>3. SubSeq(b, 1, taken) \o SubSeq(b, taken + 1, n) = SubSeq(b, 1, n)
    BY <1>1, PrefixGrows
  <2> QED  BY <1>0, <1>2, <1>7, <2>1, <2>2, <2>3 DEF b, slice, kept
<1>8. CASE msg.limit = "Truncate" /\ taken < BodyMax /\ BodyMax < n
  <2>1. Kept(taken) = taken /\ Kept(n) = BodyMax /\ room = BodyMax - taken
    BY <1>0, <1>1, <1>3, <1>4, <1>8 DEF Kept, Smaller
  <2>2. kept = SubSeq(slice, 1, BodyMax - taken)
    BY <1>0, <1>1, <1>2, <1>3, <1>8, <2>1
  <2> HIDE DEF b
  <2> DEFINE k == BodyMax - taken
  <2>3. /\ k \in Nat /\ k <= n - taken /\ taken + k = BodyMax /\ BodyMax \in Nat
        /\ taken <= BodyMax /\ BodyMax <= Len(b)
    BY <1>1, <1>3, <1>8
  <2>4. kept = SubSeq(b, taken + 1, BodyMax)
    <3> HIDE DEF k
    <3>1. SubSeq(SubSeq(b, taken + 1, n), 1, k) = SubSeq(b, taken + 1, taken + k)
      BY <1>1, <2>3, SubSeqOfSlice
    <3> QED  BY <1>0, <2>2, <2>3, <3>1 DEF k, b
  <2>5. SubSeq(b, 1, taken) \o SubSeq(b, taken + 1, BodyMax) = SubSeq(b, 1, BodyMax)
    BY <1>1, <2>3, PrefixGrows
  <2> QED  BY <1>0, <1>2, <1>8, <2>1, <2>4, <2>5 DEF b, slice, kept
<1>9. BodyMax <= taken \/ (taken < BodyMax /\ n <= BodyMax) \/ (taken < BodyMax /\ BodyMax < n)
  BY <1>1, <1>3
<1> QED  BY <1>5, <1>6, <1>7, <1>8, <1>9, Zenon DEF slice, kept

(* Every step of a response keeps the body and reports it whole. *)
LEMMA StepBody ==
  ASSUME WireInv, WireType', WireOrder', [WireNext]_wireVars
  PROVE  BodySoFar' /\ ResponseWhole'
<1> USE DEF WireInv
<1>1. CASE SendRequest
  <2>1. /\ msg' \in Exchanges /\ outcome' = "none" /\ wpc' = "read" /\ taken' = 0
        /\ bodyBuf' = <<>> /\ heads' = 0
    BY <1>1 DEF SendRequest, WireOrder
  <2>2. msg'.body \in Seq(Byte) /\ msg'.interim \in Nat
    BY <2>1, ExchangeType
  <2>3. Kept(0)' = 0 /\ DecoderAccepts(0)' /\ SubSeq(msg'.body, 1, 0) = <<>>
    BY <2>1, <2>2, WireAssumption, ExchangeType
      DEF Kept, Smaller, DecoderAccepts
  <2> QED
    BY <2>1, <2>2, <2>3, WireAssumption DEF BodySoFar, ResponseWhole, Kept
<1>2. CASE UNCHANGED wireVars
  BY <1>2
    DEF wireVars, BodySoFar, ResponseWhole, Kept, DecoderAccepts, Received,
        WireLen
<1>3. SUFFICES ASSUME msg \in Exchanges, msg' = msg, msg.reader = "response",
                      ~SendRequest, ~UNCHANGED wireVars
               PROVE  BodySoFar' /\ ResponseWhole'
  <2>1. wpc = "idle" => SendRequest \/ UNCHANGED wireVars
    BY DEF WireNext, ReadSocket, DecodeHeaders, DrainBody, FeedReturns,
           DrainOneshot,
           OneshotReturns, TakeHeader, TakePayload, SliceDone
  <2>2. ~SendRequest => msg' = msg
    BY DEF WireNext, ReadSocket, DecodeHeaders, DrainBody, FeedReturns,
           DrainOneshot,
           OneshotReturns, TakeHeader, TakePayload, SliceDone, wireVars
  <2>3. msg = msg' /\ msg.reader # "response" => BodySoFar' /\ ResponseWhole'
    BY DEF BodySoFar, ResponseWhole
  <2> QED  BY <1>1, <1>2, <2>1, <2>2, <2>3 DEF WireOrder, WireType
<1> DEFINE got == SubSeq(msg.body, 1, Received)
<1>4. /\ msg.interim \in Nat /\ msg.body \in Seq(Byte) /\ Len(msg.body) \in Nat
      /\ msg # NoMessage /\ Received \in Nat /\ Received <= Len(msg.body)
  BY <1>3, ExchangeType, ReceivedBound DEF WireType
<1>5. CASE ReadSocket
  <2>1. /\ heads' = heads /\ taken' = taken /\ bodyBuf' = bodyBuf /\ wpc # "done"
        /\ outcome' \in {"none", "io"}
    BY <1>5 DEF ReadSocket, Return, WireOrder
  <2>2. BodySoFar'
    BY <1>3, <1>4, <2>1 DEF BodySoFar, Kept, DecoderAccepts
  <2>3. ResponseWhole'
    BY <2>1 DEF ResponseWhole
  <2> QED  BY <2>2, <2>3
<1>6. CASE DecodeHeaders
  <2>1. /\ taken' = taken /\ bodyBuf' = bodyBuf /\ wpc = "head" /\ arrived' = arrived
        /\ eof' = eof /\ heads <= msg.interim /\ Received' = Received
    BY <1>3, <1>4, <1>6 DEF DecodeHeaders, WireOrder, Received
  <2>2. BodySoFar'
    <3>1. wpc' # "done" /\ heads' = msg.interim + 1 /\ msg.framing = "length" =>
            DecoderAccepts(Len(msg.body))
      BY <1>3, <1>4, <1>6, <2>1 DEF DecodeHeaders, Return, WireType
    <3> QED  BY <1>3, <1>4, <2>1, <3>1 DEF BodySoFar, Kept, DecoderAccepts
  <2>3. outcome' = "ok" => ResponseWhole'
    <3> SUFFICES ASSUME outcome' = "ok" PROVE ResponseWhole'
      OBVIOUS
    <3>1. msg.framing = "none" /\ heads' = msg.interim + 1
      <4>1. outcome = "none"
        BY <2>1 DEF WireOrder
      <4>2. heads' = heads + 1 /\ ~(heads < msg.interim) /\ msg.framing = "none"
        BY <1>3, <1>6, <4>1 DEF DecodeHeaders, Return
      <4> QED  BY <1>4, <2>1, <4>2 DEF WireType
    <3>2. msg.body = <<>>
      BY <1>3, <3>1, ExchangeType
    <3>3. Received = 0 /\ taken = 0 /\ got = msg.body
      BY <1>3, <1>4, <3>2 DEF WireOrder, WireType
    <3>4. DecoderAccepts(0)' /\ Kept(0) = 0 /\ Len(<<>>) = 0
      BY <1>3, WireAssumption, ExchangeType DEF DecoderAccepts, Kept, Smaller
    <3>5. bodyBuf' = <<>>
      BY <1>3, <1>4, <2>1, <3>2, <3>3, <3>4 DEF BodySoFar
    <3>6. Smaller(BodyMax, 0) = 0
      BY WireAssumption DEF Smaller
    <3> QED
      BY <1>3, <2>1, <3>1, <3>2, <3>3, <3>4, <3>5, <3>6 DEF ResponseWhole
  <2>4. outcome' = "too_large" => ResponseWhole'
    BY <1>3, <1>6 DEF ResponseWhole, DecodeHeaders, Return, DecoderAccepts
  <2>5. outcome' = "closed_in_head" => ResponseWhole'
    <3>1. outcome' = "closed_in_head" => eof /\ arrived <= heads
      BY <1>3, <1>4, <1>6
        DEF DecodeHeaders, Return, WireOrder, HeadArrived, WireType
    <3>2. outcome' = "closed_in_head" => eof' /\ arrived' <= msg.interim
      BY <1>4, <2>1, <3>1 DEF WireType
    <3> QED  BY <1>3, <3>2 DEF ResponseWhole
  <2>6. outcome' \in {"none", "ok", "too_large", "closed_in_head"}
    <3>1. msg.good
      BY <1>3 DEF Exchanges
    <3> QED  BY <1>3, <1>6, <3>1 DEF DecodeHeaders, Return, WireOrder
  <2>7. outcome' = "none" => ResponseWhole'
    BY DEF ResponseWhole
  <2> QED  BY <2>2, <2>3, <2>4, <2>5, <2>6, <2>7
<1>7. CASE DrainBody
  <2>1. /\ wpc = "body" /\ arrived' = arrived /\ eof' = eof /\ heads' = heads
        /\ Received' = Received /\ taken \in Nat /\ WireLen' = WireLen
        /\ heads = msg.interim + 1
    BY <1>3, <1>4, <1>7 DEF DrainBody, WireOrder, Received, WireLen, WireType
  <2>2. PICK n \in taken + 1 .. Received :
          IF msg.limit = "Error" /\ Len(bodyBuf) + Len(SliceTo(n)) > BodyMax
          THEN Return("exceeds") /\ UNCHANGED <<taken, bodyBuf>>
          ELSE /\ bodyBuf' = bodyBuf \o KeptOf(n) /\ taken' = n
               /\ IF ~DecoderAccepts(n) THEN Return("too_large")
                  ELSE IF msg.framing = "length" /\ Complete(n) THEN Return("ok")
                  ELSE UNCHANGED <<wpc, outcome>>
    BY <1>7 DEF DrainBody, SliceTo, Room, KeptOf
  <2>3. n \in taken + 1 .. Len(msg.body) /\ n \in Nat
    BY <1>4, <2>1, <2>2
  <2>4. bodyBuf = SubSeq(msg.body, 1, Kept(taken))
    BY <1>3, <1>4 DEF BodySoFar
  <2>5. /\ bodyBuf \o KeptOf(n) = SubSeq(msg.body, 1, Kept(n))
        /\ Len(SliceTo(n)) = n - taken
        /\ msg.limit # "Truncate" => Len(bodyBuf) = taken
    BY <1>3, <2>1, <2>3, <2>4, BodyAfterSlice
  <2>6. BodyMax \in Nat
    BY WireAssumption
  <2>7. CASE msg.limit = "Error" /\ Len(bodyBuf) + Len(SliceTo(n)) > BodyMax
    <3>1. /\ wpc' = "done" /\ outcome' = "exceeds" /\ taken' = taken /\ bodyBuf' = bodyBuf
      BY <2>2, <2>7 DEF Return
    <3>2. n > BodyMax
      BY <2>1, <2>3, <2>5, <2>6, <2>7
    <3>3. ResponseWhole'
      BY <1>3, <1>4, <2>3, <2>6, <2>7, <3>1, <3>2 DEF ResponseWhole
    <3>4. BodySoFar'
      BY <1>3, <1>4, <3>1 DEF BodySoFar, Kept
    <3> QED  BY <3>3, <3>4
  <2>8. CASE ~(msg.limit = "Error" /\ Len(bodyBuf) + Len(SliceTo(n)) > BodyMax)
    <3>1. /\ bodyBuf' = bodyBuf \o KeptOf(n) /\ taken' = n
          /\ IF ~DecoderAccepts(n) THEN Return("too_large")
             ELSE IF msg.framing = "length" /\ Complete(n) THEN Return("ok")
             ELSE UNCHANGED <<wpc, outcome>>
      BY <2>2, <2>8
    <3>2. bodyBuf' = SubSeq(msg.body, 1, Kept(n))
      BY <2>5, <3>1
    <3>3. msg.limit = "Error" => n <= BodyMax
      BY <2>1, <2>3, <2>5, <2>6, <2>8
    <3>4. wpc' # "done" => DecoderAccepts(n)
      BY <3>1 DEF Return
    <3>5. BodySoFar'
      BY <1>3, <1>4, <2>1, <3>1, <3>2, <3>3, <3>4
        DEF BodySoFar, Kept, DecoderAccepts
    <3>6. CASE ~DecoderAccepts(n)
      <4>1. outcome' = "too_large"
        BY <3>1, <3>6 DEF Return
      <4>2. ~DecoderAccepts(Len(msg.body))
        BY <1>3, <1>4, <2>3, <3>6, AcceptsLess
      <4> QED  BY <1>3, <3>5, <4>1, <4>2 DEF ResponseWhole, DecoderAccepts
    <3>7. CASE DecoderAccepts(n) /\ msg.framing = "length" /\ Complete(n)
      <4>1. outcome' = "ok"
        BY <3>1, <3>7 DEF Return
      <4>2. n = Len(msg.body) /\ Received = n
        BY <1>4, <2>2, <2>3, <3>7 DEF Complete
      <4>3. got = msg.body
        BY <1>4, <4>2
      <4>4. DecoderAccepts(n)' /\ Kept(n)' = Kept(n)
        BY <1>3, <3>7 DEF DecoderAccepts, Kept
      <4>5. SubSeq(msg.body, 1, Kept(n)) = IF msg.limit = "Truncate"
                    THEN SubSeq(got, 1, Smaller(BodyMax, Len(got))) ELSE got
        BY <4>2, <4>3 DEF Kept
      <4> QED
        BY <1>3, <2>1, <3>2, <3>5, <4>1, <4>2, <4>3, <4>4, <4>5
          DEF ResponseWhole
    <3>8. CASE DecoderAccepts(n) /\ ~(msg.framing = "length" /\ Complete(n))
      <4>1. outcome' = "none"
        BY <2>1, <3>1, <3>8 DEF WireOrder
      <4> QED  BY <3>5, <4>1 DEF ResponseWhole
    <3> QED  BY <3>6, <3>7, <3>8
  <2> QED  BY <2>7, <2>8
<1>8. CASE FeedReturns
  <2>1. /\ wpc = "body" /\ arrived' = arrived /\ eof' = eof /\ heads' = heads
        /\ Received' = Received /\ taken \in Nat /\ WireLen' = WireLen
        /\ heads = msg.interim + 1 /\ taken' = taken /\ taken = Received
        /\ bodyBuf' = bodyBuf
    BY <1>3, <1>4, <1>8 DEF FeedReturns, WireOrder, Received, WireLen, WireType
  <2>2. DecoderAccepts(taken) /\ bodyBuf = SubSeq(msg.body, 1, Kept(taken))
    BY <1>3, <1>4, <2>1 DEF BodySoFar
  <2>3. BodySoFar'
    BY <1>3, <1>4, <2>1 DEF BodySoFar, Kept, DecoderAccepts
  <2>4. CASE Complete(taken)
    <3>1. outcome' = "ok"
      BY <1>8, <2>4 DEF FeedReturns, Return
    <3>2. msg.framing = "close" \/ taken = Len(msg.body)
      <4>1. msg.framing # "none"
        BY <1>4, <2>1 DEF WireOrder
      <4> QED  BY <1>3, <2>4, <4>1, ExchangeType DEF Complete
    <3>3. Len(got) = taken /\ got \in Seq(Byte)
      BY <1>4, <2>1
    <3>4. taken = Len(msg.body) => got = msg.body
      BY <1>4, <2>1
    <3>5. DecoderAccepts(taken)'
      BY <1>3, <2>1, <2>2 DEF DecoderAccepts
    <3>6. bodyBuf = IF msg.limit = "Truncate"
                    THEN SubSeq(got, 1, Smaller(BodyMax, Len(got))) ELSE got
      <4>1. CASE msg.limit = "Truncate"
        <5> DEFINE k == Smaller(BodyMax, taken)
        <5>1. k \in Nat /\ k <= taken
          BY <2>1, WireAssumption DEF Smaller
        <5>2. SubSeq(SubSeq(msg.body, 1, taken), 1, k) = SubSeq(msg.body, 1, k)
          <6> HIDE DEF k
          <6> QED  BY <1>4, <2>1, <5>1
        <5> QED  BY <2>1, <2>2, <3>3, <4>1, <5>2 DEF Kept
      <4>2. CASE msg.limit # "Truncate"
        BY <2>1, <2>2, <4>2 DEF Kept
      <4> QED  BY <4>1, <4>2
    <3> QED
      BY <1>3, <2>1, <2>3, <3>1, <3>2, <3>3, <3>4, <3>5, <3>6 DEF ResponseWhole
  <2>5. CASE ~Complete(taken) /\ eof
    <3>1. outcome' = "closed_in_body"
      BY <1>8, <2>5 DEF FeedReturns, Return
    <3>2. msg.framing # "close"
      BY <2>1, <2>5 DEF Complete
    <3>3. arrived # WireLen
      <4>1. CASE msg.framing = "length"
        <5>1. Received < Len(msg.body)
          BY <1>4, <2>1, <2>5, <4>1 DEF Complete
        <5> QED  BY <1>3, <1>4, <5>1, ReceivedBound DEF WireType
      <4>2. CASE msg.framing = "chunked"
        <5>1. arrived # WireLen \/ Received < Len(msg.body)
          BY <1>4, <2>1, <2>5, <4>2 DEF Complete
        <5> QED  BY <1>3, <1>4, <5>1, ReceivedBound DEF WireType
      <4>3. msg.framing # "none"
        BY <1>4, <2>1 DEF WireOrder
      <4> QED  BY <1>3, <3>2, <4>1, <4>2, <4>3, ExchangeType
    <3>4. arrived < WireLen
      BY <1>3, <1>4, <3>3, ReceivedBound DEF WireType, WireOrder
    <3> QED  BY <1>3, <2>1, <2>3, <2>5, <3>1, <3>2, <3>4 DEF ResponseWhole
  <2>6. CASE ~Complete(taken) /\ ~eof
    <3>1. outcome' = "none"
      BY <1>8, <2>1, <2>6 DEF FeedReturns, WireOrder
    <3> QED  BY <2>3, <3>1 DEF ResponseWhole
  <2> QED  BY <2>4, <2>5, <2>6
<1>9. ~DrainOneshot /\ ~OneshotReturns /\ ~TakeHeader /\ ~TakePayload /\ ~SliceDone
  BY <1>3, <1>4
    DEF DrainOneshot, OneshotReturns, TakeHeader, TakePayload, SliceDone,
        WireOrder
<1> QED  BY <1>3, <1>5, <1>6, <1>7, <1>8, <1>9 DEF WireNext

(* However a response arrives, and wherever its connection ends, the       *)
(* reader of http1.rs returns the body it announces, cut by Truncate       *)
(* alone, or an error that says what is missing. For any body and any      *)
(* limits.                                                                 *)
THEOREM ResponseIsWhole == WireSpec => []ResponseWhole
<1>1. WireInit => WireInv
  BY InitWireInv
<1>2. WireInv /\ [WireNext]_wireVars => WireInv'
  BY StepOrder, StepBody DEF WireInv
<1>3. WireInv => ResponseWhole
  BY DEF WireInv
<1> QED  BY <1>1, <1>2, <1>3, PTL DEF WireSpec

-----------------------------------------------------------------------------
(* What the frame at pos gives, with g for the frames after it. *)
FrameEnd(b, pos) == Smaller(pos + HEADER_LEN + b[pos + 2], Len(b))
Turn(b, g, pos) ==
  IF pos + HEADER_LEN > Len(b) THEN [s \in 1..2 |-> <<>>]
  ELSE [s \in 1..2 |->
          IF b[pos + 1] = s
          THEN SubSeq(b, pos + HEADER_LEN + 1, FrameEnd(b, pos)) \o g[FrameEnd(b, pos)][s]
          ELSE g[FrameEnd(b, pos)][s]]

(* A frame ends behind its header and within the body. *)
LEMMA FrameEndBounds ==
  ASSUME NEW b \in Seq(Nat), NEW pos \in 0..Len(b), pos + HEADER_LEN <= Len(b)
  PROVE  /\ FrameEnd(b, pos) \in pos + HEADER_LEN .. Len(b)
         /\ FrameEnd(b, pos) \in pos + 1 .. Len(b)
         /\ b[pos + 1] \in Nat /\ b[pos + 2] \in Nat
<1>1. b[pos + 1] \in Nat /\ b[pos + 2] \in Nat /\ Len(b) \in Nat
  BY DEF HEADER_LEN
<1> QED  BY <1>1 DEF FrameEnd, Smaller, HEADER_LEN

(* The turns can be solved from the last byte down. *)
LEMMA DemuxExists ==
  ASSUME NEW b \in Seq(Nat)
  PROVE  \E g : g = [pos \in 0..Len(b) |-> Turn(b, g, pos)]
<1> DEFINE m == Len(b)
           S == {x \in 0..m : \E g : g = [pos \in x..m |-> Turn(b, g, pos)]}
<1>1. m \in Nat
  OBVIOUS
<1>2. ASSUME NEW x \in 0..m, \A y \in x + 1 .. m : y \in S
      PROVE  x \in S
  <2>1. PICK h : h = [pos \in x + 1 .. m |-> Turn(b, h, pos)]
    <3>1. CASE x = m
      <4>1. [z \in {} |-> 0] = [pos \in x + 1 .. m |-> Turn(b, [z \in {} |-> 0], pos)]
        BY <3>1, <1>1
      <4> QED  BY <4>1
    <3>2. CASE x # m
      <4>1. x + 1 \in x + 1 .. m
        BY <1>1, <3>2
      <4> QED  BY <1>2, <4>1
    <3> QED  BY <3>1, <3>2
  <2> DEFINE g == [pos \in x .. m |-> IF pos = x THEN Turn(b, h, x) ELSE h[pos]]
  <2>2. ASSUME NEW pos \in x..m PROVE Turn(b, g, pos) = Turn(b, h, pos)
    <3>1. CASE pos + HEADER_LEN > Len(b)
      BY <3>1 DEF Turn
    <3>2. CASE ~(pos + HEADER_LEN > Len(b))
      <4>1. pos \in 0..Len(b) /\ pos + HEADER_LEN <= Len(b)
        BY <1>1, <3>2 DEF HEADER_LEN
      <4>2. FrameEnd(b, pos) \in pos + 1 .. Len(b)
        BY <4>1, FrameEndBounds
      <4>3. FrameEnd(b, pos) \in x .. m /\ FrameEnd(b, pos) # x
        BY <4>2
      <4>4. g[FrameEnd(b, pos)] = h[FrameEnd(b, pos)]
        BY <4>3
      <4> HIDE DEF g
      <4> QED  BY <4>4 DEF Turn
    <3> QED  BY <3>1, <3>2
  <2>3. ASSUME NEW pos \in x..m PROVE g[pos] = Turn(b, g, pos)
    <3>1. CASE pos = x
      BY <2>2, <3>1
    <3>2. CASE pos # x
      <4>1. pos \in x + 1 .. m
        BY <1>1, <3>2
      <4>2. h[pos] = Turn(b, h, pos)
        BY <2>1, <4>1
      <4>3. g[pos] = h[pos]
        BY <3>2
      <4> HIDE DEF g
      <4> QED  BY <2>2, <4>2, <4>3
    <3> QED  BY <3>1, <3>2
  <2>4. g = [pos \in x..m |-> g[pos]]
    OBVIOUS
  <2>5. g = [pos \in x..m |-> Turn(b, g, pos)]
    <3> HIDE DEF g
    <3> QED  BY <2>3, <2>4
  <2> HIDE DEF g
  <2> QED  BY <2>5
<1>3. 0..m \subseteq S
  <2> HIDE DEF S, m
  <2> QED  BY <1>1, <1>2, Downwards
<1>4. 0 \in S
  BY <1>1, <1>3
<1> QED  BY <1>4

(* demux_exec_stream, frame by frame, and its type. *)
LEMMA DemuxUnfolds ==
  ASSUME NEW b \in Seq(Nat)
  PROVE  DemuxFrom(b) = [pos \in 0..Len(b) |-> Turn(b, DemuxFrom(b), pos)]
BY DemuxExists DEF DemuxFrom, Turn, FrameEnd

(* demux_exec_stream gives two sequences of bytes. *)
LEMMA DemuxType ==
  ASSUME NEW b \in Seq(Nat)
  PROVE  \A pos \in 0..Len(b) : DemuxFrom(b)[pos] \in [1..2 -> Seq(Nat)]
<1> DEFINE m == Len(b)
           D == DemuxFrom(b)
           S == {x \in 0..m : D[x] \in [1..2 -> Seq(Nat)]}
<1>1. m \in Nat
  OBVIOUS
<1>2. ASSUME NEW x \in 0..m, \A y \in x + 1 .. m : y \in S
      PROVE  x \in S
  <2>1. D[x] = Turn(b, D, x)
    BY DemuxUnfolds
  <2>2. CASE x + HEADER_LEN > Len(b)
    <3>1. D[x] = [s \in 1..2 |-> <<>>]
      BY <2>1, <2>2 DEF Turn
    <3>2. <<>> \in Seq(Nat)
      OBVIOUS
    <3> HIDE DEF D
    <3> QED  BY <3>1, <3>2
  <2>3. CASE ~(x + HEADER_LEN > Len(b))
    <3>1. x + HEADER_LEN <= Len(b)
      BY <1>1, <2>3 DEF HEADER_LEN
    <3>2. FrameEnd(b, x) \in x + 1 .. m /\ FrameEnd(b, x) \in Nat
      BY <3>1, FrameEndBounds
    <3>3. D[FrameEnd(b, x)] \in [1..2 -> Seq(Nat)]
      BY <1>2, <3>2
    <3>4. SubSeq(b, x + HEADER_LEN + 1, FrameEnd(b, x)) \in Seq(Nat)
      BY <1>1, <3>1, <3>2 DEF HEADER_LEN
    <3> HIDE DEF D
    <3>5. Turn(b, D, x) \in [1..2 -> Seq(Nat)]
      BY <2>3, <3>3, <3>4 DEF Turn
    <3> QED  BY <2>1, <3>5
  <2> QED  BY <2>2, <2>3
<1>3. 0..m \subseteq S
  <2> HIDE DEF S, m
  <2> QED  BY <1>1, <1>2, Downwards
<1> QED  BY <1>3

(* What demux_exec_stream makes of the first m bytes of a body. *)
Whole(body, m) == DemuxFrom(SubSeq(body, 1, m))

(* A slice of a prefix is one of the whole. *)
LEMMA SliceOfPrefix ==
  ASSUME NEW S, NEW b \in Seq(S), NEW m \in 0..Len(b), NEW i \in Nat, i # 0,
         NEW e \in Nat, e <= m
  PROVE  SubSeq(SubSeq(b, 1, m), i, e) = SubSeq(b, i, e)
<1> DEFINE c == SubSeq(b, 1, m)
<1>1. c \in Seq(S) /\ Len(c) = m /\ \A j \in 1..m : c[j] = b[j]
  OBVIOUS
<1>2. /\ SubSeq(c, i, e) = [j \in 1 .. e - i + 1 |-> c[i + j - 1]]
      /\ SubSeq(b, i, e) = [j \in 1 .. e - i + 1 |-> b[i + j - 1]]
  <2> HIDE DEF c
  <2> QED  BY <1>1
<1>3. ASSUME NEW j \in 1 .. e - i + 1 PROVE c[i + j - 1] = b[i + j - 1]
  <2>1. i + j - 1 \in 1..m
    OBVIOUS
  <2> QED  BY <1>1, <2>1
<1> HIDE DEF c
<1>4. SubSeq(c, i, e) = SubSeq(b, i, e)
  BY <1>2, <1>3, Zenon
<1> QED  BY <1>4 DEF c

(* One turn of demux_exec_stream on the first m bytes, by the places in    *)
(* the body.                                                               *)
LEMMA WholeUnfolds ==
  ASSUME NEW body \in Seq(Nat), NEW m \in 0..Len(body), NEW p \in 0..m, NEW s \in 1..2
  PROVE  /\ p + HEADER_LEN > m => Whole(body, m)[p][s] = <<>>
         /\ p + HEADER_LEN <= m =>
              LET e == Smaller(p + HEADER_LEN + body[p + 2], m)
              IN  /\ e \in p + HEADER_LEN .. m
                  /\ Whole(body, m)[p][s] =
                       IF body[p + 1] = s
                       THEN SubSeq(body, p + HEADER_LEN + 1, e) \o Whole(body, m)[e][s]
                       ELSE Whole(body, m)[e][s]
<1> DEFINE b == SubSeq(body, 1, m)
<1>1. /\ b \in Seq(Nat) /\ Len(b) = m /\ Len(body) \in Nat /\ m \in Nat /\ p \in Nat
      /\ \A i \in 1..m : b[i] = body[i]
  OBVIOUS
<1>2. DemuxFrom(b)[p] = Turn(b, DemuxFrom(b), p)
  <2> HIDE DEF b
  <2> QED  BY <1>1, DemuxUnfolds
<1>3. ASSUME p + HEADER_LEN > m PROVE Whole(body, m)[p][s] = <<>>
  BY <1>1, <1>2, <1>3 DEF Whole, Turn
<1>4. ASSUME p + HEADER_LEN <= m
      PROVE  LET e == Smaller(p + HEADER_LEN + body[p + 2], m)
              IN  /\ e \in p + HEADER_LEN .. m
                  /\ Whole(body, m)[p][s] =
                       IF body[p + 1] = s
                       THEN SubSeq(body, p + HEADER_LEN + 1, e) \o Whole(body, m)[e][s]
                       ELSE Whole(body, m)[e][s]
  <2> DEFINE e == Smaller(p + HEADER_LEN + body[p + 2], m)
  <2>1. p + 1 \in 1..m /\ p + 2 \in 1..m
    BY <1>1, <1>4 DEF HEADER_LEN
  <2>2. b[p + 1] = body[p + 1] /\ b[p + 2] = body[p + 2]
    BY <1>1, <2>1
  <2>3. FrameEnd(b, p) = e
    BY <1>1, <2>2 DEF FrameEnd
  <2>4. e \in p + HEADER_LEN .. m
    <3> HIDE DEF e, b
    <3> QED  BY <1>1, <1>4, <2>3, FrameEndBounds
  <2>5. SubSeq(b, p + HEADER_LEN + 1, e) = SubSeq(body, p + HEADER_LEN + 1, e)
    <3> HIDE DEF e
    <3>1. e \in Nat /\ e <= m /\ m <= Len(body) /\ p + HEADER_LEN + 1 \in Nat \ {0}
      BY <1>1, <2>4 DEF HEADER_LEN
    <3> QED  BY <1>1, <3>1, SliceOfPrefix
  <2>6. ~(p + HEADER_LEN > Len(b))
    BY <1>1, <1>4 DEF HEADER_LEN
  <2> HIDE DEF e, b
  <2>7. DemuxFrom(b)[p][s] = IF body[p + 1] = s
                       THEN SubSeq(body, p + HEADER_LEN + 1, e) \o DemuxFrom(b)[e][s]
                       ELSE DemuxFrom(b)[e][s]
    BY <1>2, <2>2, <2>3, <2>5, <2>6 DEF Turn
  <2> QED  BY <2>4, <2>7 DEF Whole, b, e
<1>5. p + HEADER_LEN > m \/ p + HEADER_LEN <= m
  BY <1>1 DEF HEADER_LEN
<1> QED  BY <1>3, <1>4

(* Its type. *)
LEMMA WholeType ==
  ASSUME NEW body \in Seq(Nat), NEW m \in 0..Len(body), NEW p \in 0..m, NEW s \in 1..2
  PROVE  Whole(body, m)[p][s] \in Seq(Nat)
<1>1. SubSeq(body, 1, m) \in Seq(Nat) /\ Len(SubSeq(body, 1, m)) = m
  OBVIOUS
<1> QED  BY <1>1, DemuxType DEF Whole

(* How far the demultiplexer is in the body. *)
At == taken - Len(data)

(* What the first m bytes still have to give to stream s. *)
Owed(m, s) ==
  IF demux.in_payload
  THEN LET e == Smaller(At + demux.payload_remaining, m)
       IN  IF demux.stream_type = s
           THEN SubSeq(msg.body, At + 1, e) \o Whole(msg.body, m)[e][s]
           ELSE Whole(msg.body, m)[e][s]
  ELSE Whole(msg.body, m)[At - Len(demux.header)][s]

(* The types; data is the part of the body that is not demultiplexed yet. *)
DemuxTypes ==
  /\ demux \in [in_payload : BOOLEAN, header : Seq(Nat), stream_type : Nat,
                payload_remaining : Nat]
  /\ streams \in [1..2 -> Seq(Nat)] /\ \A s \in 1..2 : Len(streams[s]) <= StrictMax
  /\ data \in Seq(Nat) /\ Len(data) <= taken /\ data = SubSeq(msg.body, At + 1, taken)
  /\ demux.in_payload => demux.payload_remaining > 0
  /\ ~demux.in_payload =>
       /\ Len(demux.header) < HEADER_LEN /\ Len(demux.header) <= At
       /\ demux.header = SubSeq(msg.body, At - Len(demux.header) + 1, At)

(* However much of the body will have come when the connection ends: what  *)
(* exec would make of it is in the buffers, or owed to them.               *)
DemuxOwed ==
  \A m \in At..Len(msg.body) : \A s \in 1..2 :
    Whole(msg.body, m)[0][s] = streams[s] \o Owed(m, s)

DemuxSoFar ==
  msg # NoMessage /\ msg.reader = "oneshot" =>
    /\ DemuxTypes /\ DemuxOwed
    /\ wpc \notin {"demux", "done"} => data = <<>>
    /\ outcome = "ok" => data = <<>> /\ taken = Received
    /\ outcome = "exceeds" => \E s \in 1..2 : Len(Whole(msg.body, taken)[0][s]) > StrictMax

(* Two slices that follow each other are one. *)
LEMMA SliceGrows ==
  ASSUME NEW S, NEW b \in Seq(S), NEW i \in Nat, NEW m \in Nat, NEW n \in Nat,
         i <= m, m <= n, n <= Len(b)
  PROVE  /\ SubSeq(b, i + 1, m) \o SubSeq(b, m + 1, n) = SubSeq(b, i + 1, n)
         /\ Len(SubSeq(b, i + 1, n)) = n - i
         /\ SubSeq(b, i + 1, n) \in Seq(S)
OBVIOUS

(* What is left of a slice after its first k. *)
LEMMA RestOfSlice ==
  ASSUME NEW S, NEW b \in Seq(S), NEW i \in Nat, NEW n \in Nat, NEW k \in Nat,
         i <= n, n <= Len(b), k <= n - i
  PROVE  SubSeq(SubSeq(b, i + 1, n), k + 1, n - i) = SubSeq(b, i + k + 1, n)
OBVIOUS

(* Putting three together. *)
LEMMA ConcatAssoc ==
  ASSUME NEW S, NEW a \in Seq(S), NEW b \in Seq(S), NEW c \in Seq(S)
  PROVE  (a \o b) \o c = a \o (b \o c) /\ Len(a \o b) = Len(a) + Len(b)
         /\ a \o b \in Seq(S) /\ <<>> \o a = a /\ a \o <<>> = a
OBVIOUS

(* What the demultiplexer works on is part of the body. *)
LEMMA AtBounds ==
  ASSUME WireType, WireOrder, DemuxTypes, msg \in Exchanges
  PROVE  /\ At \in Nat /\ taken \in Nat /\ At <= taken /\ taken <= Len(msg.body)
         /\ msg.body \in Seq(Nat) /\ Len(msg.body) \in Nat /\ Len(data) = taken - At
         /\ Len(data) \in Nat
<1>1. msg.body \in Seq(Byte) /\ Len(msg.body) \in Nat /\ msg # NoMessage
  BY ExchangeType
<1>2. msg.body \in Seq(Nat)
  BY BodyOfNumbers
<1>3. taken <= Len(msg.body) /\ taken \in Nat
  BY <1>1, ReceivedBound DEF WireOrder, WireType
<1>4. Len(data) \in Nat /\ Len(data) <= taken
  BY DEF DemuxTypes
<1> QED  BY <1>1, <1>2, <1>3, <1>4 DEF At

(* Nothing is owed at the end of what was consumed. *)
LEMMA NothingOwed ==
  ASSUME WireType, WireOrder, DemuxTypes, msg \in Exchanges, NEW s \in 1..2
  PROVE  Owed(At, s) = <<>>
<1>1. /\ At \in Nat /\ At <= Len(msg.body) /\ msg.body \in Seq(Nat)
      /\ At \in 0..Len(msg.body)
  BY AtBounds
<1>2. CASE demux.in_payload
  <2>1. Smaller(At + demux.payload_remaining, At) = At
    BY <1>1, <1>2 DEF DemuxTypes, Smaller
  <2>2. SubSeq(msg.body, At + 1, At) = <<>>
    BY <1>1
  <2>3. Whole(msg.body, At)[At][s] = <<>>
    <3>1. At + HEADER_LEN > At /\ At \in 0..At
      BY <1>1 DEF HEADER_LEN
    <3> QED  BY <1>1, <3>1, WholeUnfolds
  <2>4. <<>> \o <<>> = <<>>
    OBVIOUS
  <2> QED  BY <1>2, <2>1, <2>2, <2>3, <2>4 DEF Owed
<1>3. CASE ~demux.in_payload
  <2> DEFINE p == At - Len(demux.header)
  <2>1. p \in 0..At /\ p + HEADER_LEN > At
    BY <1>1, <1>3 DEF DemuxTypes, HEADER_LEN
  <2>2. Whole(msg.body, At)[p][s] = <<>>
    <3> HIDE DEF p
    <3> QED  BY <1>1, <2>1, WholeUnfolds
  <2> QED  BY <1>3, <2>2 DEF Owed
<1> QED  BY <1>2, <1>3

(* So between two slices the buffers hold what exec would make of them. *)
LEMMA SoFarIsWhole ==
  ASSUME WireType, WireOrder, DemuxTypes, DemuxOwed, msg \in Exchanges
  PROVE  /\ data = <<>> => streams = DemuxExecStream(SubSeq(msg.body, 1, taken))
         /\ \A s \in 1..2 : Whole(msg.body, taken)[0][s] = streams[s] \o Owed(taken, s)
         /\ DemuxExecStream(SubSeq(msg.body, 1, taken)) = Whole(msg.body, taken)[0]
<1>1. /\ At \in Nat /\ At <= taken /\ taken \in Nat /\ taken <= Len(msg.body)
      /\ msg.body \in Seq(Nat) /\ taken \in At..Len(msg.body)
  BY AtBounds
<1>2. \A s \in 1..2 : Whole(msg.body, taken)[0][s] = streams[s] \o Owed(taken, s)
  BY <1>1 DEF DemuxOwed
<1>3. DemuxExecStream(SubSeq(msg.body, 1, taken)) = Whole(msg.body, taken)[0]
  BY DEF DemuxExecStream, Whole
<1>4. ASSUME data = <<>> PROVE streams = Whole(msg.body, taken)[0]
  <2>1. At = taken
    BY <1>1, <1>4 DEF At
  <2>2. ASSUME NEW s \in 1..2 PROVE Whole(msg.body, taken)[0][s] = streams[s]
    <3>1. Owed(taken, s) = <<>>
      BY <2>1, NothingOwed
    <3>2. streams[s] \in Seq(Nat)
      BY DEF DemuxTypes
    <3>3. streams[s] \o <<>> = streams[s]
      BY <3>2, ConcatAssoc
    <3> QED  BY <1>2, <3>1, <3>3
  <2>3. Whole(msg.body, taken)[0] \in [1..2 -> Seq(Nat)]
    <3>1. SubSeq(msg.body, 1, taken) \in Seq(Nat) /\ Len(SubSeq(msg.body, 1, taken)) = taken
      BY <1>1
    <3>2. 0 \in 0..taken
      BY <1>1
    <3> QED  BY <3>1, <3>2, DemuxType DEF Whole
  <2>4. streams \in [1..2 -> Seq(Nat)]
    BY DEF DemuxTypes
  <2> DEFINE w == Whole(msg.body, taken)[0]
  <2>5. w \in [1..2 -> Seq(Nat)] /\ \A s \in 1..2 : w[s] = streams[s]
    BY <2>2, <2>3
  <2> HIDE DEF w
  <2>6. streams = w
    BY <2>4, <2>5
  <2> QED  BY <2>6 DEF w
<1> QED  BY <1>2, <1>3, <1>4

(* The rest of data after k of its bytes. *)
LEMMA DataMoves ==
  ASSUME WireType, WireOrder, DemuxTypes, msg \in Exchanges, msg' = msg, taken' = taken,
         NEW k \in 0..Len(data), data' = Rest(data, k)
  PROVE  /\ At' = At + k /\ At + k <= taken /\ SubSeq(data, 1, k) = SubSeq(msg.body, At + 1, At + k)
         /\ data' \in Seq(Nat) /\ Len(data') <= taken
         /\ data' = SubSeq(msg.body, At + k + 1, taken)
<1>1. /\ At \in Nat /\ taken \in Nat /\ At <= taken /\ taken <= Len(msg.body)
      /\ msg.body \in Seq(Nat) /\ Len(data) = taken - At /\ k \in Nat /\ k <= taken - At
  BY AtBounds
<1>2. data = SubSeq(msg.body, At + 1, taken)
  BY DEF DemuxTypes
<1>3. SubSeq(data, 1, k) = SubSeq(msg.body, At + 1, At + k)
  BY <1>1, <1>2, SubSeqOfSlice
<1>4. data' = SubSeq(msg.body, At + k + 1, taken)
  BY <1>1, <1>2, RestOfSlice DEF Rest
<1> DEFINE i == At + k
<1>5. i \in Nat /\ i <= taken
  BY <1>1
<1>6. /\ Len(SubSeq(msg.body, i + 1, taken)) = taken - i
      /\ SubSeq(msg.body, i + 1, taken) \in Seq(Nat)
  <2> HIDE DEF i
  <2> QED  BY <1>1, <1>5, SliceGrows
<1>7. Len(data') = taken - (At + k) /\ data' \in Seq(Nat)
  BY <1>4, <1>6
<1>8. At' = At + k
  <2>1. At' = taken - Len(data')
    BY DEF At
  <2> QED  BY <1>1, <1>7, <2>1
<1> QED  BY <1>1, <1>3, <1>4, <1>5, <1>7, <1>8

(* A turn of FrameDemuxer::feed in a header. *)
LEMMA StepHeader ==
  ASSUME WireType, WireOrder, DemuxTypes, DemuxOwed, msg \in Exchanges, TakeHeader
  PROVE  DemuxTypes' /\ DemuxOwed'
<1> DEFINE body == msg.body
           hdr == demux.header
           n == Len(hdr)
           d == Len(data)
           p == At - n
           take == Smaller(HEADER_LEN - n, d)
           new == hdr \o SubSeq(data, 1, take)
<1>1. /\ msg' = msg /\ taken' = taken /\ streams' = streams /\ data' = Rest(data, take)
      /\ data # <<>> /\ ~demux.in_payload
      /\ demux' = IF Len(new) < HEADER_LEN
                  THEN [demux EXCEPT !.header = new]
                  ELSE IF new[2] = 0 THEN NewDemuxer
                  ELSE [in_payload |-> TRUE, header |-> new,
                        stream_type |-> new[1], payload_remaining |-> new[2]]
  BY DEF TakeHeader
<1>2. /\ At \in Nat /\ taken \in Nat /\ At <= taken /\ taken <= Len(body)
      /\ d = taken - At /\ d \in Nat /\ Len(body) \in Nat
  BY AtBounds
<1>b. body \in Seq(Nat)
  BY AtBounds
<1>h. hdr \in Seq(Nat)
  BY DEF DemuxTypes
<1>n. n \in Nat
  BY <1>h
<1>3. n < HEADER_LEN /\ n <= At /\ hdr = SubSeq(body, p + 1, At)
  BY <1>1 DEF DemuxTypes
<1> HIDE DEF n, d, hdr
<1>p. p \in Nat /\ p <= At /\ At = p + n
  BY <1>2, <1>n, <1>3
<1>4. take \in 0..d /\ take \in Nat /\ take <= HEADER_LEN - n
  BY <1>2, <1>n, <1>3 DEF Smaller, HEADER_LEN
<1> HIDE DEF take, p
<1>5. /\ At' = At + take /\ At + take <= taken
      /\ SubSeq(data, 1, take) = SubSeq(body, At + 1, At + take)
      /\ data' \in Seq(Nat) /\ Len(data') <= taken
      /\ data' = SubSeq(body, At + take + 1, taken)
  BY <1>1, <1>4, DataMoves DEF d
<1> DEFINE c == At + take
<1>6. c \in Nat /\ c <= taken /\ At <= c /\ c <= Len(body) /\ p <= c /\ c - p = n + take
  BY <1>2, <1>p, <1>n, <1>4, <1>5
<1> HIDE DEF c
<1>c. At' = c /\ data' = SubSeq(body, c + 1, taken)
  BY <1>5 DEF c
<1>7. new = SubSeq(body, p + 1, c) /\ Len(new) = c - p /\ new \in Seq(Nat)
  <2> HIDE DEF body
  <2>1. SubSeq(body, p + 1, At) \o SubSeq(body, At + 1, c) = SubSeq(body, p + 1, c)
    <3>1. /\ p \in Nat /\ At \in Nat /\ c \in Nat /\ p <= At /\ At <= c /\ c <= Len(body)
      BY <1>2, <1>p, <1>6
    <3> QED  BY ONLY <1>b, <3>1, SliceGrows
  <2>2. new = SubSeq(body, p + 1, c)
    BY <1>3, <1>5, <2>1 DEF c
  <2>3. Len(SubSeq(body, p + 1, c)) = c - p /\ SubSeq(body, p + 1, c) \in Seq(Nat)
    BY <1>2, <1>b, <1>p, <1>6, SliceGrows
  <2> QED  BY <2>2, <2>3
<1> HIDE DEF new
<1>l. Len(new) = c - p
  BY <1>7
<1>8. Len(new) <= HEADER_LEN
  BY <1>n, <1>4, <1>6, <1>l DEF HEADER_LEN
<1>9. ASSUME NEW m \in c..Len(body), NEW s \in 1..2
      PROVE  /\ m \in 0..Len(body) /\ p \in 0..m
             /\ Whole(body, m)[0][s] = streams[s] \o Whole(body, m)[p][s]
  <2>1. m \in At..Len(body) /\ m \in 0..Len(body) /\ p \in 0..m
    BY <1>2, <1>p, <1>6
  <2>2. Owed(m, s) = Whole(body, m)[p][s]
    BY <1>1 DEF Owed, p, n, hdr
  <2> QED  BY <2>1, <2>2 DEF DemuxOwed
<1>10. /\ streams' \in [1..2 -> Seq(Nat)] /\ \A s \in 1..2 : Len(streams'[s]) <= StrictMax
  BY <1>1 DEF DemuxTypes
<1>11. CASE Len(new) < HEADER_LEN
  <2>1. demux' = [demux EXCEPT !.header = new]
    BY <1>1, <1>11 DEF new
  <2>2. /\ demux'.in_payload = FALSE /\ demux'.header = new
        /\ demux' \in [in_payload : BOOLEAN, header : Seq(Nat), stream_type : Nat,
                       payload_remaining : Nat]
    BY <1>1, <1>7, <2>1 DEF DemuxTypes
  <2>3. At' = c /\ c - Len(new) = p /\ Len(new) <= c
    BY <1>p, <1>6, <1>c, <1>l
  <2>4. DemuxTypes'
    <3>1. new = SubSeq(body, c - Len(new) + 1, c)
      BY <1>7, <2>3
    <3>2. data' = SubSeq(msg'.body, At' + 1, taken') /\ data' \in Seq(Nat) /\ Len(data') <= taken'
      BY <1>1, <1>5, <1>c
    <3>3. demux'.header = SubSeq(msg'.body, At' - Len(demux'.header) + 1, At')
      BY <1>1, <2>2, <2>3, <3>1
    <3>4. Len(demux'.header) < HEADER_LEN /\ Len(demux'.header) <= At'
      BY <1>11, <2>2, <2>3
    <3> QED  BY <1>10, <2>2, <3>2, <3>3, <3>4, Zenon DEF DemuxTypes
  <2>5. ASSUME NEW m \in c..Len(body), NEW s \in 1..2
        PROVE  Owed(m, s)' = Whole(body, m)[p][s]
    BY <1>1, <2>2, <2>3 DEF Owed
  <2>6. DemuxOwed'
    <3> SUFFICES ASSUME NEW m \in At'..Len(msg'.body), NEW s \in 1..2
                 PROVE  Whole(msg'.body, m)[0][s] = streams'[s] \o Owed(m, s)'
      BY DEF DemuxOwed
    <3>1. m \in c..Len(body)
      BY <1>1, <2>3
    <3> QED  BY <1>1, <1>9, <2>5, <3>1
  <2> QED  BY <2>4, <2>6
<1>12. CASE ~(Len(new) < HEADER_LEN)
  <2>1. Len(new) = HEADER_LEN /\ c = p + HEADER_LEN /\ At' = c
    BY <1>p, <1>6, <1>c, <1>l, <1>8, <1>12 DEF HEADER_LEN
  <2>2. /\ p + 1 \in 1..Len(body) /\ p + 2 \in 1..Len(body)
        /\ body[p + 1] \in Nat /\ body[p + 2] \in Nat
        /\ new[1] = body[p + 1] /\ new[2] = body[p + 2]
    <3>1. p + 1 \in 1..Len(body) /\ p + 2 \in 1..Len(body)
      BY <1>2, <1>p, <1>6, <2>1 DEF HEADER_LEN
    <3>2. new[1] = body[p + 1] /\ new[2] = body[p + 2]
      <4> HIDE DEF body
      <4>1. 1 \in 1 .. c - (p + 1) + 1 /\ 2 \in 1 .. c - (p + 1) + 1
        BY <1>p, <2>1 DEF HEADER_LEN
      <4>2. SubSeq(body, p + 1, c) = [k \in 1 .. c - (p + 1) + 1 |-> body[p + 1 + k - 1]]
        BY <1>b, <1>p, <1>6
      <4>3. p + 1 + 1 - 1 = p + 1 /\ p + 1 + 2 - 1 = p + 2
        BY <1>p
      <4> QED  BY <1>7, <4>1, <4>2, <4>3
    <3>3. body[p + 1] \in Nat /\ body[p + 2] \in Nat
      BY <1>b, <3>1
    <3> QED  BY <3>1, <3>2, <3>3
  <2>3. ASSUME NEW m \in c..Len(body), NEW s \in 1..2
        PROVE  LET e == Smaller(c + body[p + 2], m)
               IN  /\ e \in c..m
                   /\ Whole(body, m)[p][s] =
                        IF body[p + 1] = s
                        THEN SubSeq(body, c + 1, e) \o Whole(body, m)[e][s]
                        ELSE Whole(body, m)[e][s]
    <3>1. p + HEADER_LEN <= m
      BY <1>2, <1>6, <2>1
    <3>2. m \in 0..Len(body) /\ p \in 0..m
      BY <1>9
    <3> HIDE DEF body
    <3> QED  BY <1>b, <2>1, <3>1, <3>2, WholeUnfolds
  <2>4. CASE new[2] = 0
    <3>1. demux' = NewDemuxer
      BY <1>1, <1>12, <2>4 DEF new
    <3>2. /\ demux'.in_payload = FALSE /\ demux'.header = <<>> /\ Len(<<>>) = 0
          /\ demux' \in [in_payload : BOOLEAN, header : Seq(Nat), stream_type : Nat,
                         payload_remaining : Nat]
      BY <3>1 DEF NewDemuxer
    <3>3. SubSeq(body, c + 1, c) = <<>>
      BY <1>b, <1>6
    <3>4. DemuxTypes'
      <4>1. data' = SubSeq(msg'.body, At' + 1, taken') /\ data' \in Seq(Nat) /\ Len(data') <= taken'
        BY <1>1, <1>5, <1>c
      <4>2. c - 0 = c /\ 0 < HEADER_LEN /\ 0 <= c
        BY <1>6 DEF HEADER_LEN
      <4>3. demux'.header = SubSeq(msg'.body, At' - Len(demux'.header) + 1, At')
        BY <1>1, <1>c, <3>2, <3>3, <4>2
      <4>4. Len(demux'.header) < HEADER_LEN /\ Len(demux'.header) <= At'
        BY <1>c, <3>2, <4>2
      <4> QED  BY <1>10, <3>2, <4>1, <4>3, <4>4, Zenon DEF DemuxTypes
    <3>5. ASSUME NEW m \in c..Len(body), NEW s \in 1..2
          PROVE  Owed(m, s)' = Whole(body, m)[p][s]
      <4>1. Smaller(c + body[p + 2], m) = c
        BY <1>2, <1>6, <2>2, <2>4 DEF Smaller
      <4>2. Owed(m, s)' = Whole(body, m)[c][s]
        BY <1>1, <1>6, <2>1, <3>2 DEF Owed
      <4>3. Whole(body, m)[c][s] \in Seq(Nat)
        <5>1. m \in 0..Len(body) /\ c \in 0..m
          BY <1>2, <1>6
        <5> QED  BY <1>b, <5>1, WholeType
      <4>4. <<>> \o Whole(body, m)[c][s] = Whole(body, m)[c][s]
        BY <4>3, ConcatAssoc
      <4> HIDE DEF body
      <4> QED  BY <2>3, <3>3, <4>1, <4>2, <4>4
    <3>6. DemuxOwed'
      <4> SUFFICES ASSUME NEW m \in At'..Len(msg'.body), NEW s \in 1..2
                   PROVE  Whole(msg'.body, m)[0][s] = streams'[s] \o Owed(m, s)'
        BY DEF DemuxOwed
      <4>1. m \in c..Len(body)
        BY <1>1, <2>1
      <4> QED  BY <1>1, <1>9, <3>5, <4>1
    <3> QED  BY <3>4, <3>6
  <2>5. CASE new[2] # 0
    <3>1. demux' = [in_payload |-> TRUE, header |-> new,
                    stream_type |-> new[1], payload_remaining |-> new[2]]
      BY <1>1, <1>12, <2>5 DEF new
    <3>2. /\ demux'.in_payload = TRUE /\ demux'.stream_type = body[p + 1]
          /\ demux'.payload_remaining = body[p + 2] /\ body[p + 2] > 0
          /\ demux' \in [in_payload : BOOLEAN, header : Seq(Nat), stream_type : Nat,
                         payload_remaining : Nat]
      <4>1. new \in Seq(Nat) /\ new[1] \in Nat /\ new[2] \in Nat
        BY <1>7, <2>2
      <4>2. body[p + 2] > 0
        BY <2>2, <2>5
      <4>3. demux' \in [in_payload : BOOLEAN, header : Seq(Nat), stream_type : Nat,
                        payload_remaining : Nat]
        BY <3>1, <4>1
      <4> QED  BY <2>2, <3>1, <4>2, <4>3
    <3>3. DemuxTypes'
      <4>1. data' = SubSeq(msg'.body, At' + 1, taken') /\ data' \in Seq(Nat) /\ Len(data') <= taken'
        BY <1>1, <1>5, <1>c
      <4>2. demux'.payload_remaining > 0
        BY <3>2
      <4> QED  BY <1>10, <3>2, <4>1, <4>2, Zenon DEF DemuxTypes
    <3>4. ASSUME NEW m \in c..Len(body), NEW s \in 1..2
          PROVE  Owed(m, s)' = Whole(body, m)[p][s]
      <4> DEFINE e == Smaller(c + body[p + 2], m)
      <4>1. Owed(m, s)' = IF body[p + 1] = s
                          THEN SubSeq(body, c + 1, e) \o Whole(body, m)[e][s]
                          ELSE Whole(body, m)[e][s]
        BY <1>1, <2>1, <3>2 DEF Owed
      <4> QED  BY <2>3, <4>1
    <3>5. DemuxOwed'
      <4> SUFFICES ASSUME NEW m \in At'..Len(msg'.body), NEW s \in 1..2
                   PROVE  Whole(msg'.body, m)[0][s] = streams'[s] \o Owed(m, s)'
        BY DEF DemuxOwed
      <4>1. m \in c..Len(body)
        BY <1>1, <2>1
      <4> QED  BY <1>1, <1>9, <3>4, <4>1
    <3> QED  BY <3>3, <3>5
  <2> QED  BY <2>4, <2>5
<1> QED  BY <1>11, <1>12

(* Bytes after bytes are bytes. *)
LEMMA ConcatNat ==
  ASSUME NEW a \in Seq(Nat), NEW b \in Seq(Nat), NEW c \in Seq(Nat)
  PROVE  (a \o b) \o c = a \o (b \o c) /\ b \o c \in Seq(Nat)
OBVIOUS

(* What a payload of which rem bytes are missing still gives, up to m.     *)
LEMMA PayloadOwed ==
  ASSUME WireType, WireOrder, DemuxTypes, DemuxOwed, msg \in Exchanges, demux.in_payload,
         NEW take \in Nat, take <= demux.payload_remaining, take <= Len(data),
         NEW m \in At + take .. Len(msg.body), NEW s \in 1..2
  PROVE  LET e == Smaller(At + demux.payload_remaining, m)
             slice == SubSeq(msg.body, At + 1, At + take)
             rest == SubSeq(msg.body, At + take + 1, e)
         IN  /\ e \in At + take .. m /\ m \in Nat
             /\ Whole(msg.body, m)[e][s] \in Seq(Nat)
             /\ slice \in Seq(Nat) /\ Len(slice) = take /\ rest \in Seq(Nat)
             /\ Whole(msg.body, m)[0][s] =
                  IF demux.stream_type = s
                  THEN (streams[s] \o slice) \o (rest \o Whole(msg.body, m)[e][s])
                  ELSE streams[s] \o Whole(msg.body, m)[e][s]
<1> DEFINE body == msg.body
           rem == demux.payload_remaining
           c == At + take
           e == Smaller(At + rem, m)
           w == Whole(body, m)[e][s]
           slice == SubSeq(body, At + 1, c)
           rest == SubSeq(body, c + 1, e)
<1>1. At \in Nat /\ At <= taken /\ taken <= Len(body) /\ Len(body) \in Nat /\ taken \in Nat
  BY AtBounds
<1>b. body \in Seq(Nat)
  BY AtBounds
<1>2. rem \in Nat /\ streams[s] \in Seq(Nat)
  BY DEF DemuxTypes
<1> HIDE DEF body, rem
<1>m. m \in Nat /\ c <= m /\ m <= Len(body) /\ c \in Nat /\ At <= c /\ c <= At + rem
  BY <1>1, <1>2 DEF body, rem
<1>3. e \in Nat /\ c <= e /\ e <= m
  BY <1>1, <1>2, <1>m DEF Smaller
<1> HIDE DEF e, c
<1>4. slice \in Seq(Nat) /\ Len(slice) = c - At /\ c - At = take
  <2>1. slice \in Seq(Nat) /\ Len(slice) = c - At
    <3>1. c <= Len(body)
      BY <1>1, <1>m
    <3> QED  BY <1>1, <1>b, <1>m, <3>1, SliceGrows
  <2>2. c - At = take
    BY <1>1 DEF c
  <2> QED  BY <2>1, <2>2
<1>5. rest \in Seq(Nat) /\ slice \o rest = SubSeq(body, At + 1, e)
  <2>1. e <= Len(body)
    BY <1>1, <1>m, <1>3
  <2>2. rest \in Seq(Nat)
    BY <1>b, <1>m, <1>3, <2>1, SliceGrows
  <2>3. slice \o rest = SubSeq(body, At + 1, e)
    <3>1. At \in Nat /\ c \in Nat /\ e \in Nat /\ At <= c /\ c <= e /\ e <= Len(body)
      BY <1>1, <1>m, <1>3, <2>1
    <3> QED  BY ONLY <1>b, <3>1, SliceGrows
  <2> QED  BY <2>2, <2>3
<1>6. w \in Seq(Nat)
  <2>1. m \in 0..Len(body) /\ e \in 0..m
    BY <1>1, <1>m, <1>3
  <2> QED  BY <1>b, <2>1, WholeType
<1> HIDE DEF slice, rest, w
<1>7. m \in At..Len(body)
  BY <1>1, <1>m
<1>8. Whole(body, m)[0][s] = streams[s] \o Owed(m, s)
  BY <1>7 DEF DemuxOwed, body
<1>9. Owed(m, s) = IF demux.stream_type = s THEN SubSeq(body, At + 1, e) \o w ELSE w
  BY DEF Owed, body, rem, e, w
<1>e. /\ e \in c..m /\ m \in Nat /\ w \in Seq(Nat)
      /\ slice \in Seq(Nat) /\ Len(slice) = take /\ rest \in Seq(Nat)
  BY <1>m, <1>3, <1>4, <1>5, <1>6
<1>10. CASE demux.stream_type = s
  <2>1. Owed(m, s) = (slice \o rest) \o w
    BY <1>5, <1>9, <1>10
  <2>2. (slice \o rest) \o w = slice \o (rest \o w) /\ rest \o w \in Seq(Nat)
    BY <1>4, <1>5, <1>6, ConcatNat
  <2>3. streams[s] \o (slice \o (rest \o w)) = (streams[s] \o slice) \o (rest \o w)
    <3> DEFINE a == streams[s]
               b == rest \o w
    <3>1. a \in Seq(Nat) /\ slice \in Seq(Nat) /\ b \in Seq(Nat)
      BY <1>2, <1>4, <2>2
    <3> HIDE DEF a, b
    <3>2. a \o (slice \o b) = (a \o slice) \o b
      BY <3>1, ConcatNat
    <3> QED  BY <3>2 DEF a, b
  <2>4. Whole(body, m)[0][s] = (streams[s] \o slice) \o (rest \o w)
    BY <1>8, <2>1, <2>2, <2>3
  <2> QED  BY <1>e, <1>10, <2>4, Zenon DEF body, rem, c, e, w, slice, rest
<1>11. CASE demux.stream_type # s
  <2>1. Whole(body, m)[0][s] = streams[s] \o w
    BY <1>8, <1>9, <1>11
  <2> QED  BY <1>e, <1>11, <2>1, Zenon DEF body, rem, c, e, w, slice, rest
<1> QED  BY <1>10, <1>11

(* ... and in a payload. *)
LEMMA StepPayload ==
  ASSUME WireType, WireOrder, DemuxTypes, DemuxOwed, msg \in Exchanges, TakePayload,
         wpc' # "done"
  PROVE  DemuxTypes' /\ DemuxOwed'
<1> DEFINE body == msg.body
           rem == demux.payload_remaining
           d == Len(data)
           st == demux.stream_type
           take == Smaller(rem, d)
           slice == SubSeq(body, At + 1, At + take)
<1>1. /\ msg' = msg /\ taken' = taken /\ data' = Rest(data, take)
      /\ demux.in_payload
      /\ ~(st \in 1..2 /\ Len(streams[st]) + take > StrictMax)
      /\ streams' = IF st \in 1..2
                    THEN [streams EXCEPT ![st] = @ \o SubSeq(data, 1, take)]
                    ELSE streams
      /\ demux' = IF take = rem THEN NewDemuxer
                  ELSE [demux EXCEPT !.payload_remaining = @ - take]
  BY DEF TakePayload, Return
<1>2. /\ At \in Nat /\ taken \in Nat /\ At <= taken /\ taken <= Len(body)
      /\ d = taken - At /\ d \in Nat /\ Len(body) \in Nat
  BY AtBounds
<1>3. rem \in Nat /\ rem > 0 /\ st \in Nat
  BY <1>1 DEF DemuxTypes
<1> HIDE DEF rem, d, st
<1>4. take \in Nat /\ take \in 0..d /\ take <= rem /\ take <= d
  BY <1>2, <1>3 DEF Smaller
<1> HIDE DEF take
<1>5. /\ At' = At + take /\ At + take <= taken
      /\ SubSeq(data, 1, take) = slice
      /\ data' \in Seq(Nat) /\ Len(data') <= taken
      /\ data' = SubSeq(body, At + take + 1, taken)
  BY <1>1, <1>4, DataMoves DEF d
<1> DEFINE c == At + take
<1>c. c \in Nat /\ c <= Len(body)
  BY <1>2, <1>4, <1>5
<1>6. slice \in Seq(Nat) /\ Len(slice) = take
  <2>1. Len(body) \in c .. Len(body) /\ 1 \in 1..2
    BY <1>2, <1>c
  <2> QED  BY <1>1, <1>4, <2>1, PayloadOwed DEF rem, d
<1> HIDE DEF slice
<1>7. /\ streams' \in [1..2 -> Seq(Nat)]
      /\ \A s \in 1..2 : streams'[s] = IF st = s THEN streams[s] \o slice ELSE streams[s]
      /\ \A s \in 1..2 : Len(streams'[s]) <= StrictMax
  <2>1. /\ streams \in [1..2 -> Seq(Nat)] /\ \A s \in 1..2 : Len(streams[s]) <= StrictMax
    BY DEF DemuxTypes
  <2>2. CASE st \in 1..2
    <3>1. streams' = [streams EXCEPT ![st] = streams[st] \o slice]
      BY <1>1, <1>5, <2>2
    <3>2. streams[st] \o slice \in Seq(Nat) /\ Len(streams[st] \o slice) = Len(streams[st]) + take
      BY <1>6, <2>1, <2>2, ConcatAssoc
    <3>3. Len(streams[st]) \in Nat /\ StrictMax \in Nat
      BY <2>1, <2>2, WireAssumption
    <3>4. Len(streams[st]) + take <= StrictMax
      BY <1>1, <1>4, <2>2, <3>3
    <3>5. streams' \in [1..2 -> Seq(Nat)]
      BY <2>1, <3>1, <3>2
    <3>6. ASSUME NEW s \in 1..2
          PROVE  /\ streams'[s] = IF st = s THEN streams[s] \o slice ELSE streams[s]
                 /\ Len(streams'[s]) <= StrictMax
      <4>1. CASE s = st
        <5>1. streams'[s] = streams[s] \o slice
          BY <2>1, <3>1, <4>1
        <5> QED  BY <3>2, <3>4, <4>1, <5>1
      <4>2. CASE s # st
        <5>1. streams'[s] = streams[s]
          BY <2>1, <3>1, <4>2
        <5> QED  BY <2>1, <4>2, <5>1
      <4> QED  BY <4>1, <4>2
    <3> QED  BY <3>5, <3>6
  <2>3. CASE st \notin 1..2
    <3>1. streams' = streams
      BY <1>1, <2>3
    <3>2. \A s \in 1..2 : st # s
      BY <2>3
    <3> QED  BY <2>1, <3>1, <3>2, Zenon
  <2> QED  BY <2>2, <2>3
<1>8. /\ demux' \in [in_payload : BOOLEAN, header : Seq(Nat), stream_type : Nat,
                     payload_remaining : Nat]
      /\ take = rem => demux'.in_payload = FALSE /\ demux'.header = <<>>
      /\ take # rem => /\ demux'.in_payload = TRUE /\ demux'.stream_type = st
                       /\ demux'.payload_remaining = rem - take
                       /\ demux'.payload_remaining > 0
  <2>1. CASE take = rem
    BY <1>1, <2>1 DEF NewDemuxer
  <2>2. CASE take # rem
    <3>1. demux' = [demux EXCEPT !.payload_remaining = rem - take]
      BY <1>1, <2>2 DEF rem
    <3>2. rem - take \in Nat /\ rem - take > 0
      BY <1>3, <1>4, <2>2
    <3>3. demux \in [in_payload : BOOLEAN, header : Seq(Nat), stream_type : Nat,
                     payload_remaining : Nat] /\ demux.in_payload = TRUE
      BY <1>1 DEF DemuxTypes
    <3> QED  BY <2>2, <3>1, <3>2, <3>3 DEF st
  <2> QED  BY <2>1, <2>2
<1>9. DemuxTypes'
  <2>1. data' = SubSeq(msg'.body, At' + 1, taken') /\ data' \in Seq(Nat) /\ Len(data') <= taken'
    BY <1>1, <1>5
  <2>2. demux'.in_payload => demux'.payload_remaining > 0
    BY <1>8
  <2>3. ~demux'.in_payload =>
          /\ Len(demux'.header) < HEADER_LEN /\ Len(demux'.header) <= At'
          /\ demux'.header = SubSeq(msg'.body, At' - Len(demux'.header) + 1, At')
    <3> SUFFICES ASSUME ~demux'.in_payload
                 PROVE  /\ Len(demux'.header) < HEADER_LEN /\ Len(demux'.header) <= At'
                        /\ demux'.header = SubSeq(msg'.body, At' - Len(demux'.header) + 1, At')
      OBVIOUS
    <3>1. demux'.header = <<>> /\ Len(<<>>) = 0
      BY <1>8
    <3>2. At' = c /\ c - 0 = c /\ 0 <= c /\ 0 < HEADER_LEN
      BY <1>5, <1>c DEF HEADER_LEN
    <3> HIDE DEF c
    <3>3. SubSeq(body, c + 1, c) = <<>>
      BY <1>c, AtBounds
    <3> QED  BY <1>1, <3>1, <3>2, <3>3
  <2>4. streams' \in [1..2 -> Seq(Nat)] /\ \A s \in 1..2 : Len(streams'[s]) <= StrictMax
    BY <1>7
  <2>5. demux' \in [in_payload : BOOLEAN, header : Seq(Nat), stream_type : Nat,
                   payload_remaining : Nat]
    BY <1>8
  <2> QED  BY <2>1, <2>2, <2>3, <2>4, <2>5, Zenon DEF DemuxTypes
<1>10. DemuxOwed'
  <2> SUFFICES ASSUME NEW m \in At'..Len(msg'.body), NEW s \in 1..2
               PROVE  Whole(msg'.body, m)[0][s] = streams'[s] \o Owed(m, s)'
    BY DEF DemuxOwed
  <2>1. m \in At + take .. Len(msg.body)
    BY <1>1, <1>5
  <2> DEFINE e == Smaller(At + rem, m)
             rest == SubSeq(body, At + take + 1, e)
             w == Whole(body, m)[e][s]
  <2>2. /\ e \in At + take .. m /\ m \in Nat /\ w \in Seq(Nat) /\ rest \in Seq(Nat)
        /\ Whole(body, m)[0][s] = IF st = s THEN (streams[s] \o slice) \o (rest \o w)
                                  ELSE streams[s] \o w
    BY <1>1, <1>4, <2>1, PayloadOwed DEF rem, d, st, slice
  <2>3. Owed(m, s)' = IF st = s THEN rest \o w ELSE w
    <3>1. CASE take = rem
      <4>1. Owed(m, s)' = Whole(body, m)[At' - 0][s]
        BY <1>1, <1>8, <3>1 DEF Owed
      <4>2. e = At + take /\ At' - 0 = At + take
        BY <1>2, <1>4, <1>5, <2>1, <3>1 DEF Smaller
      <4>3. Owed(m, s)' = w
        BY <4>1, <4>2
      <4>4. rest = <<>>
        <5> HIDE DEF e, c
        <5>1. rest = SubSeq(body, c + 1, c)
          BY <4>2 DEF c
        <5>2. body \in Seq(Nat)
          BY AtBounds
        <5> HIDE DEF body, rest
        <5>3. SubSeq(body, c + 1, c) = <<>>
          BY <1>c, <5>2
        <5> QED  BY <5>1, <5>3
      <4>5. <<>> \o w = w
        <5> HIDE DEF w
        <5> QED  BY <2>2, ConcatAssoc
      <4> QED  BY <4>3, <4>4, <4>5
    <3>2. CASE take # rem
      <4>1. At' + (rem - take) = At + rem
        BY <1>2, <1>3, <1>4, <1>5
      <4>2. Smaller(At' + demux'.payload_remaining, m) = e
        BY <1>8, <3>2, <4>1
      <4> HIDE DEF e
      <4> QED  BY <1>1, <1>5, <1>8, <3>2, <4>2 DEF Owed
    <3> QED  BY <3>1, <3>2
  <2> HIDE DEF e, rest, w
  <2> QED  BY <1>1, <1>7, <2>2, <2>3
<1> QED  BY <1>9, <1>10

(* What does not touch the demultiplexer keeps what is said of it. *)
LEMMA DemuxStays ==
  ASSUME DemuxTypes, DemuxOwed, UNCHANGED <<msg, taken, data, demux, streams>>
  PROVE  DemuxTypes' /\ DemuxOwed'
<1>1. At' = At
  BY DEF At
<1>2. DemuxTypes'
  BY <1>1 DEF DemuxTypes
<1>3. \A m, s : Owed(m, s)' = Owed(m, s)
  BY <1>1 DEF Owed
<1> QED  BY <1>1, <1>2, <1>3 DEF DemuxOwed

(* A chunk that append refuses is part of what exec would have returned. *)
LEMMA RefusedIsOver ==
  ASSUME WireType, WireOrder, DemuxTypes, DemuxOwed, msg \in Exchanges,
         demux.in_payload, NEW s \in 1..2, demux.stream_type = s,
         Len(streams[s]) + Smaller(demux.payload_remaining, Len(data)) > StrictMax
  PROVE  Len(Whole(msg.body, taken)[0][s]) > StrictMax
<1> DEFINE rem == demux.payload_remaining
           d == Len(data)
           take == Smaller(rem, d)
<1>1. /\ At \in Nat /\ taken \in Nat /\ At <= taken /\ taken <= Len(msg.body)
      /\ d = taken - At /\ d \in Nat /\ Len(msg.body) \in Nat
  BY AtBounds
<1>2. rem \in Nat
  BY DEF DemuxTypes
<1> HIDE DEF rem, d
<1>3. take \in Nat /\ take <= rem /\ take <= d
  BY <1>1, <1>2 DEF Smaller
<1>4. taken \in At + take .. Len(msg.body)
  BY <1>1, <1>3
<1>5. Len(streams[s]) + take > StrictMax
  BY DEF rem, d
<1> HIDE DEF take
<1> DEFINE e == Smaller(At + rem, taken)
           slice == SubSeq(msg.body, At + 1, At + take)
           more == SubSeq(msg.body, At + take + 1, e)
           w == Whole(msg.body, taken)[e][s]
           a == streams[s]
<1>6. /\ w \in Seq(Nat) /\ slice \in Seq(Nat) /\ Len(slice) = take /\ more \in Seq(Nat)
      /\ Whole(msg.body, taken)[0][s] = (a \o slice) \o (more \o w)
  BY <1>3, <1>4, PayloadOwed DEF rem, d
<1>7. a \in Seq(Nat)
  BY DEF DemuxTypes
<1> HIDE DEF slice, more, w, a
<1>8. (a \o slice) \in Seq(Nat) /\ (more \o w) \in Seq(Nat)
  BY <1>6, <1>7, ConcatNat
<1>9. Len(a \o slice) = Len(a) + take
  <2>1. a \in Seq(Nat) /\ slice \in Seq(Nat) /\ Len(slice) = take
    BY <1>6, <1>7
  <2> QED  BY ONLY <2>1
<1>10. Len((a \o slice) \o (more \o w)) = Len(a \o slice) + Len(more \o w)
  BY <1>8
<1>11. Len(more \o w) \in Nat /\ Len(a) \in Nat /\ StrictMax \in Nat
  BY <1>7, <1>8, WireAssumption
<1>12. Len(a) + take > StrictMax
  BY <1>5 DEF a
<1> DEFINE n == Len(a)
           k == Len(more \o w)
<1>13. n + take + k > StrictMax
  <2>1. n \in Nat /\ k \in Nat /\ n + take > StrictMax
    BY <1>11, <1>12
  <2> HIDE DEF n, k
  <2> QED  BY <1>3, <1>11, <2>1
<1> QED  BY <1>6, <1>9, <1>10, <1>13

(* Every step of the reader keeps what the demultiplexer owes. *)
LEMMA StepDemux ==
  ASSUME WireType, WireOrder, DemuxSoFar, [WireNext]_wireVars
  PROVE  DemuxSoFar'
<1>1. CASE SendRequest
  <2>1. /\ msg' \in Exchanges /\ outcome' = "none" /\ taken' = 0 /\ data' = <<>>
        /\ demux' = NewDemuxer /\ streams' = [s \in 1..2 |-> <<>>]
    BY <1>1 DEF SendRequest, WireOrder
  <2>2. msg'.body \in Seq(Nat)
    BY <2>1, BodyOfNumbers
  <2>3. At' = 0 /\ Len(<<>>) = 0 /\ <<>> \in Seq(Nat)
    <3>1. At' = 0 - Len(<<>>)
      BY <2>1 DEF At
    <3>2. Len(<<>>) = 0 /\ <<>> \in Seq(Nat) /\ 0 - 0 = 0
      OBVIOUS
    <3> QED  BY <3>1, <3>2
  <2>4. /\ demux'.in_payload = FALSE /\ demux'.header = <<>>
        /\ demux' \in [in_payload : BOOLEAN, header : Seq(Nat), stream_type : Nat,
                       payload_remaining : Nat]
    BY <2>1 DEF NewDemuxer
  <2>5. SubSeq(msg'.body, 1, 0) = <<>> /\ 0 + 1 = 1 /\ 0 - 0 = 0 /\ 0 - 0 + 1 = 1
    BY <2>2
  <2>6. DemuxTypes'
    <3>1. /\ streams' \in [1..2 -> Seq(Nat)]
          /\ \A s \in 1..2 : streams'[s] = <<>>
      BY <2>1, <2>3
    <3>2. \A s \in 1..2 : Len(streams'[s]) <= StrictMax
      BY <2>3, <3>1, WireAssumption
    <3>3. data' \in Seq(Nat) /\ Len(data') <= taken' /\ data' = SubSeq(msg'.body, At' + 1, taken')
      BY <2>1, <2>3, <2>5
    <3>4. /\ Len(demux'.header) < HEADER_LEN /\ Len(demux'.header) <= At'
          /\ demux'.header = SubSeq(msg'.body, At' - Len(demux'.header) + 1, At')
      BY <2>3, <2>4, <2>5 DEF HEADER_LEN
    <3> QED  BY <2>4, <3>1, <3>2, <3>3, <3>4, Zenon DEF DemuxTypes
  <2>7. DemuxOwed'
    <3> SUFFICES ASSUME NEW m \in At'..Len(msg'.body), NEW s \in 1..2
                 PROVE  Whole(msg'.body, m)[0][s] = streams'[s] \o Owed(m, s)'
      BY DEF DemuxOwed
    <3> DEFINE w == Whole(msg'.body, m)[0][s]
    <3>1. Owed(m, s)' = w /\ streams'[s] = <<>>
      BY <2>1, <2>3, <2>4, <2>5 DEF Owed
    <3>2. w \in Seq(Nat)
      <4>1. m \in 0..Len(msg'.body) /\ 0 \in 0..m
        BY <2>2, <2>3
      <4> QED  BY <2>2, <4>1, WholeType
    <3> HIDE DEF w
    <3>3. <<>> \o w = w
      BY <3>2, ConcatAssoc
    <3> QED  BY <3>1, <3>3 DEF w
  <2> QED  BY <2>1, <2>6, <2>7 DEF DemuxSoFar
<1>2. CASE UNCHANGED wireVars
  <2>1. UNCHANGED <<msg, taken, data, demux, streams, wpc, outcome>> /\ Received' = Received
    BY <1>2 DEF wireVars, Received
  <2> QED  BY <2>1, DemuxStays DEF DemuxSoFar
<1>3. SUFFICES ASSUME msg \in Exchanges, msg' = msg, msg.reader = "oneshot",
                      ~SendRequest, ~UNCHANGED wireVars
               PROVE  DemuxSoFar'
  <2>1. wpc = "idle" => SendRequest \/ UNCHANGED wireVars
    BY DEF WireNext, ReadSocket, DecodeHeaders, DrainBody, FeedReturns,
           DrainOneshot,
           OneshotReturns, TakeHeader, TakePayload, SliceDone
  <2>2. ~SendRequest => msg' = msg
    BY DEF WireNext, ReadSocket, DecodeHeaders, DrainBody, FeedReturns,
           DrainOneshot,
           OneshotReturns, TakeHeader, TakePayload, SliceDone, wireVars
  <2>3. msg = msg' /\ msg.reader # "oneshot" => DemuxSoFar'
    BY DEF DemuxSoFar
  <2> QED  BY <1>1, <1>2, <2>1, <2>2, <2>3 DEF WireOrder, WireType
<1>4. /\ DemuxTypes /\ DemuxOwed /\ msg # NoMessage
      /\ wpc \notin {"demux", "done"} => data = <<>>
      /\ outcome = "none" <=> wpc # "done"
  BY <1>3, ExchangeType DEF DemuxSoFar, WireOrder
<1>5. CASE ReadSocket \/ DecodeHeaders \/ SliceDone \/ OneshotReturns
  <2>1. UNCHANGED <<msg, taken, data, demux, streams>>
    BY <1>5 DEF ReadSocket, DecodeHeaders, SliceDone, OneshotReturns
  <2>2. DemuxTypes' /\ DemuxOwed'
    BY <1>4, <2>1, DemuxStays
  <2>3. data = <<>>
    BY <1>4, <1>5 DEF ReadSocket, DecodeHeaders, SliceDone, OneshotReturns
  <2>4. outcome' # "exceeds"
    BY <1>4, <1>5
      DEF ReadSocket, DecodeHeaders, SliceDone, OneshotReturns, Return
  <2>5. outcome' = "ok" => taken' = Received'
    <3>1. CASE DecodeHeaders
      <4>1. msg.framing # "none"
        BY <1>3 DEF Exchanges
      <4> QED  BY <1>4, <3>1, <4>1 DEF DecodeHeaders, Return
    <3>2. CASE ReadSocket \/ SliceDone
      BY <1>4, <3>2 DEF ReadSocket, SliceDone, Return
    <3>3. CASE OneshotReturns
      BY <1>3, <3>3 DEF OneshotReturns, Received
    <3> QED  BY <1>5, <3>1, <3>2, <3>3
  <2> QED  BY <2>1, <2>2, <2>3, <2>4, <2>5 DEF DemuxSoFar
<1>6. CASE DrainOneshot
  <2>1. PICK n \in taken + 1 .. Received : data' = SubSeq(msg.body, taken + 1, n) /\ taken' = n
    BY <1>6 DEF DrainOneshot
  <2>2. /\ taken \in Nat /\ n \in Nat /\ taken <= n /\ n <= Len(msg.body)
    BY <1>3, <2>1, ReceivedBound DEF WireType
  <2>3. msg.body \in Seq(Nat)
    BY <1>3, BodyOfNumbers
  <2>4. data' \in Seq(Nat) /\ Len(data') = n - taken
    BY <2>1, <2>2, <2>3, SliceGrows
  <2>5. data = <<>> /\ UNCHANGED <<demux, streams, outcome>> /\ wpc' = "demux" /\ wpc = "body"
    BY <1>4, <1>6 DEF DrainOneshot
  <2>6. At = taken /\ At' = taken
    <3>1. At' = n - Len(data') /\ At = taken - Len(<<>>)
      BY <2>1, <2>5 DEF At
    <3> QED  BY <2>2, <2>4, <3>1
  <2>7. DemuxTypes'
    <3>1. data' = SubSeq(msg'.body, At' + 1, taken') /\ Len(data') <= taken'
      BY <1>3, <2>1, <2>2, <2>4, <2>6
    <3> QED  BY <1>3, <1>4, <2>4, <2>5, <2>6, <3>1 DEF DemuxTypes
  <2>8. \A m, s : Owed(m, s)' = Owed(m, s)
    BY <1>3, <2>5, <2>6 DEF Owed
  <2>9. DemuxOwed'
    BY <1>3, <1>4, <2>5, <2>6, <2>8 DEF DemuxOwed
  <2> QED  BY <1>4, <2>5, <2>7, <2>9 DEF DemuxSoFar
<1>7. CASE TakeHeader
  <2>1. DemuxTypes' /\ DemuxOwed'
    BY <1>3, <1>4, <1>7, StepHeader
  <2> QED  BY <1>4, <1>7, <2>1 DEF TakeHeader, DemuxSoFar
<1>8. CASE TakePayload
  <2>1. CASE wpc' = "done"
    <3>1. /\ UNCHANGED <<msg, taken, data, demux, streams>> /\ outcome' = "exceeds"
          /\ demux.in_payload /\ demux.stream_type \in 1..2
          /\ Len(streams[demux.stream_type]) + Smaller(demux.payload_remaining, Len(data))
               > StrictMax
      BY <1>8, <2>1 DEF TakePayload, Return
    <3>2. DemuxTypes' /\ DemuxOwed'
      BY <1>4, <3>1, DemuxStays
    <3>3. Len(Whole(msg.body, taken)[0][demux.stream_type]) > StrictMax
      BY <1>3, <1>4, <3>1, RefusedIsOver
    <3> QED  BY <2>1, <3>1, <3>2, <3>3 DEF DemuxSoFar
  <2>2. CASE wpc' # "done"
    <3>1. DemuxTypes' /\ DemuxOwed'
      BY <1>3, <1>4, <1>8, <2>2, StepPayload
    <3>2. wpc' = "demux" /\ outcome' = "none"
      BY <1>4, <1>8, <2>2 DEF TakePayload, Return
    <3> QED  BY <3>1, <3>2 DEF DemuxSoFar
  <2> QED  BY <2>1, <2>2
<1>9. ~DrainBody /\ ~FeedReturns
  BY <1>3 DEF DrainBody, FeedReturns
<1> QED  BY <1>3, <1>5, <1>6, <1>7, <1>8, <1>9 DEF WireNext

(* The invariant says what was to be shown. *)
LEMMA SoFarIsFaithful ==
  ASSUME WireType, WireOrder, DemuxSoFar
  PROVE  DemuxFaithful
<1> SUFFICES ASSUME msg.reader = "oneshot" PROVE DemuxFaithful
  BY DEF DemuxFaithful
<1>1. msg \in Exchanges /\ msg # NoMessage
  BY DEF WireType, NoMessage
<1>2. DemuxTypes /\ DemuxOwed
  BY <1>1 DEF DemuxSoFar
<1> DEFINE whole == DemuxExecStream(SubSeq(msg.body, 1, taken))
<1>3. /\ data = <<>> => streams = whole
      /\ whole = Whole(msg.body, taken)[0]
  BY <1>1, <1>2, SoFarIsWhole
<1>4. outcome = "ok" => taken = Received /\ data = <<>>
  BY <1>1 DEF DemuxSoFar
<1>5. outcome = "exceeds" => \E s \in 1..2 : Len(whole[s]) > StrictMax
  BY <1>1, <1>3 DEF DemuxSoFar
<1>6. data = <<>> => \A s \in 1..2 : Len(whole[s]) <= StrictMax
  BY <1>2, <1>3 DEF DemuxTypes
<1> HIDE DEF whole
<1> QED  BY <1>3, <1>4, <1>5, <1>6 DEF DemuxFaithful, whole

(* However the body is cut into pieces, FrameDemuxer::feed gives each      *)
(* stream the same bytes as demux_exec_stream gives it of the whole: none  *)
(* lost, repeated or moved to the other stream over a cut in a header or   *)
(* in a payload; what append refuses is over its limit. For any body and   *)
(* any limits.                                                             *)
THEOREM DemuxIsFaithful == WireSpec => []DemuxFaithful
<1> DEFINE Inv == WireType /\ WireOrder /\ DemuxSoFar
<1>1. WireInit => Inv
  BY InitWireInv DEF WireInit, WireInv, DemuxSoFar
<1>2. Inv /\ [WireNext]_wireVars => Inv'
  BY StepOrder, StepDemux
<1>3. Inv => DemuxFaithful
  BY SoFarIsFaithful
<1> QED  BY <1>1, <1>2, <1>3, PTL DEF WireSpec
=============================================================================
