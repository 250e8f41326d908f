--------------------------- MODULE LogStreamProofs ---------------------------
(***************************************************************************)
(* The shared log buffer is a window of its stream and no reader loses a   *)
(* byte silently, for every number of streams and readers and every limit; *)
(* the count of the consumers is exact.                                    *)
(***************************************************************************)
EXTENDS LogStream, SequenceTheorems, FiniteSetTheorems, TLAPS

(* A run of consecutive positions that starts at h. *)
IsWindow(q, h) == \A i \in 1..Len(q) : q[i] = h + i - 1

(* What the container wrote between two positions is a window.             *)
LEMMA RunIsWindow ==
  ASSUME NEW h \in Nat, NEW n \in Nat
  PROVE  /\ [i \in 1..n |-> h + i - 1] \in Seq(Nat)
         /\ Len([i \in 1..n |-> h + i - 1]) = n
         /\ IsWindow([i \in 1..n |-> h + i - 1], h)
<1> DEFINE f == [i \in 1..n |-> h + i - 1]
<1>1. \A i \in 1..n : h + i - 1 \in Nat
  OBVIOUS
<1>2. f \in [1..n -> Nat]
  BY <1>1
<1>3. f \in Seq(Nat) /\ Len(f) = n
  BY <1>2
<1>4. \A i \in 1..n : f[i] = h + i - 1
  OBVIOUS
<1> QED
  BY <1>3, <1>4 DEF IsWindow

(* Pushing the bytes that follow keeps a window a window.                  *)
LEMMA PushWindow ==
  ASSUME NEW q \in Seq(Nat), NEW h \in Nat, IsWindow(q, h),
         NEW t \in Seq(Nat), IsWindow(t, h + Len(q))
  PROVE  /\ q \o t \in Seq(Nat)
         /\ Len(q \o t) = Len(q) + Len(t)
         /\ IsWindow(q \o t, h)
<1>1. q \o t \in Seq(Nat) /\ Len(q \o t) = Len(q) + Len(t)
  BY ConcatProperties
<1>2. ASSUME NEW i \in 1..Len(q \o t) PROVE (q \o t)[i] = h + i - 1
  <2>1. Len(q) \in Nat /\ Len(t) \in Nat
    BY LenProperties
  <2>2. CASE i <= Len(q)
    <3>1. (q \o t)[i] = q[i]
      BY <1>1, <2>1, <2>2, ConcatProperties
    <3> QED BY <1>1, <2>1, <2>2, <3>1 DEF IsWindow
  <2>3. CASE i > Len(q)
    <3>1. (q \o t)[i] = t[i - Len(q)]
      BY <1>1, <2>1, <2>3, ConcatProperties
    <3>2. i - Len(q) \in 1..Len(t)
      BY <1>1, <2>1, <2>3
    <3>3. t[i - Len(q)] = h + Len(q) + (i - Len(q)) - 1
      BY <3>2 DEF IsWindow
    <3> QED BY <1>1, <2>1, <3>1, <3>2, <3>3
  <2> QED BY <2>1, <2>2, <2>3
<1> QED
  BY <1>1, <1>2 DEF IsWindow

(* A part of a window is the window that starts so many bytes later.       *)
LEMMA CutWindow ==
  ASSUME NEW q \in Seq(Nat), NEW h \in Nat, IsWindow(q, h),
         NEW a \in Nat, NEW b \in Nat, a <= b, b <= Len(q)
  PROVE  /\ SubSeq(q, a + 1, b) \in Seq(Nat)
         /\ Len(SubSeq(q, a + 1, b)) = b - a
         /\ IsWindow(SubSeq(q, a + 1, b), h + a)
<1> DEFINE t == SubSeq(q, a + 1, b)
<1>1. Len(q) \in Nat
  BY LenProperties
<1>2. \A i \in (a + 1)..b : i \in 1..Len(q)
  BY <1>1
<1>3. t \in Seq(Nat) /\ Len(t) = b - a /\ \A i \in 1..(b - a) : t[i] = q[a + i]
  <2>1. \A i \in (a + 1)..b : q[i] \in Nat
    BY <1>2, ElementOfSeq
  <2> QED BY <1>1, <1>2, <2>1, SubSeqProperties
<1>4. \A i \in 1..(b - a) : q[a + i] = h + a + i - 1
  <2>1. ASSUME NEW i \in 1..(b - a) PROVE q[a + i] = h + a + i - 1
    <3>1. a + i \in 1..Len(q)
      BY <1>1
    <3>2. q[a + i] = h + (a + i) - 1
      BY <3>1 DEF IsWindow
    <3> QED BY <3>1, <3>2
  <2> QED BY <2>1
<1> QED
  BY <1>3, <1>4 DEF IsWindow

(* Positions in strictly increasing order, and all below o. *)
Ordered(q) == \A i, j \in 1..Len(q) : i < j => q[i] < q[j]
Below(q, o) == \A i \in 1..Len(q) : q[i] < o

(* Delivering a window that starts at or after o behind bytes below o.     *)
LEMMA DeliverMore ==
  ASSUME NEW q \in Seq(Nat), NEW o \in Nat, Ordered(q), Below(q, o),
         NEW f \in Nat, o <= f, NEW t \in Seq(Nat), IsWindow(t, f)
  PROVE  /\ q \o t \in Seq(Nat)
         /\ Ordered(q \o t)
         /\ Below(q \o t, f + Len(t))
<1>1. /\ q \o t \in Seq(Nat) /\ Len(q \o t) = Len(q) + Len(t)
      /\ Len(q) \in Nat /\ Len(t) \in Nat
  BY ConcatProperties, LenProperties
<1>2. ASSUME NEW i \in 1..Len(q \o t), i <= Len(q)
      PROVE  i \in 1..Len(q) /\ (q \o t)[i] = q[i] /\ q[i] < o /\ q[i] \in Nat
  BY <1>1, <1>2, ConcatProperties, ElementOfSeq DEF Below
<1>3. ASSUME NEW i \in 1..Len(q \o t), i > Len(q)
      PROVE  (q \o t)[i] = f + (i - Len(q)) - 1
  <2>1. (q \o t)[i] = t[i - Len(q)]
    BY <1>1, <1>3, ConcatProperties
  <2>2. i - Len(q) \in 1..Len(t)
    BY <1>1, <1>3
  <2> QED BY <2>1, <2>2 DEF IsWindow
<1>4. Below(q \o t, f + Len(t))
  <2>1. ASSUME NEW i \in 1..Len(q \o t) PROVE (q \o t)[i] < f + Len(t)
    <3>1. CASE i <= Len(q)
      BY <1>1, <1>2, <3>1
    <3>2. CASE i > Len(q)
      BY <1>1, <1>3, <3>2
    <3> QED BY <1>1, <3>1, <3>2
  <2> QED BY <2>1 DEF Below
<1>5. Ordered(q \o t)
  <2>1. ASSUME NEW i \in 1..Len(q \o t), NEW j \in 1..Len(q \o t), i < j
        PROVE  (q \o t)[i] < (q \o t)[j]
    <3>1. CASE j <= Len(q)
      <4>1. i <= Len(q)
        BY <1>1, <2>1, <3>1
      <4> QED BY <1>2, <2>1, <3>1, <4>1 DEF Ordered
    <3>2. CASE i <= Len(q) /\ j > Len(q)
      BY <1>1, <1>2, <1>3, <3>2
    <3>3. CASE i > Len(q) /\ j > Len(q)
      BY <1>1, <1>3, <2>1, <3>3
    <3> QED BY <1>1, <2>1, <3>1, <3>2, <3>3
  <2> QED BY <2>1 DEF Ordered
<1> QED
  BY <1>1, <1>4, <1>5

------------------------------------------------------------------------------
(* The inductive invariant.  BufferIsWindow alone is not inductive: what   *)
(* append pushes has to be the bytes that follow the buffer, which is what *)
(* Fed says of the bytes taken off the socket.                             *)

(* The buffers hold the stream up to what the session thread has fed. *)
Fed ==
  \A s \in Streams :
    /\ chunk[s] <= got[s]
    /\ End(s) = got[s] - chunk[s]
    /\ dpc \in {"start", "notify", "read"} => chunk[s] = 0

Windows == \A s \in Streams : Len(buf[s]) <= Limit /\ IsWindow(buf[s], head[s])

(* A reader has delivered only bytes below its offset, which is never past *)
(* the end of the buffer, and all of them unless it has warned.            *)
Delivered(r) ==
  /\ offset[r] <= End(StreamOf[r])
  /\ Ordered(seen[r]) /\ Below(seen[r], offset[r])
  /\ ~warned[r] => Len(seen[r]) = offset[r] /\ IsWindow(seen[r], 0)

IInv == TypeOK /\ Fed /\ Windows /\ \A r \in Readers : Delivered(r)

(* The arithmetic of append: l bytes are cut down to the limit m.          *)
LEMMA DropArithmetic ==
  ASSUME NEW l \in Nat, NEW m \in Nat, NEW d \in Int,
         d = IF l > m THEN l - m ELSE 0
  PROVE  d \in Nat /\ d <= l /\ l - d <= m
  OBVIOUS

(* append keeps the buffer a window: it drops exactly what it counts.      *)
LEMMA AppendWindow ==
  ASSUME TypeOK, Fed, Windows, NEW s \in Streams
  PROVE  /\ append(s, chunk[s]).bytes \in Seq(Nat)
         /\ append(s, chunk[s]).head \in Nat
         /\ Len(append(s, chunk[s]).bytes) <= Limit
         /\ append(s, chunk[s]).head + Len(append(s, chunk[s]).bytes) = got[s]
         /\ IsWindow(append(s, chunk[s]).bytes, append(s, chunk[s]).head)
<1> DEFINE n == chunk[s]
           q == buf[s]
           h == head[s]
           new == [i \in 1..n |-> h + Len(q) + i - 1]
           all == q \o new
           drop == IF Len(all) > Limit THEN Len(all) - Limit ELSE 0
           t == SubSeq(all, drop + 1, Len(all))
<1>1. /\ got[s] \in Nat /\ n \in Nat /\ h \in Nat /\ q \in Seq(Nat)
      /\ Len(q) \in Nat /\ Limit \in Nat /\ MaxChunk \in Nat
  BY BoundAssumption, LenProperties DEF TypeOK
<1>2. h + Len(q) = got[s] - n /\ n <= got[s] /\ IsWindow(q, h)
  BY DEF Fed, End, Windows
<1>3. Pushed(s, n) = all
  BY <1>1, <1>2 DEF Pushed
<1>4. append(s, n) = [bytes |-> t, head |-> h + drop]
  BY <1>3 DEF append
<1>5. new \in Seq(Nat) /\ Len(new) = n /\ IsWindow(new, h + Len(q))
  <2>1. h + Len(q) \in Nat
    BY <1>1
  <2> HIDE DEF n, q, h
  <2> QED BY <1>1, <2>1, RunIsWindow
<1>6. all \in Seq(Nat) /\ Len(all) = Len(q) + n /\ IsWindow(all, h)
  BY <1>1, <1>2, <1>5, PushWindow
<1> HIDE DEF n, q, h, all
<1>7. /\ drop \in Nat /\ drop <= Len(all) /\ Len(all) \in Nat
      /\ Len(all) - drop <= Limit
  <2>1. Len(all) \in Nat /\ drop \in Int
    BY <1>1, <1>6
  <2> QED BY <1>1, <2>1, DropArithmetic
<1>8. t \in Seq(Nat) /\ Len(t) = Len(all) - drop /\ IsWindow(t, h + drop)
  <2> HIDE DEF drop
  <2> QED BY <1>1, <1>6, <1>7, CutWindow
<1> HIDE DEF t, drop
<1>9. h + drop \in Nat /\ h + drop + Len(t) = got[s] /\ Len(t) <= Limit
  <2> DEFINE l == Len(q)
             m == Len(all)
             k == Len(t)
             g == got[s]
  <2>1. /\ g \in Nat /\ n \in Nat /\ h \in Nat /\ l \in Nat /\ Limit \in Nat
        /\ h + l = g - n /\ m = l + n /\ drop \in Nat /\ k = m - drop
        /\ m - drop <= Limit
    BY <1>1, <1>2, <1>6, <1>7, <1>8
  <2> HIDE DEF l, m, k, g
  <2>2. h + drop \in Nat /\ h + drop + k = g /\ k <= Limit
    BY <2>1
  <2> QED BY <2>2 DEF k, g
<1>10. append(s, n).bytes = t /\ append(s, n).head = h + drop
  BY <1>4
<1> QED
  BY <1>8, <1>9, <1>10 DEF n

(* read_at returns the bytes from the offset or, with the skip mark, from  *)
(* the head on, and moves the offset by what it returned.                  *)
LEMMA ReadWindow ==
  ASSUME TypeOK, Windows, NEW r \in Readers, NEW n \in 1..MaxChunk,
         offset[r] <= End(StreamOf[r])
  PROVE  \E f \in Nat, t \in Seq(Nat) :
           /\ read_at(StreamOf[r], offset[r], n)
                = [bytes |-> t, next |-> f + Len(t), skipped |-> f # offset[r]]
           /\ offset[r] <= f /\ IsWindow(t, f)
           /\ f + Len(t) <= End(StreamOf[r])
<1> DEFINE s == StreamOf[r]
           q == buf[s]
           h == head[s]
           o == offset[r]
           from == IF o < h THEN h ELSE o
           have == End(s) - from
           len == IF have <= 0 THEN 0 ELSE IF have < n THEN have ELSE n
           t == SubSeq(q, from - h + 1, from - h + len)
<1>1. s \in Streams
  BY ReaderAssumption
<1>2. /\ o \in Nat /\ h \in Nat /\ q \in Seq(Nat) /\ Len(q) \in Nat
      /\ IsWindow(q, h) /\ End(s) = h + Len(q) /\ o <= h + Len(q)
  BY <1>1, LenProperties DEF TypeOK, Windows, End
<1>3. n \in Nat
  BY BoundAssumption
<1>4. read_at(s, o, n) = [bytes |-> t, next |-> from + len, skipped |-> o < h]
  BY DEF read_at
<1> HIDE DEF s, q, h, o
<1>5. /\ from \in Nat /\ h <= from /\ o <= from /\ (o < h <=> from # o)
      /\ len \in Nat /\ from + len <= h + Len(q)
      /\ from - h \in Nat /\ from - h + len \in Nat
      /\ from - h <= from - h + len /\ from - h + len <= Len(q)
      /\ h + (from - h) = from /\ (from - h + len) - (from - h) = len
  <2>1. from \in Nat
    BY <1>2
  <2>2. have = h + Len(q) - from
    BY <1>2
  <2>3. len \in Int
    BY <1>2, <1>3, <2>1, <2>2
  <2> DEFINE l == Len(q)
  <2>4. len = IF h + l - from <= 0 THEN 0
              ELSE IF h + l - from < n THEN h + l - from ELSE n
    BY <2>2
  <2>5. from = IF o < h THEN h ELSE o
    OBVIOUS
  <2>6. h \in Nat /\ l \in Nat /\ o \in Nat /\ o <= h + l
    BY <1>2
  <2> HIDE DEF from, len, have, l
  <2>7. h <= from /\ o <= from /\ (o < h <=> from # o) /\ from <= h + l
    BY <2>1, <2>5, <2>6
  <2>8. len \in Nat /\ from + len <= h + l
    BY <1>3, <2>1, <2>3, <2>4, <2>6, <2>7
  <2>9. /\ from - h \in Nat /\ from - h + len \in Nat
        /\ from - h <= from - h + len /\ from - h + len <= l
        /\ h + (from - h) = from /\ (from - h + len) - (from - h) = len
    BY <2>1, <2>6, <2>7, <2>8
  <2> QED BY <2>1, <2>7, <2>8, <2>9 DEF l
<1> HIDE DEF from, len
<1>7. t \in Seq(Nat) /\ Len(t) = len /\ IsWindow(t, from)
  <2> DEFINE a == from - h
             b == from - h + len
  <2>1. /\ a \in Nat /\ b \in Nat /\ a <= b /\ b <= Len(q)
        /\ h + a = from /\ b - a = len
    BY <1>5
  <2>2. t = SubSeq(q, a + 1, b)
    OBVIOUS
  <2>3. q \in Seq(Nat) /\ h \in Nat /\ IsWindow(q, h)
    BY <1>2
  <2> HIDE DEF a, b, t
  <2> QED BY <2>1, <2>2, <2>3, CutWindow
<1> HIDE DEF t
<1>8. (o < h) = (from # o)
  BY <1>5
<1>9. read_at(s, o, n) = [bytes |-> t, next |-> from + Len(t), skipped |-> from # o]
  BY <1>4, <1>7, <1>8
<1>10. from + Len(t) <= End(s)
  BY <1>2, <1>5, <1>7
<1> QED
  BY <1>5, <1>7, <1>9, <1>10 DEF s, o

(* Everything is empty at the start.                                       *)
LEMMA InitIInv == Init => IInv
<1> SUFFICES ASSUME Init PROVE IInv
  OBVIOUS
<1>1. \A q : q = <<>> => q \in Seq(Nat) /\ Len(q) = 0
  OBVIOUS
<1>2. TypeOK
  <2>1. buf \in [Streams -> Seq(Nat)] /\ seen \in [Readers -> Seq(Nat)]
    BY <1>1 DEF Init
  <2>2. chunk \in [Streams -> 0..MaxChunk]
    BY BoundAssumption DEF Init, Empty
  <2>3. sent \in [Streams -> Nat] /\ got \in [Streams -> Nat] /\ head \in [Streams -> Nat]
    BY DEF Init, Empty
  <2>4. terminated \in [Streams -> BOOLEAN] /\ warned \in [Readers -> BOOLEAN]
    BY Zenon DEF Init
  <2>5. /\ rpc \in [Readers -> {"unborn"} \cup Live \cup Ended]
        /\ offset \in [Readers -> Nat]
        /\ wait \in [Readers -> {"none", "registered", "notified"}]
    BY DEF Init
  <2>6. /\ open \in BOOLEAN /\ logStop \in BOOLEAN /\ cloned \in BOOLEAN
        /\ shut \in BOOLEAN /\ demuxDone \in BOOLEAN
    BY Zenon DEF Init
  <2>7. active \in Int /\ todo \in SUBSET Streams
    BY DEF Init
  <2> QED BY <2>1, <2>2, <2>3, <2>4, <2>5, <2>6, <2>7 DEF Init, TypeOK
<1>3. Fed
  BY <1>1 DEF Init, Empty, Fed, End
<1>4. Windows
  BY <1>1, BoundAssumption DEF Init, Windows, IsWindow
<1>5. ASSUME NEW r \in Readers PROVE Delivered(r)
  <2>1. offset[r] = 0 /\ Len(seen[r]) = 0
    BY <1>1 DEF Init
  <2>2. End(StreamOf[r]) = 0
    <3>1. StreamOf[r] \in Streams
      BY ReaderAssumption
    <3> QED BY <1>1, <3>1 DEF Init, Empty, End
  <2> QED BY <2>1, <2>2 DEF Delivered, Ordered, Below, IsWindow
<1> QED
  BY <1>2, <1>3, <1>4, <1>5 DEF IInv

(* A step that moves no byte keeps the invariant.                          *)
LEMMA NoByteMoves ==
  ASSUME IInv, TypeOK', UNCHANGED <<got, chunk, buf, head, offset, warned, seen>>,
         dpc' \in {"start", "notify", "read"} => \A s \in Streams : chunk[s] = 0
  PROVE  IInv'
<1>1. Fed'
  BY DEF IInv, Fed, End
<1>2. Windows'
  BY DEF IInv, Windows
<1>3. \A r \in Readers : Delivered(r)'
  BY DEF IInv, Delivered, End
<1> QED
  BY <1>1, <1>2, <1>3 DEF IInv

(* drain_decoded: the fed bytes are the next of each stream.               *)
LEMMA FeedIInv == ASSUME IInv, Feed PROVE IInv'
<1> USE DEF IInv
<1>1. \A s \in Streams :
        /\ buf'[s] \in Seq(Nat) /\ head'[s] \in Nat
        /\ Len(buf'[s]) <= Limit /\ IsWindow(buf'[s], head'[s])
        /\ head'[s] + Len(buf'[s]) = got[s]
  BY AppendWindow DEF Feed
<1>2. TypeOK'
  <2>1. buf' \in [Streams -> Seq(Nat)] /\ head' \in [Streams -> Nat]
    BY <1>1 DEF Feed
  <2>2. chunk' \in [Streams -> 0..MaxChunk]
    BY BoundAssumption DEF Feed, Empty
  <2>3. todo' \in SUBSET Streams
    BY DEF Feed
  <2> QED BY <2>1, <2>2, <2>3 DEF TypeOK, Live, Ended, Feed, daemonVars, handleVars, readerVars
<1>3. \A s \in Streams : got'[s] = got[s] /\ got[s] \in Nat /\ chunk'[s] = 0
  BY DEF Feed, Empty, TypeOK
<1>4. Fed'
  BY <1>1, <1>3 DEF Fed, End
<1>5. Windows'
  BY <1>1 DEF Windows
<1>6. ASSUME NEW r \in Readers PROVE Delivered(r)'
  <2> DEFINE s == StreamOf[r]
  <2>1. s \in Streams
    BY ReaderAssumption
  <2>2. chunk[s] \in Nat /\ got[s] \in Nat /\ offset[r] \in Nat
    BY <2>1, BoundAssumption DEF TypeOK
  <2>3. End(s) = got[s] - chunk[s] /\ End(s)' = got[s]
    BY <1>1, <2>1 DEF Fed, End
  <2>4. offset'[r] = offset[r] /\ seen'[r] = seen[r] /\ warned'[r] = warned[r]
    BY DEF Feed, readerVars
  <2>5. Delivered(r)
    OBVIOUS
  <2> HIDE DEF s
  <2>6. offset[r] <= End(s)'
    BY <2>2, <2>3, <2>5 DEF Delivered, s
  <2> QED BY <2>4, <2>5, <2>6 DEF Delivered, s
<1> QED
  BY <1>2, <1>4, <1>5, <1>6

(* socket_read: bytes leave the socket, none is stored yet.                *)
LEMMA ReadDataIInv == ASSUME IInv, ReadData PROVE IInv'
<1> USE DEF IInv
<1>1. PICK c \in [Streams -> 0..MaxChunk] :
        chunk' = c /\ got' = [s \in Streams |-> got[s] + c[s]]
  BY DEF ReadData
<1>2. \A s \in Streams : /\ c[s] \in Nat /\ got[s] \in Nat /\ chunk[s] = 0
                         /\ got'[s] = got[s] + c[s] /\ chunk'[s] = c[s]
  BY <1>1, BoundAssumption DEF TypeOK, Fed, ReadData
<1>3. TypeOK'
  <2>1. got' \in [Streams -> Nat] /\ chunk' \in [Streams -> 0..MaxChunk]
    BY <1>1, <1>2
  <2> QED BY <2>1 DEF TypeOK, Live, Ended, ReadData, daemonVars, handleVars,
                      bufferVars, readerVars
<1>4. buf' = buf /\ head' = head /\ dpc' = "check"
  BY DEF ReadData, bufferVars
<1>5. Fed'
  <2>1. ASSUME NEW s \in Streams
        PROVE  chunk'[s] <= got'[s] /\ End(s)' = got'[s] - chunk'[s]
    <3>1. End(s)' = End(s) /\ End(s) = got[s] - chunk[s]
      BY <1>4 DEF End, Fed
    <3> QED BY <1>2, <3>1
  <2> QED BY <1>4, <2>1 DEF Fed
<1>6. Windows'
  BY <1>4 DEF Windows
<1>7. \A r \in Readers : Delivered(r)'
  BY <1>4 DEF Delivered, End, ReadData, readerVars
<1> QED
  BY <1>3, <1>5, <1>6, <1>7

(* poll_fill / SyncLogReader::read: what is delivered follows what was     *)
(* delivered before, and a gap is marked.                                  *)
LEMMA ReadBufferIInv == ASSUME IInv, NEW r \in Readers, ReadBuffer(r) PROVE IInv'
<1> USE DEF IInv
<1>1. PICK n \in 1..MaxChunk :
        LET g == read_at(StreamOf[r], offset[r], n) IN
        /\ offset' = [offset EXCEPT ![r] = g.next]
        /\ warned' = [warned EXCEPT ![r] = @ \/ g.skipped]
        /\ seen' = [seen EXCEPT ![r] = @ \o g.bytes]
        /\ \/ /\ rpc' = [rpc EXCEPT ![r] = IF r \in AsyncReaders
                                          THEN "poll" ELSE "read"]
              /\ wait' = [wait EXCEPT ![r] = "none"]
           \/ rpc' = [rpc EXCEPT ![r] = "check"] /\ UNCHANGED wait
  BY DEF ReadBuffer
<1>t. /\ rpc' \in [Readers -> {"unborn"} \cup Live \cup Ended]
      /\ wait' \in [Readers -> {"none", "registered", "notified"}]
  BY <1>1 DEF TypeOK, Live
<1>2. offset[r] <= End(StreamOf[r])
  BY DEF Delivered
<1>3. PICK f \in Nat, t \in Seq(Nat) :
        /\ read_at(StreamOf[r], offset[r], n)
             = [bytes |-> t, next |-> f + Len(t), skipped |-> f # offset[r]]
        /\ offset[r] <= f /\ IsWindow(t, f) /\ f + Len(t) <= End(StreamOf[r])
  BY <1>2, ReadWindow
<1>4. /\ offset' = [offset EXCEPT ![r] = f + Len(t)]
      /\ warned' = [warned EXCEPT ![r] = @ \/ f # offset[r]]
      /\ seen' = [seen EXCEPT ![r] = @ \o t]
  <2>1. /\ read_at(StreamOf[r], offset[r], n).next = f + Len(t)
        /\ read_at(StreamOf[r], offset[r], n).bytes = t
        /\ read_at(StreamOf[r], offset[r], n).skipped = (f # offset[r])
    BY <1>3
  <2> QED BY <1>1, <2>1
<1>5. /\ seen[r] \in Seq(Nat) /\ offset[r] \in Nat /\ Len(t) \in Nat
      /\ Ordered(seen[r]) /\ Below(seen[r], offset[r])
  BY LenProperties DEF TypeOK, Delivered
<1>6. /\ seen[r] \o t \in Seq(Nat) /\ Ordered(seen[r] \o t)
      /\ Below(seen[r] \o t, f + Len(t))
  BY <1>3, <1>5, DeliverMore
<1>7. UNCHANGED <<got, chunk, buf, head, dpc>>
  BY DEF ReadBuffer, bufferVars, sessionVars
<1>8. TypeOK'
  <2>1. offset' \in [Readers -> Nat]
    BY <1>4, <1>5 DEF TypeOK
  <2>2. warned' \in [Readers -> BOOLEAN]
    <3>1. ASSUME NEW x \in Readers PROVE warned'[x] \in BOOLEAN
      BY <1>4 DEF TypeOK
    <3> QED BY <1>4, <3>1 DEF TypeOK
  <2>3. seen' \in [Readers -> Seq(Nat)]
    BY <1>4, <1>6 DEF TypeOK
  <2> QED BY <1>t, <2>1, <2>2, <2>3 DEF TypeOK, ReadBuffer, daemonVars,
                                        handleVars, bufferVars, sessionVars
<1>9. Fed' /\ Windows'
  BY <1>7 DEF Fed, Windows, End
<1>10. Delivered(r)'
  <2>1. offset'[r] = f + Len(t) /\ seen'[r] = seen[r] \o t
    BY <1>4 DEF TypeOK
  <2>2. ~warned'[r] => ~warned[r] /\ f = offset[r]
    BY <1>4 DEF TypeOK
  <2>3. ~warned'[r] => Len(seen[r]) = f /\ IsWindow(seen[r], 0)
    BY <2>2 DEF Delivered
  <2>4. ASSUME Len(seen[r]) = f, IsWindow(seen[r], 0)
        PROVE  Len(seen[r] \o t) = f + Len(t) /\ IsWindow(seen[r] \o t, 0)
    <3>1. 0 + Len(seen[r]) = f
      BY <2>4
    <3>2. IsWindow(t, 0 + Len(seen[r])) /\ 0 \in Nat
      BY <1>3, <3>1
    <3>3. Len(seen[r] \o t) = Len(seen[r]) + Len(t) /\ IsWindow(seen[r] \o t, 0)
      BY <1>5, <2>4, <3>2, PushWindow
    <3> QED BY <2>4, <3>3
  <2>5. offset'[r] <= End(StreamOf[r])'
    BY <1>3, <1>7, <2>1 DEF End
  <2> QED BY <1>6, <2>1, <2>3, <2>4, <2>5 DEF Delivered
<1>11. ASSUME NEW x \in Readers, x # r PROVE Delivered(x)'
  <2>1. offset'[x] = offset[x] /\ seen'[x] = seen[x] /\ warned'[x] = warned[x]
    BY <1>4, <1>11 DEF TypeOK
  <2>2. End(StreamOf[x])' = End(StreamOf[x])
    BY <1>7 DEF End
  <2> QED BY <2>1, <2>2 DEF Delivered
<1> QED
  BY <1>8, <1>9, <1>10, <1>11

(* Every step keeps the invariant.                                         *)
LEMMA NextIInv == IInv /\ [Next]_vars => IInv'
<1> SUFFICES ASSUME IInv, [Next]_vars PROVE IInv'
  OBVIOUS
<1> USE DEF IInv
<1>z. \A s \in Streams : dpc \in {"start", "notify", "read"} => chunk[s] = 0
  BY DEF Fed
<1>1. ASSUME NEW s \in Streams, DaemonWrite(s) PROVE IInv'
  <2>1. TypeOK'
    BY <1>1 DEF TypeOK, Live, Ended, DaemonWrite, handleVars, bufferVars,
       sessionVars, readerVars
  <2>2. UNCHANGED <<got, chunk, buf, head, offset, warned, seen>>
    BY <1>1 DEF DaemonWrite, handleVars, bufferVars, sessionVars, readerVars
  <2>3. dpc' \in {"start", "notify", "read"} => \A x \in Streams : chunk[x] = 0
    BY <1>1, <1>z DEF DaemonWrite, handleVars, bufferVars, sessionVars,
       readerVars
  <2> QED BY <2>1, <2>2, <2>3, NoByteMoves
<1>2. CASE DaemonClose
  <2>1. TypeOK'
    BY <1>2 DEF TypeOK, Live, Ended, DaemonClose, handleVars, bufferVars,
       sessionVars, readerVars
  <2>2. UNCHANGED <<got, chunk, buf, head, offset, warned, seen>>
    BY <1>2 DEF DaemonClose, handleVars, bufferVars, sessionVars, readerVars
  <2>3. dpc' \in {"start", "notify", "read"} => \A x \in Streams : chunk[x] = 0
    BY <1>2, <1>z DEF DaemonClose, handleVars, bufferVars, sessionVars,
       readerVars
  <2> QED BY <2>1, <2>2, <2>3, NoByteMoves
<1>3. CASE CallerCancel
  <2>1. TypeOK'
    BY <1>3 DEF TypeOK, Live, Ended, CallerCancel, daemonVars, bufferVars,
       sessionVars, readerVars
  <2>2. UNCHANGED <<got, chunk, buf, head, offset, warned, seen>>
    BY <1>3 DEF CallerCancel, daemonVars, bufferVars, sessionVars,
       readerVars
  <2>3. dpc' \in {"start", "notify", "read"} => \A x \in Streams : chunk[x] = 0
    BY <1>3, <1>z DEF CallerCancel, daemonVars, bufferVars, sessionVars,
       readerVars
  <2> QED BY <2>1, <2>2, <2>3, NoByteMoves
<1>4. CASE ReadError
  <2>1. TypeOK'
    BY <1>4 DEF TypeOK, Live, Ended, ReadError, daemonVars, handleVars,
       bufferVars, readerVars
  <2>2. UNCHANGED <<got, chunk, buf, head, offset, warned, seen>>
    BY <1>4 DEF ReadError, daemonVars, handleVars, bufferVars, readerVars
  <2>3. dpc' \in {"start", "notify", "read"} => \A x \in Streams : chunk[x] = 0
    BY <1>4, <1>z DEF ReadError, daemonVars, handleVars, bufferVars,
       readerVars
  <2> QED BY <2>1, <2>2, <2>3, NoByteMoves
<1>5. CASE StartFail
  <2>1. TypeOK'
    BY <1>5 DEF TypeOK, Live, Ended, StartFail, daemonVars, bufferVars,
       readerVars
  <2>2. UNCHANGED <<got, chunk, buf, head, offset, warned, seen>>
    BY <1>5 DEF StartFail, daemonVars, bufferVars, readerVars
  <2>3. dpc' \in {"start", "notify", "read"} => \A x \in Streams : chunk[x] = 0
    BY <1>5, <1>z DEF StartFail, daemonVars, bufferVars, readerVars
  <2> QED BY <2>1, <2>2, <2>3, NoByteMoves
<1>6. CASE StartOk
  <2>1. TypeOK'
    BY <1>6 DEF TypeOK, Live, Ended, StartOk, daemonVars, bufferVars,
       readerVars
  <2>2. UNCHANGED <<got, chunk, buf, head, offset, warned, seen>>
    BY <1>6 DEF StartOk, daemonVars, bufferVars, readerVars
  <2>3. dpc' \in {"start", "notify", "read"} => \A x \in Streams : chunk[x] = 0
    BY <1>6, <1>z DEF StartOk, daemonVars, bufferVars, readerVars
  <2> QED BY <2>1, <2>2, <2>3, NoByteMoves
<1>7. CASE CheckStop
  <2>1. TypeOK'
    BY <1>7 DEF TypeOK, Live, Ended, CheckStop, daemonVars, handleVars,
       bufferVars, readerVars
  <2>2. UNCHANGED <<got, chunk, buf, head, offset, warned, seen>>
    BY <1>7 DEF CheckStop, daemonVars, handleVars, bufferVars, readerVars
  <2>3. dpc' \in {"start", "notify", "read"} => \A x \in Streams : chunk[x] = 0
    BY <1>7, <1>z DEF CheckStop, daemonVars, handleVars, bufferVars,
       readerVars
  <2> QED BY <2>1, <2>2, <2>3, NoByteMoves
<1>8. ASSUME NEW s \in Streams, FeedNotify(s) PROVE IInv'
  <2>1. TypeOK'
    BY <1>8 DEF TypeOK, Live, Ended, FeedNotify, Woken, daemonVars,
       handleVars, bufferVars
  <2>2. UNCHANGED <<got, chunk, buf, head, offset, warned, seen>>
    BY <1>8 DEF FeedNotify, daemonVars, handleVars, bufferVars
  <2>3. dpc' \in {"start", "notify", "read"} => \A x \in Streams : chunk[x] = 0
    BY <1>8, <1>z DEF FeedNotify, daemonVars, handleVars, bufferVars
  <2> QED BY <2>1, <2>2, <2>3, NoByteMoves
<1>9. CASE FeedDone
  <2>1. TypeOK'
    BY <1>9 DEF TypeOK, Live, Ended, FeedDone, daemonVars, handleVars,
       bufferVars, readerVars
  <2>2. UNCHANGED <<got, chunk, buf, head, offset, warned, seen>>
    BY <1>9 DEF FeedDone, daemonVars, handleVars, bufferVars, readerVars
  <2>3. dpc' \in {"start", "notify", "read"} => \A x \in Streams : chunk[x] = 0
    BY <1>9, <1>z DEF FeedDone, daemonVars, handleVars, bufferVars,
       readerVars
  <2> QED BY <2>1, <2>2, <2>3, NoByteMoves
<1>10. CASE ReadEof
  <2>1. TypeOK'
    BY <1>10 DEF TypeOK, Live, Ended, ReadEof, daemonVars, handleVars,
       bufferVars, readerVars
  <2>2. UNCHANGED <<got, chunk, buf, head, offset, warned, seen>>
    BY <1>10 DEF ReadEof, daemonVars, handleVars, bufferVars, readerVars
  <2>3. dpc' \in {"start", "notify", "read"} => \A x \in Streams : chunk[x] = 0
    BY <1>10, <1>z DEF ReadEof, daemonVars, handleVars, bufferVars,
       readerVars
  <2> QED BY <2>1, <2>2, <2>3, NoByteMoves
<1>11. ASSUME NEW s \in Streams, Terminate(s) PROVE IInv'
  <2>1. TypeOK'
    BY <1>11 DEF TypeOK, Live, Ended, Terminate, daemonVars, handleVars,
       readerVars
  <2>2. UNCHANGED <<got, chunk, buf, head, offset, warned, seen>>
    BY <1>11 DEF Terminate, daemonVars, handleVars, readerVars
  <2>3. dpc' \in {"start", "notify", "read"} => \A x \in Streams : chunk[x] = 0
    BY <1>11, <1>z DEF Terminate, daemonVars, handleVars, readerVars
  <2> QED BY <2>1, <2>2, <2>3, NoByteMoves
<1>12. ASSUME NEW s \in Streams, TerminateNotify(s) PROVE IInv'
  <2>1. TypeOK'
    BY <1>12 DEF TypeOK, Live, Ended, TerminateNotify, Woken, daemonVars,
       handleVars, bufferVars
  <2>2. UNCHANGED <<got, chunk, buf, head, offset, warned, seen>>
    BY <1>12 DEF TerminateNotify, daemonVars, handleVars, bufferVars
  <2>3. dpc' \in {"start", "notify", "read"} => \A x \in Streams : chunk[x] = 0
    BY <1>12, <1>z DEF TerminateNotify, daemonVars, handleVars, bufferVars
  <2> QED BY <2>1, <2>2, <2>3, NoByteMoves
<1>13. CASE SetDemuxDone
  <2>1. TypeOK'
    BY <1>13 DEF TypeOK, Live, Ended, SetDemuxDone, daemonVars, bufferVars,
       readerVars
  <2>2. UNCHANGED <<got, chunk, buf, head, offset, warned, seen>>
    BY <1>13 DEF SetDemuxDone, daemonVars, bufferVars, readerVars
  <2>3. dpc' \in {"start", "notify", "read"} => \A x \in Streams : chunk[x] = 0
    BY <1>13, <1>z DEF SetDemuxDone, daemonVars, bufferVars, readerVars
  <2> QED BY <2>1, <2>2, <2>3, NoByteMoves
<1>14. CASE StopFlag
  <2>1. TypeOK'
    BY <1>14 DEF TypeOK, Live, Ended, StopFlag, daemonVars, bufferVars,
       sessionVars, readerVars
  <2>2. UNCHANGED <<got, chunk, buf, head, offset, warned, seen>>
    BY <1>14 DEF StopFlag, daemonVars, bufferVars, sessionVars, readerVars
  <2>3. dpc' \in {"start", "notify", "read"} => \A x \in Streams : chunk[x] = 0
    BY <1>14, <1>z DEF StopFlag, daemonVars, bufferVars, sessionVars,
       readerVars
  <2> QED BY <2>1, <2>2, <2>3, NoByteMoves
<1>15. CASE StopShutdown
  <2>1. TypeOK'
    BY <1>15 DEF TypeOK, Live, Ended, StopShutdown, daemonVars, bufferVars,
       sessionVars, readerVars
  <2>2. UNCHANGED <<got, chunk, buf, head, offset, warned, seen>>
    BY <1>15 DEF StopShutdown, daemonVars, bufferVars, sessionVars,
       readerVars
  <2>3. dpc' \in {"start", "notify", "read"} => \A x \in Streams : chunk[x] = 0
    BY <1>15, <1>z DEF StopShutdown, daemonVars, bufferVars, sessionVars,
       readerVars
  <2> QED BY <2>1, <2>2, <2>3, NoByteMoves
<1>16. ASSUME NEW r \in Readers, Spawn(r) PROVE IInv'
  <2>1. TypeOK'
    BY <1>16 DEF TypeOK, Live, Ended, Spawn, daemonVars, handleVars,
       bufferVars, sessionVars
  <2>2. UNCHANGED <<got, chunk, buf, head, offset, warned, seen>>
    BY <1>16 DEF Spawn, daemonVars, handleVars, bufferVars, sessionVars
  <2>3. dpc' \in {"start", "notify", "read"} => \A x \in Streams : chunk[x] = 0
    BY <1>16, <1>z DEF Spawn, daemonVars, handleVars, bufferVars,
       sessionVars
  <2> QED BY <2>1, <2>2, <2>3, NoByteMoves
<1>17. ASSUME NEW r \in Readers, Poll(r) PROVE IInv'
  <2>1. TypeOK'
    BY <1>17 DEF TypeOK, Live, Ended, Poll, daemonVars, handleVars,
       bufferVars, sessionVars
  <2>2. UNCHANGED <<got, chunk, buf, head, offset, warned, seen>>
    BY <1>17 DEF Poll, daemonVars, handleVars, bufferVars, sessionVars
  <2>3. dpc' \in {"start", "notify", "read"} => \A x \in Streams : chunk[x] = 0
    BY <1>17, <1>z DEF Poll, daemonVars, handleVars, bufferVars, sessionVars
  <2> QED BY <2>1, <2>2, <2>3, NoByteMoves
<1>18. ASSUME NEW r \in Readers, CheckTerminated(r) PROVE IInv'
  <2>t. active' \in Int /\ wait' \in [Readers -> {"none", "registered", "notified"}]
    <3>1. active' \in {active, active - 1} /\ wait' \in {wait, [wait EXCEPT ![r] = "none"]}
      BY <1>18, Zenon DEF CheckTerminated
    <3>2. active \in Int /\ wait \in [Readers -> {"none", "registered", "notified"}]
      BY DEF TypeOK
    <3>3. active' \in Int
      BY <3>1, <3>2
    <3>4. wait' \in [Readers -> {"none", "registered", "notified"}]
      BY <3>1, <3>2
    <3> QED BY <3>3, <3>4
  <2>u. rpc' \in [Readers -> {"unborn"} \cup Live \cup Ended]
    BY <1>18 DEF TypeOK, CheckTerminated, Live, Ended
  <2>1. TypeOK'
    BY <1>18, <2>t, <2>u DEF TypeOK, CheckTerminated, daemonVars, handleVars,
                          bufferVars, sessionVars
  <2>2. UNCHANGED <<got, chunk, buf, head, offset, warned, seen>>
    BY <1>18 DEF CheckTerminated, daemonVars, handleVars, bufferVars,
       sessionVars
  <2>3. dpc' \in {"start", "notify", "read"} => \A x \in Streams : chunk[x] = 0
    BY <1>18, <1>z DEF CheckTerminated, daemonVars, handleVars, bufferVars,
       sessionVars
  <2> QED BY <2>1, <2>2, <2>3, NoByteMoves
<1>19. ASSUME NEW r \in Readers, WakeAsync(r) PROVE IInv'
  <2>1. TypeOK'
    BY <1>19 DEF TypeOK, Live, Ended, WakeAsync, daemonVars, handleVars,
       bufferVars, sessionVars
  <2>2. UNCHANGED <<got, chunk, buf, head, offset, warned, seen>>
    BY <1>19 DEF WakeAsync, daemonVars, handleVars, bufferVars, sessionVars
  <2>3. dpc' \in {"start", "notify", "read"} => \A x \in Streams : chunk[x] = 0
    BY <1>19, <1>z DEF WakeAsync, daemonVars, handleVars, bufferVars,
       sessionVars
  <2> QED BY <2>1, <2>2, <2>3, NoByteMoves
<1>20. ASSUME NEW r \in Readers, WakeSync(r) PROVE IInv'
  <2>1. TypeOK'
    BY <1>20 DEF TypeOK, Live, Ended, WakeSync, daemonVars, handleVars,
       bufferVars, sessionVars
  <2>2. UNCHANGED <<got, chunk, buf, head, offset, warned, seen>>
    BY <1>20 DEF WakeSync, daemonVars, handleVars, bufferVars, sessionVars
  <2>3. dpc' \in {"start", "notify", "read"} => \A x \in Streams : chunk[x] = 0
    BY <1>20, <1>z DEF WakeSync, daemonVars, handleVars, bufferVars,
       sessionVars
  <2> QED BY <2>1, <2>2, <2>3, NoByteMoves
<1>21. ASSUME NEW r \in Readers, Panic(r) PROVE IInv'
  <2>1. TypeOK'
    BY <1>21 DEF TypeOK, Live, Ended, Panic, daemonVars, handleVars,
       bufferVars, sessionVars
  <2>2. UNCHANGED <<got, chunk, buf, head, offset, warned, seen>>
    BY <1>21 DEF Panic, daemonVars, handleVars, bufferVars, sessionVars
  <2>3. dpc' \in {"start", "notify", "read"} => \A x \in Streams : chunk[x] = 0
    BY <1>21, <1>z DEF Panic, daemonVars, handleVars, bufferVars,
       sessionVars
  <2> QED BY <2>1, <2>2, <2>3, NoByteMoves
<1>22. CASE Feed
  BY <1>22, FeedIInv
<1>23. CASE ReadData
  BY <1>23, ReadDataIInv
<1>24. ASSUME NEW r \in Readers, ReadBuffer(r) PROVE IInv'
  BY <1>24, ReadBufferIInv
<1>25. CASE UNCHANGED vars
  <2>1. TypeOK'
    BY <1>25 DEF TypeOK, Live, Ended, vars, daemonVars, handleVars, bufferVars,
                sessionVars, readerVars
  <2>2. UNCHANGED <<got, chunk, buf, head, offset, warned, seen, dpc>>
    BY <1>25 DEF vars, bufferVars, sessionVars, readerVars
  <2> QED BY <1>z, <2>1, <2>2, NoByteMoves
<1> HIDE DEF IInv
<1> QED
  BY <1>1, <1>2, <1>3, <1>4, <1>5, <1>6, <1>7, <1>8, <1>9, <1>10, <1>11,
     <1>12, <1>13, <1>14, <1>15, <1>16, <1>17, <1>18, <1>19, <1>20, <1>21,
     <1>22, <1>23, <1>24, <1>25 DEF Next, Session, Follow

------------------------------------------------------------------------------
(* IInv holds in every reachable state, whatever the number of streams and *)
(* readers, the limit and the bound on the bytes.                          *)
THEOREM Invariance == Spec => []IInv
  BY InitIInv, NextIInv, PTL DEF Spec

(* Every variable of the log stream keeps its type.                        *)
THEOREM TypeCorrect == Spec => []TypeOK
<1>1. IInv => TypeOK
  BY DEF IInv
<1> QED
  BY <1>1, Invariance, PTL

(* SharedLogBuffer: head and buf together always are the window of the     *)
(* stream that ends with the last byte fed, within the limit.              *)
THEOREM BufferWindow == Spec => []BufferIsWindow
<1>1. IInv => BufferIsWindow
  BY DEF IInv, Windows, IsWindow, BufferIsWindow
<1> QED
  BY <1>1, Invariance, PTL

(* LogReader, SyncLogReader: a reader delivers the stream in order, and    *)
(* without a gap unless it has warned, however fast the container writes.  *)
THEOREM NoLossUnwarned == Spec => []NoSilentLoss
<1>1. ASSUME IInv PROVE NoSilentLoss
  <2>1. \A r \in Readers : DOMAIN seen[r] = 1..Len(seen[r])
    BY <1>1, LenProperties DEF IInv, TypeOK
  <2>2. \A r \in Readers : Ordered(seen[r]) /\ (~warned[r] => IsWindow(seen[r], 0))
    BY <1>1 DEF IInv, Delivered
  <2>3. \A i \in Int : 0 + i - 1 = i - 1
    OBVIOUS
  <2> QED BY <2>1, <2>2, <2>3 DEF NoSilentLoss, Ordered, IsWindow
<1> QED
  BY <1>1, Invariance, PTL

------------------------------------------------------------------------------
(* The consumer tasks that active_consumers is to count. *)
Consuming == {r \in AsyncReaders : rpc[r] \in Live}

(* One reader r goes to place p. *)
Goes(r, p) == rpc' = [rpc EXCEPT ![r] = p]

(* The set counted, before and after. *)
LEMMA ConsumingFinite ==
  ASSUME TypeOK, ConsumersCounted, NEW r \in Readers, NEW p, Goes(r, p)
  PROVE  /\ IsFiniteSet(Consuming) /\ active = Cardinality(Consuming)
         /\ Consuming' = {q \in AsyncReaders : (IF q = r THEN p ELSE rpc[q]) \in Live}
<1>1. IsFiniteSet(Consuming)
  BY ReaderAssumption, FS_Subset DEF Consuming
<1>2. \A q \in AsyncReaders : rpc'[q] = IF q = r THEN p ELSE rpc[q]
  BY DEF TypeOK, Goes, Readers
<1> QED BY <1>1, <1>2 DEF ConsumersCounted, Consuming

(* A consumer that begins is counted, *)
LEMMA ConsumerJoins ==
  ASSUME TypeOK, ConsumersCounted, NEW r \in AsyncReaders, NEW p \in Live, Goes(r, p),
         rpc[r] \notin Live, active' = active + 1
  PROVE  ConsumersCounted'
<1>0. r \in Readers BY DEF Readers
<1>1. Consuming' = Consuming \cup {r} /\ r \notin Consuming
  BY <1>0, ConsumingFinite DEF Consuming
<1>2. Cardinality(Consuming \cup {r}) = Cardinality(Consuming) + 1
  BY <1>0, <1>1, ConsumingFinite, FS_AddElement
<1> QED BY <1>0, <1>1, <1>2, ConsumingFinite DEF ConsumersCounted, Consuming

(* one that ends is taken back, *)
LEMMA ConsumerLeaves ==
  ASSUME TypeOK, ConsumersCounted, NEW r \in AsyncReaders, NEW p, p \notin Live,
         Goes(r, p), rpc[r] \in Live, active' = active - 1
  PROVE  ConsumersCounted'
<1>0. r \in Readers BY DEF Readers
<1>1. Consuming' = Consuming \ {r} /\ r \in Consuming
  BY <1>0, ConsumingFinite DEF Consuming
<1>2. Cardinality(Consuming \ {r}) = Cardinality(Consuming) - 1
  BY <1>0, <1>1, ConsumingFinite, FS_RemoveElement
<1> QED BY <1>0, <1>1, <1>2, ConsumingFinite DEF ConsumersCounted, Consuming

(* and nobody else matters. *)
LEMMA ConsumersStay ==
  ASSUME TypeOK, ConsumersCounted, NEW r \in Readers, NEW p, Goes(r, p),
         r \in AsyncReaders => (p \in Live /\ rpc[r] \in Live), active' = active
  PROVE  ConsumersCounted'
<1>1. Consuming' = Consuming
  BY ConsumingFinite DEF Consuming
<1> QED BY <1>1, ConsumingFinite DEF ConsumersCounted, Consuming

(* Most steps move no reader. *)
LEMMA NobodyMoves ==
  ASSUME ConsumersCounted, UNCHANGED <<rpc, active>> PROVE ConsumersCounted'
BY DEF ConsumersCounted

(* ConsumersCounted is inductive, given the types. *)
LEMMA StepCounted == TypeOK /\ ConsumersCounted /\ [Next]_vars => ConsumersCounted'
<1> SUFFICES ASSUME TypeOK, ConsumersCounted, [Next]_vars PROVE ConsumersCounted'
  OBVIOUS
<1>1. ASSUME NEW s \in Streams,
             DaemonWrite(s) \/ FeedNotify(s) \/ Terminate(s) \/ TerminateNotify(s)
      PROVE  ConsumersCounted'
  BY <1>1, NobodyMoves DEF DaemonWrite, FeedNotify, Terminate, TerminateNotify, readerVars
<1>2. CASE DaemonClose \/ CallerCancel \/ ReadError \/ StopFlag \/ StopShutdown
  BY <1>2, NobodyMoves
     DEF DaemonClose, CallerCancel, ReadError, StopFlag, StopShutdown, readerVars
<1>3. CASE StartFail \/ StartOk \/ CheckStop \/ Feed \/ FeedDone \/ ReadData \/ ReadEof
           \/ SetDemuxDone
  BY <1>3, NobodyMoves
     DEF StartFail, StartOk, CheckStop, Feed, FeedDone, ReadData, ReadEof, SetDemuxDone,
         readerVars
<1>4. ASSUME NEW r \in Readers, Spawn(r) \/ Follow(r) \/ Panic(r) PROVE ConsumersCounted'
  <2> USE DEF Goes
  <2>1. CASE Spawn(r)
    <3>1. CASE r \in AsyncReaders
      <4>1. Goes(r, "poll") /\ active' = active + 1 /\ rpc[r] \notin Live /\ "poll" \in Live
        BY <2>1, <3>1 DEF Spawn, Live
      <4> QED BY <3>1, <4>1, ConsumerJoins
    <3>2. CASE r \notin AsyncReaders
      <4>1. Goes(r, "read") /\ active' = active BY <2>1, <3>2 DEF Spawn
      <4> QED BY <3>2, <4>1, ConsumersStay
    <3> QED BY <3>1, <3>2
  <2>2. CASE Poll(r) \/ ReadBuffer(r) \/ WakeAsync(r) \/ WakeSync(r)
    <3>1. active' = active /\ (rpc' = rpc \/ (rpc[r] \in Live /\ \E p \in Live : Goes(r, p)))
      BY <2>2 DEF Poll, ReadBuffer, WakeAsync, WakeSync, Live
    <3>2. CASE rpc' = rpc BY <3>1, <3>2, NobodyMoves
    <3>3. CASE rpc[r] \in Live /\ \E p \in Live : Goes(r, p)
      <4> HIDE DEF Goes
      <4> QED BY <3>1, <3>3, ConsumersStay
    <3> QED BY <3>1, <3>2, <3>3
  <2>3. CASE CheckTerminated(r)
    <3>1. CASE terminated[StreamOf[r]] /\ r \in AsyncReaders
      <4>1. Goes(r, "eof") /\ active' = active - 1 /\ rpc[r] \in Live /\ "eof" \notin Live
        BY <2>3, <3>1 DEF CheckTerminated, Live
      <4> QED BY <3>1, <4>1, ConsumerLeaves
    <3>2. CASE terminated[StreamOf[r]] /\ r \notin AsyncReaders
      <4>1. Goes(r, "eof") /\ active' = active BY <2>3, <3>2 DEF CheckTerminated
      <4> QED BY <3>2, <4>1, ConsumersStay
    <3>3. CASE ~terminated[StreamOf[r]]
      <4>1. Goes(r, "pending") /\ active' = active /\ rpc[r] \in Live /\ "pending" \in Live
        BY <2>3, <3>3 DEF CheckTerminated, Live
      <4> QED BY <4>1, ConsumersStay
    <3> QED BY <3>1, <3>2, <3>3
  <2>4. CASE Panic(r)
    <3>1. /\ Goes(r, "dead") /\ active' = active - 1
          /\ r \in AsyncReaders /\ rpc[r] \in Live /\ "dead" \notin Live
      BY <2>4 DEF Panic, Live
    <3> QED BY <3>1, ConsumerLeaves
  <2> QED BY <1>4, <2>1, <2>2, <2>3, <2>4 DEF Follow
<1>5. CASE UNCHANGED vars
  BY <1>5, NobodyMoves DEF vars, readerVars
<1> QED BY <1>1, <1>2, <1>3, <1>4, <1>5 DEF Next, Session

(* DockerLogsHandle::all_done: active_consumers is the number of consumer  *)
(* tasks that run, for any set of consumers, whatever order they begin,    *)
(* end and panic in.                                                       *)
THEOREM ConsumersExact == Spec => []ConsumersCounted
<1>1. Init => ConsumersCounted
  <2> SUFFICES ASSUME Init PROVE ConsumersCounted
    OBVIOUS
  <2>1. {r \in AsyncReaders : rpc[r] \in Live} = {}
    BY DEF Init, Live, Readers
  <2> QED BY <2>1, FS_EmptySet DEF Init, ConsumersCounted
<1> QED BY <1>1, StepCounted, TypeCorrect, PTL DEF Spec
==============================================================================
