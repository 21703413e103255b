---------------------------- MODULE StreamProofs ----------------------------
(***************************************************************************)
(* The ring buffer of stream.c, for any bytes, any initial sizes and any   *)
(* number of bytes held: the indices are right, a line that has arrived is *)
(* found unless it fills the ring, and the ring is a queue.                *)
(***************************************************************************)
EXTENDS Stream, Numbers, SequenceTheorems

-----------------------------------------------------------------------------
(***************************************************************************)
(* Places in a ring of s bytes, i steps from t                             *)
(***************************************************************************)
Idx(t, s, i) == IF t + i < s THEN t + i ELSE t + i - s

Before(t, s) == IF t - 1 < 0 THEN s - 1 ELSE t - 1

LEMMA IdxRange ==
  ASSUME NEW s \in Nat \ {0}, NEW t \in 0 .. s - 1, NEW i \in 0 .. s
  PROVE  Idx(t, s, i) \in 0 .. s - 1
  BY DEF Idx

LEMMA IdxAdd ==
  ASSUME NEW s \in Nat \ {0}, NEW t \in 0 .. s - 1, NEW i \in Nat, NEW j \in Nat, i + j <= s
  PROVE  Idx(Idx(t, s, i), s, j) = Idx(t, s, i + j)
  BY DEF Idx

LEMMA IdxInjective ==
  ASSUME NEW s \in Nat \ {0}, NEW t \in 0 .. s - 1,
         NEW i \in 0 .. s - 1, NEW j \in 0 .. s - 1, i # j
  PROVE  Idx(t, s, i) # Idx(t, s, j)
  BY DEF Idx

LEMMA IdxBefore ==
  ASSUME NEW s \in Nat \ {0}, NEW t \in 0 .. s - 1
  PROVE  /\ Before(t, s) \in 0 .. s - 1
         /\ Idx(Before(t, s), s, 0) = Before(t, s)
         /\ \A i \in 0 .. s - 1 : Idx(Before(t, s), s, i + 1) = Idx(t, s, i)
  BY DEF Idx, Before

LEMMA IdxNext ==
  ASSUME NEW s \in Nat \ {0}, NEW t \in 0 .. s - 1, NEW i \in 0 .. s - 1
  PROVE  Idx(t, s, i + 1) = IF Idx(t, s, i) + 1 >= s THEN 0 ELSE Idx(t, s, i) + 1
  BY DEF Idx

LEMMA IdxStart ==
  ASSUME NEW s \in Nat \ {0}, NEW t \in 0 .. s - 1
  PROVE  Idx(t, s, 0) = t /\ \A i \in 0 .. s - 1 : Idx(0, s, i) = i
  BY DEF Idx

LEMMA IndexIdx == \A i : Index(i) = Idx(tail, size, i)
  BY DEF Index, Idx

-----------------------------------------------------------------------------
(***************************************************************************)
(* What the scans find.  A scan from tail to head sees every byte of a     *)
(* ring, except a full one, of which stream_hasline sees nothing.          *)
(***************************************************************************)
Live ==
  /\ size \in Nat \ {0} /\ num \in Nat /\ num <= size
  /\ data \in [0 .. size - 1 -> Bytes]
  /\ head \in 0 .. size - 1 /\ tail \in 0 .. size - 1
  /\ head = Idx(tail, size, num)

LEMMA RingLive == RingOK /\ live => Live
  BY IndexIdx DEF RingOK, Live

LEMMA IndexRange ==
  ASSUME Live
  PROVE  /\ \A i \in 0 .. size : Index(i) \in 0 .. size - 1
         /\ \A i \in 0 .. size - 1 : data[Index(i)] \in Bytes
<1>1. ASSUME NEW i \in 0 .. size
      PROVE  Index(i) \in 0 .. size - 1
  BY IndexIdx, IdxRange DEF Live
<1>2. ASSUME NEW i \in 0 .. size - 1
      PROVE  i \in 0 .. size
  BY DEF Live
<1> QED
  BY <1>1, <1>2 DEF Live

LEMMA SpanNum ==
  ASSUME Live
  PROVE  Span = IF num = size THEN 0 ELSE num
  BY DEF Live, Span, Idx

LEMMA ExtentNum ==
  ASSUME Live, num # 0
  PROVE  Extent = num
  BY SpanNum DEF Extent, Live

LEMMA LineFound ==
  ASSUME Live
  PROVE  /\ HasLine \in 0 .. num
         /\ HasLine # 0 => /\ num < size /\ data[Index(HasLine - 1)] \in EOL
                           /\ \A i \in 1 .. HasLine - 1 : data[Index(i - 1)] \notin EOL
         /\ HasLine = 0 /\ num < size => \A i \in 1 .. num : data[Index(i - 1)] \notin EOL
<1> DEFINE ends == {i \in 1 .. Span : data[Index(i - 1)] \in EOL}
           first == CHOOSE i \in ends : \A j \in ends : i <= j
<1>1. num \in Nat /\ size \in Nat /\ num <= size
  BY DEF Live
<1>2. HasLine = IF num <= 0 \/ ends = {} THEN 0 ELSE first
  BY DEF HasLine, stream_empty
<1>3. CASE num = size
  <2>1. Span = 0
    BY <1>3, SpanNum
  <2>2. ends = {}
    BY <2>1
  <2> QED
    BY <1>1, <1>2, <1>3, <2>2
<1>4. CASE num # size
  <2>1. Span = num /\ num < size
    BY <1>1, <1>4, SpanNum
  <2>2. CASE ends = {}
    BY <1>1, <1>2, <2>1, <2>2
  <2>3. CASE ends # {}
    <3>1. ends \in SUBSET Nat /\ ends \subseteq 1 .. num
      BY <1>1, <2>1
    <3>2. first \in ends /\ \A j \in ends : first <= j
      <4> HIDE DEF ends
      <4> QED
        BY <2>3, <3>1, LeastNumber
    <3>3. num # 0
      BY <1>1, <2>3, <3>1
    <3> HIDE DEF first
    <3>4. HasLine = first
      BY <1>1, <1>2, <2>3, <3>3
    <3>5. first \in 1 .. num /\ data[Index(first - 1)] \in EOL
      BY <3>1, <3>2
    <3>6. \A i \in 1 .. first - 1 : data[Index(i - 1)] \notin EOL
      <4> SUFFICES ASSUME NEW i \in 1 .. first - 1, i \in ends PROVE FALSE
        BY <1>1, <2>1, <3>5
      <4> QED
        BY <3>2, <3>5
    <3> QED
      BY <1>1, <2>1, <3>4, <3>5, <3>6
  <2> QED
    BY <2>2, <2>3
<1> QED
  BY <1>3, <1>4

-----------------------------------------------------------------------------
(***************************************************************************)
(* The ring stays in shape, and what every call does to the bytes held.    *)
(***************************************************************************)
\* The ring with room for one byte more: the same bytes, perhaps elsewhere.
LEMMA RoomyRing ==
  ASSUME Live
  PROVE  LET r == Roomy
         IN  /\ r.size \in Nat \ {0} /\ num < r.size
             /\ r.data \in [0 .. r.size - 1 -> Bytes]
             /\ r.head \in 0 .. r.size - 1 /\ r.tail \in 0 .. r.size - 1
             /\ r.head = Idx(r.tail, r.size, num)
             /\ \A i \in 0 .. num - 1 : r.data[Idx(r.tail, r.size, i)] = data[Index(i)]
<1>1. CASE ~ stream_full
  <2>1. Roomy = AsIs
    BY <1>1 DEF Roomy
  <2> QED
    BY <1>1, <2>1, IndexIdx DEF AsIs, Live, stream_full
<1>2. CASE stream_full
  <2>1. num = size
    BY <1>2 DEF stream_full, Live
  <2>2. /\ Roomy.size = 2 * size /\ Roomy.head = size /\ Roomy.tail = 0
        /\ Roomy.data = [i \in 0 .. 2 * size - 1 |-> IF i < size THEN data[Index(i)] ELSE NUL]
    BY <1>2 DEF Roomy, Grown
  <2>3. ASSUME NEW i \in 0 .. size - 1
        PROVE  data[Index(i)] \in Bytes
    BY IndexRange
  <2>4. Roomy.data \in [0 .. 2 * size - 1 -> Bytes]
    BY <2>2, <2>3, ByteAssumption DEF Live
  <2>5. \A i \in 0 .. 2 * size - 1 : Idx(0, 2 * size, i) = i
    BY DEF Idx, Live
  <2>6. /\ 2 * size \in Nat \ {0} /\ size < 2 * size /\ size \in 0 .. 2 * size - 1
        /\ 0 \in 0 .. 2 * size - 1
        /\ \A i \in 0 .. num - 1 : i \in 0 .. 2 * size - 1 /\ i < size
    BY <2>1 DEF Live
  <2> QED
    BY <2>1, <2>2, <2>4, <2>5, <2>6
<1> QED
  BY <1>1, <1>2

LEMMA PutChRing ==
  ASSUME Live, NEW b \in Bytes, PutCh(b)
  PROVE  /\ Live' /\ num' = num + 1
         /\ \A i \in 0 .. num - 1 : data'[Idx(tail', size', i)] = data[Index(i)]
         /\ data'[Idx(tail', size', num)] = b
<1> DEFINE d == Roomy.data
           s == Roomy.size
           h == Roomy.head
           t == Roomy.tail
<1>1. /\ s \in Nat \ {0} /\ num \in 0 .. s - 1 /\ num \in Nat
      /\ d \in [0 .. s - 1 -> Bytes] /\ h \in 0 .. s - 1 /\ t \in 0 .. s - 1
      /\ h = Idx(t, s, num)
      /\ \A i \in 0 .. num - 1 : d[Idx(t, s, i)] = data[Index(i)]
  BY RoomyRing DEF Live
<1>2. /\ data' = [d EXCEPT ![h] = b] /\ size' = s /\ tail' = t /\ num' = num + 1
      /\ head' = IF h + 1 >= s THEN 0 ELSE h + 1
  BY DEF PutCh
<1> HIDE DEF d, s, h, t
<1>3. \A i \in 0 .. num - 1 : i \in 0 .. s - 1 /\ Idx(t, s, i) \in 0 .. s - 1 /\ Idx(t, s, i) # h
  <2> TAKE i \in 0 .. num - 1
  <2>1. i \in 0 .. s - 1 /\ i # num /\ i \in 0 .. s
    BY <1>1
  <2> QED
    BY <1>1, <2>1, IdxRange, IdxInjective
<1>4. \A i \in 0 .. num - 1 : data'[Idx(tail', size', i)] = data[Index(i)]
  BY <1>1, <1>2, <1>3
<1>5. data'[Idx(tail', size', num)] = b
  BY <1>1, <1>2
<1>6. data' \in [0 .. s - 1 -> Bytes]
  BY <1>1, <1>2
<1>7. head' = Idx(t, s, num + 1) /\ head' \in 0 .. s - 1
  BY <1>1, <1>2, IdxNext
<1>8. num + 1 \in Nat /\ num + 1 <= s
  BY <1>1
<1> QED
  BY <1>1, <1>2, <1>4, <1>5, <1>6, <1>7, <1>8 DEF Live

LEMMA UngetChRing ==
  ASSUME Live, NEW b \in Bytes, UngetCh(b)
  PROVE  /\ Live' /\ num' = num + 1
         /\ \A i \in 0 .. num - 1 : data'[Idx(tail', size', i + 1)] = data[Index(i)]
         /\ data'[Idx(tail', size', 0)] = b
<1> DEFINE d == Roomy.data
           s == Roomy.size
           h == Roomy.head
           t == Roomy.tail
           before == Before(t, s)
<1>1. /\ s \in Nat \ {0} /\ num \in 0 .. s - 1 /\ num \in Nat
      /\ d \in [0 .. s - 1 -> Bytes] /\ h \in 0 .. s - 1 /\ t \in 0 .. s - 1
      /\ h = Idx(t, s, num)
      /\ \A i \in 0 .. num - 1 : d[Idx(t, s, i)] = data[Index(i)]
  BY RoomyRing DEF Live
<1>2. /\ data' = [d EXCEPT ![before] = b] /\ size' = s /\ tail' = before /\ num' = num + 1
      /\ head' = h
  BY DEF UngetCh, Before
<1> HIDE DEF d, s, h, t
<1>3. /\ before \in 0 .. s - 1 /\ Idx(before, s, 0) = before
      /\ \A i \in 0 .. s - 1 : Idx(before, s, i + 1) = Idx(t, s, i)
  BY <1>1, IdxBefore
<1> HIDE DEF before
<1>4. ASSUME NEW i \in 0 .. num - 1
      PROVE  data'[Idx(tail', size', i + 1)] = data[Index(i)]
  <2>1. /\ i \in 0 .. s - 1 /\ i \in 0 .. s
        /\ i + 1 \in 0 .. s - 1 /\ 0 \in 0 .. s - 1 /\ i + 1 # 0
    BY <1>1
  <2>2. Idx(before, s, i + 1) # Idx(before, s, 0)
    BY <1>1, <1>3, <2>1, IdxInjective
  <2>3. Idx(t, s, i) # before
    BY <1>3, <2>1, <2>2
  <2>4. Idx(t, s, i) \in 0 .. s - 1
    BY <1>1, <2>1, IdxRange
  <2>5. data'[Idx(t, s, i)] = d[Idx(t, s, i)]
    BY <1>1, <1>2, <2>3, <2>4
  <2> QED
    BY <1>1, <1>2, <1>3, <2>1, <2>5
<1>5. data'[Idx(tail', size', 0)] = b
  BY <1>1, <1>2, <1>3
<1>6. data' \in [0 .. s - 1 -> Bytes]
  BY <1>1, <1>2
<1>7. head' = Idx(before, s, num + 1)
  BY <1>1, <1>2, <1>3
<1>8. num + 1 \in Nat /\ num + 1 <= s
  BY <1>1
<1> QED
  BY <1>1, <1>2, <1>3, <1>4, <1>5, <1>6, <1>7, <1>8 DEF Live

LEMMA TakeRing ==
  ASSUME Live, NEW n \in 0 .. num, Take(n)
  PROVE  /\ Live' /\ num' = num - n
         /\ \A i \in 0 .. num - n : Idx(tail', size', i) = Index(n + i)
         /\ data' = data
<1>1. /\ size \in Nat \ {0} /\ num \in Nat /\ num <= size /\ tail \in 0 .. size - 1
      /\ n \in Nat /\ n <= num /\ n \in 0 .. size
      /\ head = Idx(tail, size, num)
  BY DEF Live
<1>2. /\ tail' = Idx(tail, size, n) /\ num' = num - n
      /\ UNCHANGED <<data, size, head>>
  BY IndexIdx DEF Take
<1>3. tail' \in 0 .. size - 1
  BY <1>1, <1>2, IdxRange
<1>4. ASSUME NEW i \in 0 .. num - n
      PROVE  Idx(tail', size', i) = Index(n + i)
  <2>1. i \in Nat /\ n + i <= size
    BY <1>1
  <2>2. Idx(Idx(tail, size, n), size, i) = Idx(tail, size, n + i)
    BY <1>1, <2>1, IdxAdd
  <2> QED
    BY <1>2, <2>2, IndexIdx
<1>5. num - n \in 0 .. num - n /\ n + (num - n) = num /\ num - n \in Nat /\ num - n <= size
  BY <1>1
<1>6. head' = Idx(tail', size', num - n)
  BY <1>1, <1>2, <1>4, <1>5, IndexIdx
<1> QED
  BY <1>1, <1>2, <1>3, <1>4, <1>5, <1>6 DEF Live

LEMMA FlushRing ==
  ASSUME Live, Flush
  PROVE  Live' /\ num' = 0
  BY DEF Live, Flush, Idx

\* How many bytes stream_readln takes
LineLength == IF num > HasLine /\ data[Index(HasLine)] = (IF data[Index(HasLine - 1)] = LF THEN CR ELSE LF)
                THEN HasLine + 1 ELSE HasLine

LEMMA ReadLnTakes ==
  ASSUME Live, ReadLn, HasLine # 0
  PROVE  LineLength \in 1 .. num /\ Take(LineLength)
<1>1. HasLine \in 1 .. num /\ num \in Nat
  BY LineFound DEF Live
<1>2. LineLength \in 1 .. num
  BY <1>1 DEF LineLength
<1>3. Take(LineLength)
  BY DEF ReadLn, LineLength
<1> QED
  BY <1>2, <1>3

LEMMA RingStep ==
  ASSUME RingOK, [Next]_vars
  PROVE  RingOK'
<1>1. CASE UNCHANGED vars
  BY <1>1 DEF RingOK, Index, vars
<1>2. CASE Next
  <2>1. live /\ Live /\ num \in Nat /\ num <= Limit /\ Limit \in Nat
    BY <1>2, RingLive, LimitAssumption
       DEF Next, PutCh, UngetCh, GetCh, Copy, Flush, ReadLn, Retire, RingOK
  <2>2. CASE Retire
    BY <2>1, <2>2 DEF Retire, RingOK
  <2>3. SUFFICES ASSUME ~Retire
                 PROVE  Live' /\ num' <= Limit
    <3>1. \A i : Index(i)' = Idx(tail', size', i)
      BY DEF Index, Idx
    <3> QED
      BY <2>2, <3>1 DEF RingOK, Live
  <2>4. ASSUME NEW b \in Bytes, PutCh(b) \/ UngetCh(b)
        PROVE  Live' /\ num' <= Limit
    <3>1. num < Limit
      BY <2>4 DEF PutCh, UngetCh
    <3>2. Live' /\ num' = num + 1
      BY <2>1, <2>4, PutChRing, UngetChRing
    <3> QED
      BY <2>1, <3>1, <3>2
  <2>5. CASE UNCHANGED ring
    BY <2>1, <2>5 DEF ring, Live
  <2>6. ASSUME NEW n \in 0 .. num, Take(n)
        PROVE  Live' /\ num' <= Limit
    <3>1. Live' /\ num' = num - n
      BY <2>1, <2>6, TakeRing
    <3> QED
      BY <2>1, <3>1
  <2>7. CASE GetCh
    <3>1. CASE stream_empty
      BY <2>5, <2>7, <3>1 DEF GetCh
    <3>2. CASE ~ stream_empty
      <4>1. 1 \in 0 .. num
        BY <2>1, <3>2 DEF stream_empty
      <4>2. Take(1)
        BY <2>7, <3>2 DEF GetCh
      <4> QED
        BY <2>6, <4>1, <4>2
    <3> QED
      BY <3>1, <3>2
  <2>8. CASE ReadLn
    <3>1. HasLine = 0 => UNCHANGED ring
      BY <2>8 DEF ReadLn
    <3>2. HasLine # 0 => LineLength \in 0 .. num /\ Take(LineLength)
      BY <2>1, <2>8, ReadLnTakes
    <3> QED
      BY <2>5, <2>6, <3>1, <3>2
  <2>9. CASE Flush
    BY <2>1, <2>9, FlushRing
  <2>10. CASE Copy
    BY <2>5, <2>10 DEF Copy
  <2> QED
    BY <1>2, <2>3, <2>4, <2>7, <2>8, <2>9, <2>10 DEF Next
<1> QED
  BY <1>1, <1>2

\* The ring keeps its shape whatever calls follow each other, and however
\* often it grows, wraps round or is pushed back into.
THEOREM RingCorrect == Spec => []RingOK
<1>1. Init => RingOK
  <2> SUFFICES ASSUME Init PROVE RingOK
    OBVIOUS
  <2>1. size \in Nat \ {0}
    BY SizesAssumption DEF Init
  <2> QED
    BY <2>1, ByteAssumption, LimitAssumption DEF Init, RingOK, Index
<1> QED
  BY <1>1, RingStep, PTL DEF Spec

\* A line that has arrived in full is missed in a ring filled to the last byte
\* only.
THEOREM LineMissedCorrect == Spec => []LineMissedOnlyWhenFull
<1>1. RingOK => LineMissedOnlyWhenFull
  <2> SUFFICES ASSUME RingOK, live, HasLine = 0, NEW i \in 1 .. num, Contents[i] \in EOL
               PROVE  num = size
    BY DEF LineMissedOnlyWhenFull
  <2>1. Live
    BY RingLive
  <2>2. Contents[i] = data[Index(i - 1)]
    BY DEF Contents
  <2>3. ~ (num < size)
    BY <2>1, <2>2, LineFound
  <2> QED
    BY <2>1, <2>3 DEF Live
<1> QED
  BY <1>1, RingCorrect, PTL

-----------------------------------------------------------------------------
(***************************************************************************)
(* The ring is a queue: what each call does to the bytes in their order.   *)
(***************************************************************************)
Held(d, t, s, n) == [i \in 1 .. n |-> d[Idx(t, s, i - 1)]]

LEMMA ContentsHeld == Contents = Held(data, tail, size, num)
  BY IndexIdx DEF Contents, Held

LEMMA HeldSeq ==
  ASSUME NEW s \in Nat \ {0}, NEW t \in 0 .. s - 1, NEW d \in [0 .. s - 1 -> Bytes],
         NEW n \in Nat, n <= s
  PROVE  /\ Held(d, t, s, n) \in Seq(Bytes)
         /\ Len(Held(d, t, s, n)) = n
         /\ \A i \in 1 .. n : Held(d, t, s, n)[i] = d[Idx(t, s, i - 1)]
<1> DEFINE q == Held(d, t, s, n)
<1>1. ASSUME NEW i \in 1 .. n
      PROVE  d[Idx(t, s, i - 1)] \in Bytes
  <2>1. i - 1 \in 0 .. s
    OBVIOUS
  <2>2. Idx(t, s, i - 1) \in 0 .. s - 1
    BY <2>1, IdxRange
  <2> QED
    BY <2>2
<1>2. q \in [1 .. n -> Bytes]
  BY <1>1 DEF Held
<1>3. \A i \in 1 .. n : q[i] = d[Idx(t, s, i - 1)]
  BY DEF Held
<1> HIDE DEF q
<1>4. q \in Seq(Bytes) /\ Len(q) = n
  BY <1>2
<1> QED
  BY <1>3, <1>4 DEF q

\* The bytes held, before and after a step
LEMMA ContentsSeq ==
  ASSUME Live
  PROVE  /\ Contents \in Seq(Bytes) /\ Len(Contents) = num
         /\ \A i \in 1 .. num : Contents[i] = data[Index(i - 1)]
<1>1. /\ size \in Nat \ {0} /\ num \in Nat /\ num <= size
      /\ data \in [0 .. size - 1 -> Bytes] /\ tail \in 0 .. size - 1
  BY DEF Live
<1>2. /\ Held(data, tail, size, num) \in Seq(Bytes)
      /\ Len(Held(data, tail, size, num)) = num
      /\ \A i \in 1 .. num : Held(data, tail, size, num)[i] = data[Idx(tail, size, i - 1)]
  BY <1>1, HeldSeq
<1> QED
  BY <1>2, ContentsHeld, IndexIdx

LEMMA ContentsSeqNext ==
  ASSUME Live'
  PROVE  /\ Contents' \in Seq(Bytes) /\ Len(Contents') = num'
         /\ \A i \in 1 .. num' : Contents'[i] = data'[Idx(tail', size', i - 1)]
<1>1. /\ size' \in Nat \ {0} /\ num' \in Nat /\ num' <= size'
      /\ data' \in [0 .. size' - 1 -> Bytes] /\ tail' \in 0 .. size' - 1
  BY DEF Live
<1>2. Contents' = Held(data', tail', size', num')
  BY DEF Contents, Held, Index, Idx
<1> QED
  BY <1>1, <1>2, HeldSeq

LEMMA PutChAppends ==
  ASSUME Live, NEW b \in Bytes, PutCh(b)
  PROVE  Contents' = Append(Contents, b)
<1>1. /\ Live' /\ num' = num + 1 /\ num \in Nat
      /\ \A i \in 0 .. num - 1 : data'[Idx(tail', size', i)] = data[Index(i)]
      /\ data'[Idx(tail', size', num)] = b
  BY PutChRing DEF Live
<1>2. /\ Contents \in Seq(Bytes) /\ Len(Contents) = num
      /\ \A i \in 1 .. num : Contents[i] = data[Index(i - 1)]
  BY ContentsSeq
<1>3. /\ Contents' \in Seq(Bytes) /\ Len(Contents') = num + 1
      /\ \A i \in 1 .. num + 1 : Contents'[i] = data'[Idx(tail', size', i - 1)]
  BY <1>1, ContentsSeqNext
<1>4. /\ Append(Contents, b) \in Seq(Bytes) /\ Len(Append(Contents, b)) = num + 1
      /\ \A i \in 1 .. num : Append(Contents, b)[i] = Contents[i]
      /\ Append(Contents, b)[num + 1] = b
  BY <1>1, <1>2
<1>5. ASSUME NEW i \in 1 .. num + 1
      PROVE  Contents'[i] = Append(Contents, b)[i]
  <2>1. CASE i = num + 1
    <3>1. num + 1 - 1 = num
      BY <1>1
    <3> QED
      BY <1>1, <1>3, <1>4, <2>1, <3>1
  <2>2. CASE i # num + 1
    <3>1. i \in 1 .. num /\ i - 1 \in 0 .. num - 1
      BY <1>1, <2>2
    <3> QED
      BY <1>1, <1>2, <1>3, <1>4, <3>1
  <2> QED
    BY <2>1, <2>2
<1> QED
  BY <1>3, <1>4, <1>5, SeqEqual

LEMMA UngetChPushes ==
  ASSUME Live, NEW b \in Bytes, UngetCh(b)
  PROVE  Contents' = <<b>> \o Contents
<1> DEFINE q == <<b>> \o Contents
<1>1. /\ Live' /\ num' = num + 1 /\ num \in Nat
      /\ \A i \in 0 .. num - 1 : data'[Idx(tail', size', i + 1)] = data[Index(i)]
      /\ data'[Idx(tail', size', 0)] = b
  BY UngetChRing DEF Live
<1>2. /\ Contents \in Seq(Bytes) /\ Len(Contents) = num
      /\ \A i \in 1 .. num : Contents[i] = data[Index(i - 1)]
  BY ContentsSeq
<1>3. /\ Contents' \in Seq(Bytes) /\ Len(Contents') = num + 1
      /\ \A i \in 1 .. num + 1 : Contents'[i] = data'[Idx(tail', size', i - 1)]
  BY <1>1, ContentsSeqNext
<1>4. <<b>> \in Seq(Bytes) /\ Len(<<b>>) = 1 /\ <<b>>[1] = b
  OBVIOUS
<1>5. /\ q \in Seq(Bytes) /\ Len(q) = num + 1 /\ q[1] = b
      /\ \A i \in 1 .. num : q[i + 1] = Contents[i]
  <2>1. /\ q \in Seq(Bytes) /\ Len(q) = 1 + num
        /\ \A i \in 1 .. 1 + num : q[i] = IF i <= 1 THEN <<b>>[i] ELSE Contents[i - 1]
    BY <1>2, <1>4, ConcatProperties
  <2> HIDE DEF q
  <2> QED
    BY <1>1, <1>4, <2>1
<1> HIDE DEF q
<1>6. ASSUME NEW i \in 1 .. num + 1
      PROVE  Contents'[i] = q[i]
  <2>1. CASE i = 1
    BY <1>1, <1>3, <1>5, <2>1
  <2>2. CASE i # 1
    <3>1. /\ i - 1 \in 1 .. num /\ i - 1 - 1 \in 0 .. num - 1
          /\ i - 1 - 1 + 1 = i - 1 /\ i - 1 + 1 = i
      BY <1>1, <2>2
    <3> QED
      BY <1>1, <1>2, <1>3, <1>5, <3>1
  <2> QED
    BY <2>1, <2>2
<1>7. Contents' = q
  BY <1>3, <1>5, <1>6, SeqEqual
<1> QED
  BY <1>7 DEF q

\* Bytes taken from the ring are taken from the front.
LEMMA TakeDrops ==
  ASSUME Live, NEW n \in 0 .. num, Take(n)
  PROVE  Contents' = SubSeq(Contents, n + 1, Len(Contents))
<1> DEFINE q == SubSeq(Contents, n + 1, Len(Contents))
<1>1. /\ Live' /\ num' = num - n /\ num \in Nat /\ n \in Nat /\ n <= num
      /\ \A i \in 0 .. num - n : Idx(tail', size', i) = Index(n + i)
      /\ data' = data
  BY TakeRing DEF Live
<1>2. /\ Contents \in Seq(Bytes) /\ Len(Contents) = num
      /\ \A i \in 1 .. num : Contents[i] = data[Index(i - 1)]
  BY ContentsSeq
<1>3. /\ Contents' \in Seq(Bytes) /\ Len(Contents') = num - n
      /\ \A i \in 1 .. num - n : Contents'[i] = data'[Idx(tail', size', i - 1)]
  BY <1>1, ContentsSeqNext
<1>4. /\ q \in Seq(Bytes) /\ Len(q) = num - n
      /\ \A i \in 1 .. num - n : q[i] = Contents[n + i]
  <2>1. /\ n + 1 \in Int /\ num \in Int
        /\ \A i \in n + 1 .. num : Contents[i] \in Bytes
    BY <1>1, <1>2, ElementOfSeq
  <2>2. /\ q \in Seq(Bytes)
        /\ Len(q) = (IF n + 1 <= num THEN num - (n + 1) + 1 ELSE 0)
        /\ \A i \in 1 .. num - (n + 1) + 1 : q[i] = Contents[n + 1 + i - 1]
    BY <1>2, <2>1, SubSeqProperties
  <2> HIDE DEF q
  <2>3. num - (n + 1) + 1 = num - n /\ (~ (n + 1 <= num) => num - n = 0)
    BY <1>1
  <2>4. \A i \in 1 .. num - n : n + 1 + i - 1 = n + i
    BY <1>1
  <2> QED
    BY <2>2, <2>3, <2>4
<1> HIDE DEF q
<1>5. ASSUME NEW i \in 1 .. num - n
      PROVE  Contents'[i] = q[i]
  <2>1. i - 1 \in 0 .. num - n /\ n + i \in 1 .. num /\ n + (i - 1) = n + i - 1
    BY <1>1
  <2>2. Contents'[i] = data[Index(n + i - 1)]
    BY <1>1, <1>3, <2>1
  <2>3. q[i] = data[Index(n + i - 1)]
    BY <1>2, <1>4, <2>1
  <2> QED
    BY <2>2, <2>3
<1>6. Contents' = q
  BY <1>3, <1>4, <1>5, SeqEqual
<1> QED
  BY <1>6 DEF q

LEMMA NothingHeld == \A d, t, s : Held(d, t, s, 0) = <<>>
  BY DEF Held

LEMMA Emptied ==
  ASSUME num' = 0
  PROVE  Contents' = <<>>
<1>1. Contents' = Held(data', tail', size', 0)
  BY DEF Contents, Held, Index, Idx
<1> QED
  BY <1>1, NothingHeld

\* stream_copy returns all of them, a full ring's as well.
LEMMA CopyContents ==
  ASSUME Live, Copy
  PROVE  out' = Got(Contents)
<1>1. CASE num = 0
  BY <1>1 DEF Copy, Contents
<1>2. CASE num # 0
  <2>1. Extent = num
    BY <1>2, ExtentNum
  <2> QED
    BY <1>2, <2>1 DEF Copy, Contents
<1> QED
  BY <1>1, <1>2

LEMMA GetChHead ==
  ASSUME Live, GetCh
  PROVE  Abstract!GetCh
<1>1. /\ Contents \in Seq(Bytes) /\ Len(Contents) = num /\ num \in Nat
      /\ \A i \in 1 .. num : Contents[i] = data[Index(i - 1)]
  BY ContentsSeq DEF Live
<1>2. CASE stream_empty
  <2>1. Contents = <<>>
    BY <1>1, <1>2 DEF stream_empty
  <2>3. out' = Nothing /\ UNCHANGED ring
    BY <1>2 DEF GetCh
  <2>2. Contents' = Contents
    BY <2>3 DEF Contents, Index, ring
  <2> QED
    BY <2>1, <2>2, <2>3 DEF Abstract!GetCh, Nothing, Abstract!Nothing
<1>3. CASE ~ stream_empty
  <2>1. num # 0 /\ 1 \in 1 .. num /\ 1 \in 0 .. num
    BY <1>1, <1>3 DEF stream_empty
  <2>2. Take(1) /\ out' = Got(<<data[tail]>>)
    BY <1>3 DEF GetCh
  <2>3. Contents # <<>> /\ Head(Contents) = Contents[1]
    BY <1>1, <2>1
  <2>4. data[tail] = Head(Contents)
    <3>1. Index(0) = tail
      BY DEF Live, Index
    <3>2. Contents[1] = data[Index(0)]
      BY <1>1, <2>1
    <3> QED
      BY <2>3, <3>1, <3>2
  <2>5. Contents' = SubSeq(Contents, 2, Len(Contents))
    BY <2>1, <2>2, TakeDrops
  <2>6. Contents' = Tail(Contents)
    BY <1>1, <2>3, <2>5, TailIsSubSeq
  <2> QED
    BY <2>2, <2>3, <2>4, <2>6 DEF Abstract!GetCh, Got, Abstract!Got
<1> QED
  BY <1>2, <1>3

LEMMA ReadLnLine ==
  ASSUME Live, ReadLn
  PROVE  Abstract!ReadLn
<1> DEFINE n == HasLine
           paired == n < Len(Contents) /\ Contents[n + 1] = Abstract!OtherEOL(Contents[n])
<1>1. /\ Contents \in Seq(Bytes) /\ Len(Contents) = num /\ num \in Nat
      /\ \A i \in 1 .. num : Contents[i] = data[Index(i - 1)]
  BY ContentsSeq DEF Live
<1>2. CASE HasLine = 0
  <2>1. out' = Nothing /\ UNCHANGED ring
    BY <1>2 DEF ReadLn
  <2>2. Contents' = Contents
    BY <2>1 DEF Contents, Index, ring
  <2> QED
    BY <2>1, <2>2 DEF Abstract!ReadLn, Nothing, Abstract!Nothing
<1>3. CASE HasLine # 0
  <2>1. /\ n \in 1 .. num /\ data[Index(n - 1)] \in EOL
        /\ \A i \in 1 .. n - 1 : data[Index(i - 1)] \notin EOL
    <3>1. /\ HasLine \in 0 .. num /\ data[Index(HasLine - 1)] \in EOL
          /\ \A i \in 1 .. HasLine - 1 : data[Index(i - 1)] \notin EOL
      BY <1>3, LineFound
    <3> QED
      BY <1>1, <1>3, <3>1
  <2>2. /\ LineLength \in 1 .. num /\ Take(LineLength)
        /\ out' = Got([i \in 1 .. n - 1 |-> data[Index(i - 1)]])
    BY <1>3, ReadLnTakes DEF ReadLn
  <2>3. LineLength = IF paired THEN n + 1 ELSE n
    <3>1. Contents[n] = data[Index(n - 1)]
      BY <1>1, <2>1
    <3>2. num > n => Contents[n + 1] = data[Index(n)]
      <4>1. SUFFICES ASSUME num > n PROVE Contents[n + 1] = data[Index(n)]
        OBVIOUS
      <4> DEFINE k == n + 1
      <4> HIDE DEF n, paired
      <4>3. k \in 1 .. num /\ k - 1 = n
        BY <1>1, <2>1, <4>1
      <4> HIDE DEF k
      <4>4. Contents[k] = data[Index(k - 1)]
        BY <1>1, <4>3
      <4>5. Contents[k] = data[Index(n)]
        BY <4>3, <4>4
      <4> QED
        BY <4>5 DEF k
    <3>3. num > n <=> n < Len(Contents)
      BY <1>1, <2>1
    <3> QED
      BY <3>1, <3>2, <3>3 DEF LineLength, Abstract!OtherEOL
  <2> HIDE DEF n, paired
  <2>4. [i \in 1 .. n - 1 |-> data[Index(i - 1)]] = SubSeq(Contents, 1, n - 1)
    <3> DEFINE line == [i \in 1 .. n - 1 |-> data[Index(i - 1)]]
               front == SubSeq(Contents, 1, n - 1)
    <3>1. /\ n - 1 \in Nat /\ n - 1 \in Int /\ 1 \in Int
          /\ \A i \in 1 .. n - 1 : i \in 1 .. num /\ Contents[i] \in Bytes
      BY <1>1, <2>1, ElementOfSeq
    <3>2. \A i \in 1 .. n - 1 : line[i] = Contents[i]
      BY <1>1, <3>1
    <3>3. line \in [1 .. n - 1 -> Bytes]
      <4>1. \A i \in 1 .. n - 1 : data[Index(i - 1)] \in Bytes
        BY <1>1, <3>1
      <4> QED
        BY <4>1
    <3> HIDE DEF line
    <3>4. line \in Seq(Bytes) /\ Len(line) = n - 1
      BY <3>1, <3>3
    <3>5. /\ front \in Seq(Bytes)
          /\ Len(front) = (IF 1 <= n - 1 THEN n - 1 - 1 + 1 ELSE 0)
          /\ \A i \in 1 .. n - 1 - 1 + 1 : front[i] = Contents[1 + i - 1]
      BY <3>1, SubSeqProperties
    <3> HIDE DEF front
    <3>6. Len(front) = n - 1 /\ n - 1 - 1 + 1 = n - 1
      BY <3>1, <3>5
    <3>7. \A i \in 1 .. n - 1 : front[i] = Contents[i]
      <4>1. \A i \in 1 .. n - 1 : 1 + i - 1 = i
        BY <3>1
      <4> QED
        BY <3>5, <3>6, <4>1
    <3>8. line = front
      BY <3>2, <3>4, <3>5, <3>6, <3>7, SeqEqual
    <3> QED
      BY <3>8 DEF line, front
  <2>5. Contents' = SubSeq(Contents, LineLength + 1, Len(Contents))
    <3>1. LineLength \in 0 .. num
      BY <1>1, <2>2
    <3> QED
      BY <2>2, <3>1, TakeDrops
  <2>6. LineLength + 1 = IF paired THEN n + 2 ELSE n + 1
    BY <2>1, <2>3, <1>1
  <2>7. Contents' = SubSeq(Contents, IF paired THEN n + 2 ELSE n + 1, Len(Contents))
    BY <2>5, <2>6
  <2>8. /\ n \in 1 .. Len(Contents) /\ Contents[n] \in EOL
        /\ \A i \in 1 .. n - 1 : Contents[i] \notin EOL
    <3>1. \A i \in 1 .. n - 1 : i \in 1 .. num
      BY <1>1, <2>1
    <3> QED
      BY <1>1, <2>1, <3>1
  <2>9. out' = Got(SubSeq(Contents, 1, n - 1))
    BY <2>2, <2>4
  <2> QED
    BY <2>7, <2>8, <2>9 DEF Abstract!ReadLn, EOL, Abstract!EOL, Got, Abstract!Got, paired
<1> QED
  BY <1>2, <1>3

\* Every call on the ring is the same call on the queue; giving the ring back
\* is one flush more.
LEMMA QueueStep ==
  ASSUME RingOK, [Next]_vars
  PROVE  [Abstract!Next]_<<Contents, out>>
<1>1. CASE UNCHANGED vars
  BY <1>1 DEF vars, Contents, Index
<1>2. CASE Next
  <2>1. live /\ Live /\ Contents \in Seq(Bytes) /\ Len(Contents) = num
    BY <1>2, RingLive, ContentsSeq
       DEF Next, PutCh, UngetCh, GetCh, Copy, Flush, ReadLn, Retire
  <2>2. ASSUME NEW b \in Bytes, PutCh(b)
        PROVE  Abstract!PutCh(b)
    BY <2>1, <2>2, PutChAppends DEF PutCh, Abstract!PutCh, Nothing, Abstract!Nothing
  <2>3. ASSUME NEW b \in Bytes, UngetCh(b)
        PROVE  Abstract!UngetCh(b)
    BY <2>1, <2>3, UngetChPushes DEF UngetCh, Abstract!UngetCh, Nothing, Abstract!Nothing
  <2>4. CASE GetCh
    BY <2>1, <2>4, GetChHead DEF Abstract!Next
  <2>5. CASE Copy
    <3>1. Contents' = Contents
      BY <2>5 DEF Copy, Contents, Index, ring
    <3> QED
      BY <2>1, <2>5, <3>1, CopyContents DEF Abstract!Next, Abstract!Copy, Got, Abstract!Got
  <2>6. CASE Flush \/ Retire
    <3>1. num' = 0 /\ out' = Nothing
      BY <2>6 DEF Flush, Retire
    <3> QED
      BY <3>1, Emptied DEF Abstract!Next, Abstract!Flush, Nothing, Abstract!Nothing
  <2>7. CASE ReadLn
    BY <2>1, <2>7, ReadLnLine DEF Abstract!Next
  <2> QED
    BY <1>2, <2>2, <2>3, <2>4, <2>5, <2>6, <2>7 DEF Next, Abstract!Next
<1> QED
  BY <1>1, <1>2

\* The ring is a queue of bytes: whatever its size, wherever it wraps and
\* however often it grows, no byte is lost, doubled or moved.
THEOREM QueueCorrect == Spec => IsBytestream
<1>1. Init => Abstract!Init
  BY NothingHeld, ContentsHeld DEF Init, Abstract!Init, Nothing, Abstract!Nothing
<1>2. RingOK /\ [Next]_vars => [Abstract!Next]_<<Contents, out>>
  BY QueueStep
<1> QED
  BY <1>1, <1>2, RingCorrect, PTL DEF Spec, IsBytestream, Abstract!Spec

=============================================================================
