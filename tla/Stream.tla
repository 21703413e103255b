------------------------------- MODULE Stream -------------------------------
(***************************************************************************)
(* The growing ring buffer that holds every input line, every message and  *)
(* everything on its way to a user (stream.c).  Bytes are added at head,   *)
(* or pushed back before tail; num of them are held, from tail on, in an   *)
(* array of size bytes that doubles when it is full.                       *)
(*                                                                         *)
(* A stream is a private record of its owner: the calls on it follow each  *)
(* other in any order the callers like.  con_exuser shrinks the stream of  *)
(* a user who has left, for good: nobody writes to it afterwards.          *)
(***************************************************************************)
EXTENDS Integers, Sequences

CONSTANTS
  Bytes,       \* the bytes of this instance
  CR, LF,      \* '\r' and '\n'
  NUL,         \* the byte calloc fills new arrays with
  InitSizes,   \* sizes the callers ask stream_init for
  Limit        \* bound: bytes a caller leaves in the stream

ASSUME ByteAssumption == {CR, LF, NUL} \subseteq Bytes /\ CR # LF
ASSUME SizesAssumption == InitSizes \subseteq Nat \ {0}
ASSUME LimitAssumption == Limit \in Nat

VARIABLES
  data,    \* the array
  size,    \* its size
  head,    \* where the next byte goes
  tail,    \* where the oldest byte is
  num,     \* bytes held
  out,     \* what the last call returned: bytes, or Nothing
  live     \* whether the owner still uses the stream

vars == <<data, size, head, tail, num, out, live>>
ring == <<data, size, head, tail, num>>

EOL == {CR, LF}
\* Results: the bytes a call returned, or that it returned none
Got(s) == [some |-> TRUE, bytes |-> s]
Nothing == [some |-> FALSE, bytes |-> <<>>]

Init ==
  /\ size \in InitSizes /\ data = [i \in 0 .. size - 1 |-> NUL]
  /\ head = 0 /\ tail = 0 /\ num = 0
  /\ out = Nothing /\ live = TRUE

-----------------------------------------------------------------------------
\* The place in the array of the i-th byte from tail
Index(i) == IF tail + i < size THEN tail + i ELSE tail + i - size

\* Steps of a scan that starts at tail and stops before head: none at all
\* through a full ring.
Span == IF tail <= head THEN head - tail ELSE size - tail + head

\* The scan of stream_extract, which looks at head only after its first step
Extent == IF Span = 0 THEN size ELSE Span

Contents == [i \in 1 .. num |-> data[Index(i - 1)]]

stream_empty == num <= 0
stream_full == num >= size

\* Definitions ending in Bug are their namesakes with one plausible mistake.

GrownUnmovedBug ==
  [data |-> [i \in 0 .. 2 * size - 1 |-> IF i < size THEN data[i] ELSE NUL],
   size |-> 2 * size, head |-> size, tail |-> 0]

\* stream_grow to twice the size: the bytes move to the front of a new array.
Grown ==
  [data |-> [i \in 0 .. 2 * size - 1 |-> IF i < size THEN data[Index(i)] ELSE NUL],
   size |-> 2 * size, head |-> size, tail |-> 0]
AsIs == [data |-> data, size |-> size, head |-> head, tail |-> tail]

\* The array with room for one byte more
Roomy == IF stream_full THEN Grown ELSE AsIs

PutChNoWrapBug(b) ==
  /\ live /\ num < Limit
  /\ LET r == Roomy IN
       /\ data' = [r.data EXCEPT ![r.head] = b]
       /\ size' = r.size /\ tail' = r.tail
       /\ head' = r.head + 1
  /\ num' = num + 1
  /\ out' = Nothing /\ UNCHANGED live

PutCh(b) ==
  /\ live /\ num < Limit
  /\ LET r == Roomy IN
       /\ data' = [r.data EXCEPT ![r.head] = b]
       /\ size' = r.size /\ tail' = r.tail
       /\ head' = IF r.head + 1 >= r.size THEN 0 ELSE r.head + 1
  /\ num' = num + 1
  /\ out' = Nothing /\ UNCHANGED live

UngetCh(b) ==
  /\ live /\ num < Limit
  /\ LET r == Roomy
         before == IF r.tail - 1 < 0 THEN r.size - 1 ELSE r.tail - 1
     IN  /\ data' = [r.data EXCEPT ![before] = b]
         /\ size' = r.size /\ tail' = before /\ head' = r.head
  /\ num' = num + 1
  /\ out' = Nothing /\ UNCHANGED live

\* stream_getch n times over
Take(n) ==
  /\ tail' = Index(n)
  /\ num' = num - n
  /\ UNCHANGED <<data, size, head, live>>

GetCh ==
  /\ live
  /\ \/ stream_empty /\ out' = Nothing /\ UNCHANGED <<ring, live>>
     \/ ~stream_empty /\ out' = Got(<<data[tail]>>) /\ Take(1)

\* stream_copy, and stream_extract under it
Copy ==
  /\ live
  /\ out' = Got([i \in 1 .. IF num = 0 THEN 0 ELSE Extent |-> data[Index(i - 1)]])
  /\ UNCHANGED <<ring, live>>

Flush ==
  /\ live
  /\ head' = 0 /\ tail' = 0 /\ num' = 0
  /\ out' = Nothing /\ UNCHANGED <<data, size, live>>

\* stream_hasline: the length of the first line with its end, or 0
HasLineNoWrapBug ==
  LET ends == {i \in 1 .. Span : tail + i <= size /\ data[Index(i - 1)] \in EOL}
  IN  IF stream_empty \/ ends = {} THEN 0
      ELSE CHOOSE i \in ends : \A j \in ends : i <= j

HasLine ==
  LET ends == {i \in 1 .. Span : data[Index(i - 1)] \in EOL}
  IN  IF stream_empty \/ ends = {} THEN 0
      ELSE CHOOSE i \in ends : \A j \in ends : i <= j

\* stream_readln: the line without its end.  After a CR an LF is swallowed
\* too, and a CR after an LF; any other byte is pushed back where it was.
ReadLn ==
  /\ live
  /\ LET len == HasLine
         end == data[Index(len - 1)]
         pair == IF end = LF THEN CR ELSE LF
     IN  \/ len = 0 /\ out' = Nothing /\ UNCHANGED <<ring, live>>
         \/ /\ len # 0
            /\ out' = Got([i \in 1 .. len - 1 |-> data[Index(i - 1)]])
            /\ Take(IF num > len /\ data[Index(len)] = pair THEN len + 1 ELSE len)

\* The end of con_exuser: stream_flush, then stream_shrink of an empty stream
Retire ==
  /\ live
  /\ head' = 0 /\ tail' = 0 /\ num' = 0
  /\ data' = [i \in {0} |-> NUL] /\ size' = 0
  /\ out' = Nothing /\ live' = FALSE

Next ==
  \/ \E b \in Bytes : PutCh(b) \/ UngetCh(b)
  \/ GetCh \/ Copy \/ Flush \/ ReadLn \/ Retire

Spec == Init /\ [][Next]_vars

-----------------------------------------------------------------------------
\* The indices stay in the array, and the array in step with the counter: the
\* bytes between tail and head are the num bytes held, all or none of the ring
\* when the two meet.
RingOK ==
  /\ num \in Nat /\ num <= Limit
  /\ live => /\ size \in Nat \ {0} /\ num <= size
             /\ data \in [0 .. size - 1 -> Bytes]
             /\ head \in 0 .. size - 1 /\ tail \in 0 .. size - 1
             /\ head = Index(num)

\* A line that has arrived in full is only missed while it fills the ring to
\* the last byte.
LineMissedOnlyWhenFull ==
  live /\ HasLine = 0 /\ (\E i \in 1 .. num : Contents[i] \in EOL) => num = size

\* The ring is a queue of bytes, whatever its size, wherever it wraps, and
\* whenever it has to grow: no byte is lost, doubled or moved.
Abstract == INSTANCE Bytestream WITH queue <- Contents

IsBytestream == Abstract!Spec

=============================================================================
