----------------------------- MODULE Bytestream -----------------------------
(***************************************************************************)
(* What a stream promises its callers: a queue of bytes that can also be   *)
(* pushed back at the front, read out whole, and read line by line.        *)
(***************************************************************************)
EXTENDS Integers, Sequences

CONSTANTS
  Bytes,     \* the bytes a stream may hold
  CR, LF,    \* the two of them that end a line
  Limit      \* bound: bytes a caller leaves in the stream

VARIABLES
  queue,   \* the bytes, oldest first
  out      \* what the last call returned: bytes, or Nothing

EOL == {CR, LF}
\* Results: the bytes a call returned, or that it returned none
Got(s) == [some |-> TRUE, bytes |-> s]
Nothing == [some |-> FALSE, bytes |-> <<>>]
OtherEOL(ch) == IF ch = LF THEN CR ELSE LF

Init == queue = <<>> /\ out = Nothing

PutCh(b) ==
  /\ Len(queue) < Limit
  /\ queue' = Append(queue, b) /\ out' = Nothing

UngetCh(b) ==
  /\ Len(queue) < Limit
  /\ queue' = <<b>> \o queue /\ out' = Nothing

GetCh ==
  \/ queue = <<>> /\ out' = Nothing /\ UNCHANGED queue
  \/ queue # <<>> /\ out' = Got(<<Head(queue)>>) /\ queue' = Tail(queue)

Copy == out' = Got(queue) /\ UNCHANGED queue

Flush == queue' = <<>> /\ out' = Nothing

\* A line ends at the first CR or LF.  The other one of the pair goes with it
\* when it is next.  A call may find no line.
ReadLn ==
  \/ out' = Nothing /\ UNCHANGED queue
  \/ \E n \in 1 .. Len(queue) :
       /\ queue[n] \in EOL /\ \A i \in 1 .. n - 1 : queue[i] \notin EOL
       /\ out' = Got(SubSeq(queue, 1, n - 1))
       /\ LET paired == n < Len(queue) /\ queue[n + 1] = OtherEOL(queue[n])
          IN  queue' = SubSeq(queue, IF paired THEN n + 2 ELSE n + 1, Len(queue))

Next ==
  \/ \E b \in Bytes : PutCh(b) \/ UngetCh(b)
  \/ GetCh \/ Copy \/ Flush \/ ReadLn

Spec == Init /\ [][Next]_<<queue, out>>

=============================================================================
