-------------------------------- MODULE Lines --------------------------------
(***************************************************************************)
(* From what a user types to the lines the server acts on.  The client     *)
(* sends lines and telnet requests; the network cuts them into pieces;     *)
(* user_poll reads one piece at a time into the input stream of the user,  *)
(* answers the requests it finds at its front, and takes a line out if the *)
(* user's state asks for one.  Everything else stays in the stream for a   *)
(* later pass of con_run.  The stream is the queue of Bytestream and the   *)
(* size of the ring that holds it, because stream_hasline finds no line    *)
(* while the ring is full to the last byte (LineMissedOnlyWhenFull in      *)
(* Stream).                                                                *)
(***************************************************************************)
EXTENDS Integers, Sequences, SequencesExt

CONSTANTS
  Letters,   \* the bytes text is made of
  Text,      \* the lines a client may type
  Ends,      \* how clients end a line: <<CR>>, <<LF>> or <<CR, LF>>
  Outcomes,  \* states a command can leave its user in
  Splits,    \* what the network cuts in two: "line", "request"
  InSize,    \* bytes the input stream has room for at first: STREAM_LEN
  Units,     \* bound: lines and requests a client sends
  Mail       \* bound: messages the user receives

CR == "cr"
LF == "lf"
IAC == "iac"

\* A telnet option request has three bytes, a break two.
Request == <<IAC, "will", "opt">>
Break == <<IAC, "brk">>

Telnet == {IAC, "will", "opt", "brk"}
Bytes == {CR, LF} \cup Telnet \cup Letters

AskingStates == {"LOGIN", "CHG", "WARN", "OUT"}

ASSUME LetterAssumption == Letters \cap ({CR, LF} \cup Telnet) = {}
ASSUME TextAssumption == Text \subseteq Seq(Letters)
ASSUME EndAssumption == Ends \subseteq {<<CR>>, <<LF>>, <<CR, LF>>}
ASSUME OutcomeAssumption == Outcomes \subseteq {"IDLE", "BUILD", "LINE"} \cup AskingStates
ASSUME SizeAssumption == InSize \in Nat \ {0}
ASSUME BoundAssumption == Units \in Nat /\ Mail \in Nat

VARIABLES
  end,      \* how this client ends a line
  typed,    \* history: the lines typed
  wire,     \* lines and requests, or what is left of them, not yet read
  closed,   \* the client has closed the connexion
  in,       \* the input stream of the user
  room,     \* size of the ring that holds it
  line,     \* what stream_readln returned last
  st,       \* state of the user
  pc,       \* "wait" in con_run's select, "poll" in user_poll
  up,       \* the connexion is open on this side
  mail,     \* messages yet to come for the user
  sent,     \* lines and requests the client has sent
  handled,  \* history: the lines the server has acted on
  torn      \* history: a request has been taken without its option

vars == <<end, typed, wire, closed, in, room, line, st, pc, up, mail, sent,
          handled, torn>>
client == <<end, typed, wire, closed, sent>>

Input == INSTANCE Bytestream
           WITH queue <- in, out <- line, Limit <- 4 * Units

Init ==
  /\ end \in Ends
  /\ typed = <<>> /\ wire = <<>> /\ closed = FALSE /\ sent = 0
  /\ in = <<>> /\ room = InSize /\ line = Input!Nothing
  /\ st = "LOGIN" /\ pc = "wait" /\ up = TRUE
  /\ mail = Mail /\ handled = <<>> /\ torn = FALSE

-----------------------------------------------------------------------------
\* The client
Send(unit) ==
  /\ ~closed /\ sent < Units
  /\ wire' = Append(wire, unit) /\ sent' = sent + 1
  /\ UNCHANGED <<end, closed, in, room, line, st, pc, up, mail, handled, torn>>

Type(text) == Send(text \o end) /\ typed' = Append(typed, text)
SendRequest == (Send(Request) \/ Send(Break)) /\ UNCHANGED typed

HangUp ==
  /\ ~closed /\ closed' = TRUE
  /\ UNCHANGED <<end, typed, wire, sent, in, room, line, st, pc, up, mail, handled, torn>>

-----------------------------------------------------------------------------
Waiting == up /\ pc = "wait"
Polling == up /\ pc = "poll"

\* Definitions ending in Bug are their namesakes with one plausible mistake.

ReceiveNoneBug ==
  /\ Waiting /\ st = "IDLE"
  /\ st' = "RECV" /\ mail' = mail - 1
  /\ UNCHANGED <<client, in, room, line, pc, up, handled, torn>>

\* The transmit phase of con_run: a message begins, if the user is idle.
Receive ==
  /\ Waiting /\ st = "IDLE" /\ mail > 0
  /\ st' = "RECV" /\ mail' = mail - 1
  /\ UNCHANGED <<client, in, room, line, pc, up, handled, torn>>

Kind(unit) == IF unit[1] = IAC THEN "request" ELSE "line"

\* stream_putch doubles a full ring: the sizes it can have after n bytes of
\* content, of which there is one
Grown(n) ==
  {r \in {room} \cup 0 .. 2 * n :
     /\ n <= r /\ (r = room \/ r < 2 * n)
     /\ \E k \in 0 .. n : r = room * 2 ^ k}

\* net_read: some whole units, and a part of the next one if it can be cut
Read ==
  /\ Waiting
  /\ \E k \in 0 .. Len(wire), cut \in 0 .. 2 :
       /\ cut > 0 => k < Len(wire) /\ cut < Len(wire[k + 1]) /\ Kind(wire[k + 1]) \in Splits
       /\ k + cut > 0
       /\ in' = in \o FlattenSeq(SubSeq(wire, 1, k))
                   \o (IF cut > 0 THEN SubSeq(wire[k + 1], 1, cut) ELSE <<>>)
       /\ room' \in Grown(Len(in'))
       /\ wire' = IF cut > 0
                  THEN <<SubSeq(wire[k + 1], cut + 1, Len(wire[k + 1]))>>
                         \o SubSeq(wire, k + 2, Len(wire))
                  ELSE SubSeq(wire, k + 1, Len(wire))
  /\ pc' = "poll"
  /\ UNCHANGED <<end, typed, closed, sent, line, st, up, mail, handled, torn>>

\* net_read finds the connexion closed: user_poll fails, and con_exuser follows.
ReadEnd ==
  /\ Waiting /\ closed /\ wire = <<>>
  /\ up' = FALSE
  /\ UNCHANGED <<client, in, room, line, st, pc, mail, handled, torn>>

\* select returns for somebody else, or because its timeout has passed.
NoInput ==
  /\ Waiting
  /\ pc' = "poll"
  /\ UNCHANGED <<client, in, room, line, st, up, mail, handled, torn>>

\* tel_hasreq wants two bytes at least, and an IAC in front.
HasReq == Len(in) >= 2 /\ in[1] = IAC

ReqLenShortBug == 2

\* A request that has an option takes that too, if it has arrived.
ReqLen == IF in[2] = "will" /\ Len(in) >= 3 THEN 3 ELSE 2

\* user_handle_telnet, one request at a time.  A break disconnects whoever
\* has not rejected breaks.
HandleTelnet ==
  /\ Polling /\ HasReq
  /\ in' = SubSeq(in, ReqLen + 1, Len(in))
  /\ \/ up' = up
     \/ in[2] = "brk" /\ up' = FALSE
  /\ torn' = (torn \/ in = <<IAC, "will">>)
  /\ UNCHANGED <<client, room, line, st, pc, mail, handled>>

\* The end of a line has arrived.
HasEnd == \E i \in DOMAIN in : in[i] \in {CR, LF}

\* stream_hasline looks from the tail up to the head of the ring, which is at
\* the tail as well when the ring is full: it finds nothing then.
HasLine == HasEnd /\ Len(in) < room

\* stream_readln finds a line.
TakeLine == HasLine /\ Input!ReadLn /\ line'.some

\* Nothing to take, or the user is busy receiving
IdlePoll ==
  /\ Polling /\ ~HasReq
  /\ ~HasLine \/ st = "RECV"
  /\ pc' = "wait"
  /\ UNCHANGED <<client, in, room, line, st, up, mail, handled, torn>>

ReceivedBusyBug ==
  /\ Polling /\ ~HasReq /\ st = "RECV"
  /\ pc' = "wait"
  /\ UNCHANGED <<client, in, room, line, st, up, mail, handled, torn>>

\* user_sendblk has sent everything.
Received ==
  /\ Polling /\ ~HasReq /\ st = "RECV"
  /\ st' = "IDLE" /\ pc' = "wait"
  /\ UNCHANGED <<client, in, room, line, up, mail, handled, torn>>

\* con_command, for a user who is idle or only wants no messages
Command ==
  /\ Polling /\ ~HasReq /\ st \in {"IDLE", "LINE"}
  /\ TakeLine
  /\ handled' = Append(handled, line'.bytes)
  /\ st' \in Outcomes
  /\ pc' = "wait"
  /\ UNCHANGED <<client, room, up, mail, torn>>

AnswerSkipsEmptyBug ==
  /\ Polling /\ ~HasReq /\ st \in AskingStates
  /\ TakeLine
  /\ handled' = IF line'.bytes = <<>> THEN handled ELSE Append(handled, line'.bytes)
  /\ st' \in {"IDLE"} \cup ({st} \cap {"LOGIN"})
  /\ pc' = "wait"
  /\ UNCHANGED <<client, room, up, mail, torn>>

\* The answer to a question, or the line that ends being out.  The question for
\* the name is asked again after an RP.
Answer ==
  /\ Polling /\ ~HasReq /\ st \in AskingStates
  /\ TakeLine
  /\ handled' = Append(handled, line'.bytes)
  /\ st' \in {"IDLE"} \cup ({st} \cap {"LOGIN"})
  /\ pc' = "wait"
  /\ UNCHANGED <<client, room, up, mail, torn>>

\* A message being composed takes every line there is, up to an empty one.
Build ==
  /\ Polling /\ ~HasReq /\ st = "BUILD"
  /\ TakeLine
  /\ handled' = Append(handled, line'.bytes)
  /\ IF line'.bytes = <<>> THEN st' = "IDLE" /\ pc' = "wait"
                           ELSE UNCHANGED <<st, pc>>
  /\ UNCHANGED <<client, room, up, mail, torn>>

Poll == HandleTelnet \/ IdlePoll \/ Received \/ Command \/ Answer \/ Build
Client == HangUp \/ SendRequest \/ \E text \in Text : Type(text)
Server == Receive \/ Read \/ ReadEnd \/ NoInput \/ Poll

Next == Client \/ Server

Spec == Init /\ [][Next]_vars

\* con_run goes on: its select has a timeout.  What is on the wire arrives,
\* and the client reads what it is sent.
FairSpec ==
  Spec /\ WF_vars(NoInput \/ Poll) /\ SF_vars(Read) /\ SF_vars(Received)

-----------------------------------------------------------------------------
TypeOK ==
  /\ in \in Seq(Bytes) /\ room \in Nat /\ Len(in) <= room
  /\ handled \in Seq(Seq(Bytes)) /\ typed \in Seq(Text)
  /\ st \in Outcomes \cup {"IDLE", "RECV", "LOGIN"}
  /\ pc \in {"wait", "poll"} /\ up \in BOOLEAN /\ mail \in 0 .. Mail /\ torn \in BOOLEAN

\* The lines of s that are not empty
Filled(s) == FlattenSeq([i \in DOMAIN s |-> IF s[i] = <<>> THEN <<>> ELSE <<s[i]>>])

\* A line without what belongs to telnet requests
Legible(t) == FlattenSeq([i \in DOMAIN t |-> IF t[i] \in Telnet THEN <<>> ELSE <<t[i]>>])

\* However the network cuts lines and requests, and whatever the user is doing
\* while they arrive, the lines with text are acted on in the order typed, none
\* of them lost, repeated, joined with another or mixed with a telnet request;
\* but a request that is taken before its option has come leaves the option, and
\* the requests behind it, in a line.
TextKept ==
  /\ IsPrefix(Filled([i \in DOMAIN handled |-> Legible(handled[i])]), Filled(typed))
  /\ torn \/ \A i \in DOMAIN handled : handled[i] = Legible(handled[i])

\* With one byte to end a line the empty lines are right as well, on which the
\* end of a message depends.
LinesExact == Len(end) = 1 /\ ~torn => IsPrefix(handled, typed)

\* The lines that have arrived fill the ring to its last byte.
Hidden == HasEnd /\ Len(in) = room

\* Every line is acted on as long as the user stays, though more lines arrive
\* at a time than one pass of the loop takes, or messages keep the user busy.
\* The one exception is not what users are told ("until you press the RETURN
\* key", help/out.hf): a line whose end takes the last byte of the ring waits
\* for another byte to come, for ever if none does.
AllHandled ==
  \A n \in 1 .. Units :
    Len(typed) >= n ~> Len(handled) >= n \/ ~up \/ [](Hidden /\ wire = <<>>)

=============================================================================
