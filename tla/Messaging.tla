------------------------------ MODULE Messaging ------------------------------
(***************************************************************************)
(* Messages between the users of a conference: composed line by line,      *)
(* posted to the recipients chosen when the TELL was typed, kept in one    *)
(* queue per user and sent when that user is idle; notifications,          *)
(* warnings and help texts share the queues.                               *)
(*                                                                         *)
(* A message exists once, however many queues it is in, and counts its     *)
(* references (message.c).  Everything is done by the one loop of con_run: *)
(* first idle users start to receive what is queued for them, then the     *)
(* slots are polled in order, so what an earlier slot posts in a pass is   *)
(* seen by a later one before any of it has been sent.                     *)
(*                                                                         *)
(* There is one subconference here and its master stays: Conference is     *)
(* about who commands whom and about the end.                              *)
(***************************************************************************)
EXTENDS Integers, Sequences, FiniteSets

CONSTANTS
  Size,       \* slots of the conference (con.size)
  Heap,       \* bound: messages that exist at a time
  Backlog,    \* bound: messages in the queue of a user
  Commands    \* the commands the users of this instance type

ASSUME SizeAssumption == Size \in Nat \ {0}
ASSUME HeapAssumption == Heap \in Nat /\ Backlog \in Nat \ {0}

Slots == 0 .. Size - 1
Ids == 1 .. Heap
None == 0        \* the NULL message

VARIABLES
  who,      \* users connected
  st,       \* what each of them is doing
  msg,      \* the messages
  inc,      \* message each user is composing, or None
  queue,    \* messages waiting for each user
  sending,  \* users whose output stream holds text not yet sent
  ig,       \* users each user ignores
  ra, rn,   \* users who reject tell-alls, and notifications
  warn,     \* the current warning, or None
  turn,     \* slot con_run is serving; after them the clock, then the next pass
  shown,    \* history: users who have been sent the current warning
  dropped   \* history: users who discarded it from their queue

vars == <<who, st, msg, inc, queue, sending, ig, ra, rn, warn, turn, shown, dropped>>
flags == <<ig, ra, rn>>
warning == <<warn, shown, dropped>>

Blank == [kind |-> "free", from |-> 0, rcpt |-> {}, text |-> FALSE, ref |-> 0]

Init ==
  /\ who = {} /\ st = [u \in Slots |-> "IDLE"]
  /\ msg = [m \in Ids |-> Blank]
  /\ inc = [u \in Slots |-> None] /\ queue = [u \in Slots |-> <<>>]
  /\ sending = {}
  /\ ig = [u \in Slots |-> {}] /\ ra = {} /\ rn = {}
  /\ warn = None /\ turn = 0
  /\ shown = {} /\ dropped = {}

-----------------------------------------------------------------------------
\* Definitions ending in Bug are their namesakes with one plausible mistake.

\* msg_clear, for n[m] references to each message m: the last one frees it.
Unref(msgs, n) ==
  [m \in Ids |-> IF msgs[m].ref = n[m] THEN Blank
                 ELSE [msgs[m] EXCEPT !.ref = @ - n[m]]]

\* One reference, to m; none if m is None
One(m) == [n \in Ids |-> IF n = m THEN 1 ELSE 0]

\* References the queue of u holds
InQueue(u, m) == Cardinality({i \in DOMAIN queue[u] : queue[u][i] = m})

\* msg_alloc: an unused message
Fresh(msgs, m) ==
  /\ msgs[m].kind = "free"
  /\ \A n \in Ids : n < m => msgs[n].kind # "free"

\* user_enqueue: a reference to m for every user of to
EnqueueUncountedBug(msgs, queues, m, to) ==
  /\ \A u \in to : Len(queues[u]) < Backlog
  /\ queue' = [u \in Slots |-> IF u \in to THEN Append(queues[u], m) ELSE queues[u]]
  /\ msg' = [msgs EXCEPT ![m].ref = @ - 1 + (IF to = {} THEN 0 ELSE 1)]

\* The poster gives up his own reference, as the callers of user_enqueue do.
Enqueue(msgs, queues, m, to) ==
  /\ \A u \in to : Len(queues[u]) < Backlog
  /\ queue' = [u \in Slots |-> IF u \in to THEN Append(queues[u], m) ELSE queues[u]]
  /\ LET counted == [msgs EXCEPT ![m].ref = @ + Cardinality(to)]
     IN  msg' = Unref(counted, One(m))

\* con_notify about ex
Notify(ex, msgs, queues, rejecting) ==
  \E m \in Ids :
    /\ Fresh(msgs, m)
    /\ Enqueue([msgs EXCEPT ![m] = [Blank EXCEPT !.kind = "notify", !.ref = 1]],
               queues, m,
               {u \in who \ {ex} : u \notin rejecting /\ st[u] # "OUT"})

\* con_post: the recipients are looked at again when the message is finished.
RecipientsOnceBug(m) == msg[m].rcpt \cap who

Recipients(m) ==
  {u \in msg[m].rcpt \cap who : msg[m].from \notin ig[u] /\ st[u] # "OUT"}

-----------------------------------------------------------------------------
Polled(u) == turn = u /\ u \in who
Served == turn' = turn + 1

\* con_newuser
ConnectUnwarnedBug ==
  /\ turn = 0
  /\ \E u \in Slots \ who :
       /\ \A v \in Slots \ who : u <= v
       /\ who' = who \cup {u}
       /\ st' = [st EXCEPT ![u] = "LOGIN"]
       /\ rn' = rn \cup {u}
  /\ UNCHANGED <<msg, queue, inc, sending, ig, ra, warning, turn>>

Connect ==
  /\ turn = 0
  /\ \E u \in Slots \ who :
       /\ \A v \in Slots \ who : u <= v
       /\ who' = who \cup {u}
       /\ st' = [st EXCEPT ![u] = "LOGIN"]
       /\ rn' = rn \cup {u}
       /\ IF warn = None THEN UNCHANGED <<msg, queue>>
          ELSE /\ msg' = [msg EXCEPT ![warn].ref = @ + 1]
               /\ queue' = [queue EXCEPT ![u] = <<warn>>]
  /\ UNCHANGED <<inc, sending, ig, ra, warning, turn>>

\* The first half of con_run's loop: user_transmit for everybody who is idle
\* and has something queued.  The text is copied, so the reference is given up.
TransmitKeepsBug ==
  LET T == {u \in who : st[u] = "IDLE" /\ queue[u] # <<>>}
  IN  /\ st' = [u \in Slots |-> IF u \in T THEN "RECV" ELSE st[u]]
      /\ sending' = sending \cup T
      /\ queue' = [u \in Slots |-> IF u \in T THEN Tail(queue[u]) ELSE queue[u]]
      /\ msg' = msg
      /\ shown' = shown \cup {u \in T : Head(queue[u]) = warn}

TransmitBusyBug ==
  LET T == {u \in who : st[u] # "LOGIN" /\ queue[u] # <<>>}
  IN  /\ st' = st
      /\ sending' = sending \cup T
      /\ queue' = [u \in Slots |-> IF u \in T THEN Tail(queue[u]) ELSE queue[u]]
      /\ msg' = Unref(msg, [m \in Ids |-> Cardinality({u \in T : Head(queue[u]) = m})])
      /\ shown' = shown \cup {u \in T : Head(queue[u]) = warn}

TransmitAloneBug ==
  LET T == {u \in who : st[u] = "IDLE" /\ queue[u] # <<>> /\ sending = {}}
  IN  /\ st' = [u \in Slots |-> IF u \in T THEN "RECV" ELSE st[u]]
      /\ sending' = sending \cup T
      /\ queue' = [u \in Slots |-> IF u \in T THEN Tail(queue[u]) ELSE queue[u]]
      /\ msg' = Unref(msg, [m \in Ids |-> Cardinality({u \in T : Head(queue[u]) = m})])
      /\ shown' = shown \cup {u \in T : Head(queue[u]) = warn}

Transmit ==
  LET T == {u \in who : st[u] = "IDLE" /\ queue[u] # <<>>}
  IN  /\ st' = [u \in Slots |-> IF u \in T THEN "RECV" ELSE st[u]]
      /\ sending' = sending \cup T
      /\ queue' = [u \in Slots |-> IF u \in T THEN Tail(queue[u]) ELSE queue[u]]
      /\ msg' = Unref(msg, [m \in Ids |-> Cardinality({u \in T : Head(queue[u]) = m})])
      /\ shown' = shown \cup {u \in T : Head(queue[u]) = warn}

BeginPass ==
  /\ turn = Size + 1 /\ turn' = 0
  /\ Transmit
  /\ UNCHANGED <<who, inc, flags, warn, dropped>>

\* Nothing from this slot: it is free, or its user has typed nothing, or is
\* busy receiving, or types a command that is about something else.
Skip ==
  /\ turn < Size /\ Served
  /\ \/ UNCHANGED st
     \/ turn \in who /\ st[turn] = "LINE" /\ st' = [st EXCEPT ![turn] = "IDLE"]
  /\ UNCHANGED <<who, msg, inc, queue, sending, flags, warning>>

\* con_exuser, for a user who hangs up or says BYE
ExUser(u) ==
  /\ LET rid == Unref(msg, [m \in Ids |-> InQueue(u, m) + One(inc[u])[m]])
     IN  Notify(u, rid, [queue EXCEPT ![u] = <<>>], rn)
  /\ who' = who \ {u}
  /\ st' = [st EXCEPT ![u] = "IDLE"] /\ inc' = [inc EXCEPT ![u] = None]
  /\ sending' = sending \ {u}
  /\ ig' = [ig EXCEPT ![u] = {}] /\ ra' = ra \ {u} /\ rn' = rn \ {u}
  /\ shown' = shown \ {u} /\ dropped' = dropped \ {u}
  /\ UNCHANGED warn

Leave(u) == Polled(u) /\ u # 0 /\ ExUser(u) /\ Served

\* user_sendblk; a user who has been sent everything is idle again.
SendBlk(u) ==
  /\ Polled(u) /\ st[u] = "RECV"
  /\ IF u \in sending THEN sending' = sending \ {u} /\ UNCHANGED st
                      ELSE st' = [st EXCEPT ![u] = "IDLE"] /\ UNCHANGED sending
  /\ Served
  /\ UNCHANGED <<who, msg, inc, queue, flags, warning>>

\* con_login
Login(u) ==
  /\ Polled(u) /\ st[u] = "LOGIN"
  /\ Notify(u, msg, queue, rn)
  /\ rn' = rn \ {u} /\ st' = [st EXCEPT ![u] = "IDLE"]
  /\ Served
  /\ UNCHANGED <<who, inc, sending, ig, ra, warning>>

\* con_change, at the end of ID
Change(u) ==
  /\ Notify(u, msg, queue, rn)
  /\ st' = [st EXCEPT ![u] = "IDLE"]
  /\ UNCHANGED <<who, inc, sending, flags, warning>>

ChangeName(u) == Polled(u) /\ st[u] = "CHG" /\ Change(u) /\ Served

\* con_warn
PostWarning ==
  /\ \E m \in Ids :
       /\ Fresh(msg, m)
       /\ LET made == [msg EXCEPT ![m] = [Blank EXCEPT !.kind = "warn", !.ref = 2]]
          IN  Enqueue(Unref(made, One(warn)), queue, m, who)
       /\ warn' = m
  /\ shown' = {} /\ dropped' = {}
  /\ UNCHANGED <<who, inc, sending, flags>>

NewWarn(u) ==
  /\ Polled(u) /\ st[u] = "WARN"
  /\ PostWarning
  /\ st' = [st EXCEPT ![u] = "IDLE"] /\ Served

\* con_run looks at the clock, which may be due for a warning (con_warnsd).
Clock ==
  /\ turn = Size /\ Served
  /\ \/ UNCHANGED <<who, msg, inc, queue, sending, flags, warning>>
     \/ PostWarning
  /\ UNCHANGED st

\* A line from somebody who is out
Return(u) ==
  /\ Polled(u) /\ st[u] = "OUT"
  /\ st' = [st EXCEPT ![u] = "IDLE"]
  /\ Served
  /\ UNCHANGED <<who, msg, inc, queue, sending, flags, warning>>

-----------------------------------------------------------------------------
\* con_deliver of the message m that u has finished
DeliverKeepsBug(u, m) ==
  /\ IF msg[m].text THEN Enqueue(msg, queue, m, Recipients(m))
     ELSE msg' = Unref(msg, One(m)) /\ UNCHANGED queue
  /\ st' = [st EXCEPT ![u] = "IDLE"]
  /\ UNCHANGED <<who, inc, sending, flags, warning>>

Deliver(u, m) ==
  /\ IF msg[m].text THEN Enqueue(msg, queue, m, Recipients(m))
     ELSE msg' = Unref(msg, One(m)) /\ UNCHANGED queue
  /\ inc' = [inc EXCEPT ![u] = None]
  /\ st' = [st EXCEPT ![u] = "IDLE"]
  /\ UNCHANGED <<who, sending, flags, warning>>

\* Lines of text for the message, the empty line that ends it, and the empty
\* line that aborts it because the text ends in "%k"
Write(u) ==
  /\ Polled(u) /\ st[u] = "BUILD"
  /\ msg' = [msg EXCEPT ![inc[u]].text = TRUE]
  /\ Served
  /\ UNCHANGED <<who, st, inc, queue, sending, flags, warning>>

EndMsg(u) == Polled(u) /\ st[u] = "BUILD" /\ Deliver(u, inc[u]) /\ Served

AbortMsg(u) ==
  /\ Polled(u) /\ st[u] = "BUILD" /\ msg[inc[u]].text
  /\ msg' = Unref(msg, One(inc[u]))
  /\ inc' = [inc EXCEPT ![u] = None] /\ st' = [st EXCEPT ![u] = "IDLE"]
  /\ Served
  /\ UNCHANGED <<who, queue, sending, flags, warning>>

-----------------------------------------------------------------------------
\* Whoever is idle, or only wants no messages, types commands.  A command
\* leaves him idle unless it says otherwise.
Typing(u, cmd) ==
  Polled(u) /\ st[u] \in {"IDLE", "LINE"} /\ cmd \in Commands /\ Served

\* Those a TELL may name, and those a tell-all goes to
MayTell(u) == {v \in who \ {u} : u \notin ig[v] /\ st[v] # "OUT"}
TellAll(u) == MayTell(u) \ ra

Tell(u, to, kind) ==
  /\ Typing(u, "tell")
  /\ to # {}
  /\ \/ kind = "msg" /\ to \subseteq MayTell(u)
     \/ kind = "toall" /\ to = TellAll(u)
  /\ \E m \in Ids :
       /\ Fresh(msg, m)
       /\ LET new == [kind |-> kind, from |-> u, rcpt |-> to, text |-> FALSE, ref |-> 1]
          IN  \/ /\ msg' = [msg EXCEPT ![m] = new]     \* "Speak!"
                 /\ inc' = [inc EXCEPT ![u] = m]
                 /\ st' = [st EXCEPT ![u] = "BUILD"]
                 /\ UNCHANGED queue
              \/ /\ Enqueue([msg EXCEPT ![m] = [new EXCEPT !.text = TRUE]],
                            queue, m, to)              \* text after a ;
                 /\ st' = [st EXCEPT ![u] = "IDLE"]
                 /\ UNCHANGED inc
  /\ UNCHANGED <<who, sending, flags, warning>>

\* cmd_exp, and cmd_help through it: user_force puts the text first in line.
\* Nobody gives up the reference cmd_exp got from msg_alloc.
Explain(u) ==
  /\ Typing(u, "explain")
  /\ Len(queue[u]) < Backlog
  /\ \E m \in Ids :
       /\ Fresh(msg, m)
       /\ msg' = [msg EXCEPT ![m] = [Blank EXCEPT !.kind = "expl", !.ref = 2]]
       /\ queue' = [queue EXCEPT ![u] = <<m>> \o @]
  /\ st' = [st EXCEPT ![u] = "IDLE"]
  /\ UNCHANGED <<who, inc, sending, flags, warning>>

OutKeepsBug(u) ==
  /\ Typing(u, "out")
  /\ st' = [st EXCEPT ![u] = "OUT"]
  /\ UNCHANGED <<who, msg, queue, inc, sending, flags, warning>>

\* cmd_out throws away what is queued.
Out(u) ==
  /\ Typing(u, "out")
  /\ msg' = Unref(msg, [m \in Ids |-> InQueue(u, m)])
  /\ queue' = [queue EXCEPT ![u] = <<>>]
  /\ st' = [st EXCEPT ![u] = "OUT"]
  /\ dropped' = dropped \cup {v \in {u} : InQueue(u, warn) > 0}
  /\ UNCHANGED <<who, inc, sending, flags, warn, shown>>

Lin(u) ==
  /\ Typing(u, "line")
  /\ st' = [st EXCEPT ![u] = "LINE"]
  /\ UNCHANGED <<who, msg, inc, queue, sending, flags, warning>>

Id(u) ==
  /\ Typing(u, "id")
  /\ \/ Change(u)
     \/ st' = [st EXCEPT ![u] = "CHG"]
        /\ UNCHANGED <<who, msg, inc, queue, sending, flags, warning>>

Warn(u) ==
  /\ Typing(u, "warn") /\ u = 0
  /\ \/ PostWarning /\ st' = [st EXCEPT ![u] = "IDLE"]
     \/ st' = [st EXCEPT ![u] = "WARN"]
        /\ UNCHANGED <<who, msg, inc, queue, sending, flags, warning>>

\* IG and AC, of some users or of all slots; RA, AA, RN, AN
SetFlags(u) ==
  /\ \/ /\ Typing(u, "ignore") /\ UNCHANGED <<ra, rn>>
        /\ \E map \in SUBSET (who \ {u}) :
             \/ ig' = [ig EXCEPT ![u] = IF map = {} THEN Slots \ {u} ELSE @ \cup map]
             \/ ig' = [ig EXCEPT ![u] = IF map = {} THEN {} ELSE @ \ map]
     \/ Typing(u, "ra") /\ ra' \in {ra \cup {u}, ra \ {u}} /\ UNCHANGED <<ig, rn>>
     \/ Typing(u, "rn") /\ rn' \in {rn \cup {u}, rn \ {u}} /\ UNCHANGED <<ig, ra>>
  /\ st' = [st EXCEPT ![u] = "IDLE"]
  /\ UNCHANGED <<who, msg, inc, queue, sending, warning>>

Handle(u) ==
  \/ Leave(u) \/ SendBlk(u) \/ Login(u) \/ ChangeName(u) \/ NewWarn(u) \/ Return(u)
  \/ Write(u) \/ EndMsg(u) \/ AbortMsg(u)
  \/ Explain(u) \/ Out(u) \/ Lin(u) \/ Id(u) \/ Warn(u) \/ SetFlags(u)
  \/ \E to \in SUBSET who, kind \in {"msg", "toall"} : Tell(u, to, kind)

Next == Connect \/ BeginPass \/ Skip \/ Clock \/ \E u \in Slots : Handle(u)

Spec == Init /\ [][Next]_vars

\* The loop of con_run never stops between two steps.
FairSpec == Spec /\ WF_vars(Next)

-----------------------------------------------------------------------------
States == {"IDLE", "BUILD", "RECV", "LOGIN", "CHG", "OUT", "WARN", "LINE"}

TypeOK ==
  /\ who \in SUBSET Slots /\ st \in [Slots -> States]
  /\ msg \in [Ids -> [kind : {"free", "msg", "toall", "notify", "warn", "expl"},
                      from : Slots, rcpt : SUBSET Slots, text : BOOLEAN,
                      ref : Nat]]
  /\ inc \in [Slots -> Ids \cup {None}]
  /\ queue \in [Slots -> Seq(Ids)] /\ \A u \in Slots : Len(queue[u]) <= Backlog
  /\ sending \in SUBSET who
  /\ ig \in [Slots -> SUBSET Slots] /\ ra \in SUBSET who /\ rn \in SUBSET who
  /\ warn \in Ids \cup {None} /\ turn \in 0 .. Size + 1
  /\ shown \in SUBSET who /\ dropped \in SUBSET who

\* The places in the queues that hold m
Places(queues, m) ==
  {p \in Slots \X (1 .. Backlog) :
     p[2] <= Len(queues[p[1]]) /\ queues[p[1]][p[2]] = m}

\* The count of a message is the number of places in queues, composers and
\* warnings that refer to it, and it is freed when there are none left; but every
\* text of EXPLAIN counts one more, a reference cmd_exp has forgotten and never
\* gives up, so that text is never freed.
RefCounts ==
  \A m \in Ids :
    LET held == Cardinality(Places(queue, m))
        built == Cardinality({u \in Slots : inc[u] = m})
        kept == (IF warn = m THEN 1 ELSE 0) + (IF msg[m].kind = "expl" THEN 1 ELSE 0)
    IN  /\ msg[m].ref = held + built + kept
        /\ msg[m].kind = "free" <=> msg[m].ref = 0

\* Composers and unfinished messages belong together: whoever composes has a
\* message of his own, which nobody receives yet, and nobody else has one.
ComposersHaveMessages ==
  \A u \in Slots :
    /\ inc[u] # None <=> st[u] = "BUILD"
    /\ inc[u] # None => /\ msg[inc[u]].from = u /\ msg[inc[u]].kind \in {"msg", "toall"}
                        /\ \A v \in Slots : InQueue(v, inc[u]) = 0

\* Nobody's message or notification waits for somebody who is out: only
\* warnings, which cannot be ignored.  (The notices of Notices, which are about
\* the user himself, wait for him as well.)
OutHearsWarningsOnly ==
  \A u \in who : st[u] = "OUT" =>
    \A i \in DOMAIN queue[u] : msg[queue[u][i]].kind = "warn"

\* Text goes out in one piece: a user with unsent output is doing nothing but
\* receiving, so it cannot end up between the prompts of another dialogue.
OutputUndisturbed == \A u \in sending : st[u] = "RECV"

\* A message that has just been posted to u comes from nobody u ignores, even
\* if u has only begun to ignore him while the message was composed.
IgnoredUnheard ==
  [][\A u \in who \cap who' : Len(queue'[u]) > Len(queue[u]) =>
       LET m == msg'[queue'[u][Len(queue'[u])]]
       IN  m.kind \in {"msg", "toall"} => m.from \notin ig[u]]_vars

\* The warning has been shown to every user, those who joined later among
\* them, or is on its way, or the user threw it away unread by going OUT, which
\* the code lets him do although con_warn says that system warnings cannot be
\* ignored.
WarningReaches ==
  warn # None => \A u \in who : \/ u \in shown \cup dropped
                                \/ InQueue(u, warn) > 0

\* An idle user with something queued starts to receive it, unless he goes
\* himself or becomes busy first.
IdleAreServed ==
  \A u \in Slots :
    u \in who /\ st[u] = "IDLE" /\ queue[u] # <<>> ~> st[u] # "IDLE" \/ u \notin who

=============================================================================
