----------------------------- MODULE Conference -----------------------------
(***************************************************************************)
(* Who is connected to a conference, and who is whose master.              *)
(*                                                                         *)
(* The server keeps an array of user slots (con.h, `who').  The first user *)
(* of a conference is its master; a master may promote users to            *)
(* submasters (MTY), demote them (NORMALIZE), pass users to them (GIVE),   *)
(* decide who receives the newcomers (GIVE ..;NEW) and disconnect users    *)
(* (KILL).  Every user record holds the slot number of its master, mstr;   *)
(* nothing but the code below keeps that number pointing at somebody.      *)
(*                                                                         *)
(* One process runs everything: con_run serves the slots in order, turn    *)
(* after turn, and what happens to an earlier slot of a pass is seen by    *)
(* the later ones.  `turn' is the loop index of con_run; the loops of KILL *)
(* and NORMALIZE over their argument, which change what they iterate over, *)
(* run one element per step, with nothing else enabled meanwhile.          *)
(***************************************************************************)
EXTENDS Integers, FiniteSets

CONSTANTS
  Size,        \* slots of the conference (con.size)
  MayPriv,     \* slots whose users know a password of the .priv file
  Commands,    \* the commands the users of this instance type
  LoopGives    \* bound: whether masters pass a submaster into his own
               \* subconference

CommandNames == {"bye", "tell", "kill", "killall", "mty", "norm", "give",
                 "givenew", "xyzzy", "xreset"}

ASSUME SizeAssumption == Size \in Nat \ {0}
ASSUME CommandAssumption == Commands \subseteq CommandNames
ASSUME LoopGivesAssumption == LoopGives \in BOOLEAN

Slots == 0 .. Size - 1

VARIABLES
  who,      \* slots whose pointer is not NULL
  mstr,     \* master of each user (0 in a free slot)
  master,   \* users with MASTER_FLG
  sub,      \* users with SUBMST_FLG
  priv,     \* users with PRVBIT_FLG
  login,    \* users who have not given a name yet (LOGIN_ST)
  num,      \* users connected, as the code counts them
  max,      \* most users ever connected, as the code counts them
  new,      \* master who receives new users
  newcon,   \* NEWCON_FLG: nobody has connected yet
  done,     \* the loop has been told to stop
  turn,     \* slot con_run is serving; Size at the end of a pass
  cyclic,   \* history: a submaster has been passed into his own subconference
  op,       \* command in the middle of its argument loop, or "none"
  todo,     \* arguments that loop has still to treat
  phase     \* "run", "ended", or "crashed" on a NULL dereference

vars == <<who, mstr, master, sub, priv, login, num, max, new, newcon, done,
          turn, cyclic, op, todo, phase>>

roles == <<master, sub, priv>>
counts == <<num, max>>
loop == <<done, turn, op, todo, phase>>

-----------------------------------------------------------------------------
Init ==
  /\ who = {} /\ mstr = [ix \in Slots |-> 0]
  /\ master = {} /\ sub = {} /\ priv = {} /\ login = {}
  /\ num = 0 /\ max = 0
  /\ new = 0 /\ newcon = TRUE
  /\ done = FALSE /\ turn = 0
  /\ cyclic = FALSE
  /\ op = "none" /\ todo = {}
  /\ phase = "run"

(***************************************************************************)
(* A definition whose name ends in Bug is its namesake with one plausible  *)
(* mistake.  No specification uses it: put in the namesake's place, it     *)
(* shows that a property can fail.                                         *)
(***************************************************************************)
Leads(u) == u \in master \cup sub

Members(k) == {ix \in who : mstr[ix] = k}

\* The bitmap con_normalize builds: the members of k, and bit 0 as well when
\* k receives the new users.
NormalMap(k) == Members(k) \cup {ix \in {0} : new = k}

\* What con_give_map does with a bitmap: bit 0 stands for the new users, every
\* other bit for the user of that slot.
GivenMstr(to, map) ==
  [ix \in Slots |-> IF ix \in map \ {0} THEN to ELSE mstr[ix]]
GivenNew(to, map) == IF 0 \in map THEN mstr[to] ELSE new

\* con_normalize(k) follows the pointer of k's master when it has anything to
\* transfer.
NormalizeFaults(k) == NormalMap(k) # {} /\ mstr[k] \notin who

ReturnedMembersOnlyBug(k) == IF k \in sub THEN Members(k) ELSE {}
ReturnedNewOnlyBug(k) == IF k \in sub THEN {ix \in {0} : new = k} ELSE {}

\* The users, and the "new users" bit, that leave k with k's command over them.
Returned(k) == IF k \in sub THEN NormalMap(k) ELSE {}

ExUserFaults(k) == k \in sub /\ NormalizeFaults(k)

ExUserKeepsSubBug(k) ==
  /\ mstr' = [GivenMstr(mstr[k], Returned(k)) EXCEPT ![k] = 0]
  /\ new' = GivenNew(mstr[k], Returned(k))
  /\ who' = who \ {k}
  /\ num' = num - 1
  /\ master' = master \ {k} /\ priv' = priv \ {k} /\ login' = login \ {k}
  /\ UNCHANGED <<sub, max, newcon, cyclic>>

ExUserToMasterBug(k) ==
  /\ mstr' = [GivenMstr(0, Returned(k)) EXCEPT ![k] = 0]
  /\ new' = GivenNew(mstr[k], Returned(k))
  /\ who' = who \ {k}
  /\ num' = num - 1
  /\ master' = master \ {k} /\ sub' = sub \ {k}
  /\ priv' = priv \ {k} /\ login' = login \ {k}
  /\ UNCHANGED <<max, newcon, cyclic>>

ExUser(k) ==
  /\ mstr' = [GivenMstr(mstr[k], Returned(k)) EXCEPT ![k] = 0]
  /\ new' = GivenNew(mstr[k], Returned(k))
  /\ who' = who \ {k}
  /\ master' = master \ {k}
  /\ sub' = sub \ {k}
  /\ priv' = priv \ {k}
  /\ login' = login \ {k}
  /\ num' = num - 1
  /\ UNCHANGED <<max, newcon, cyclic>>

Crash ==
  /\ phase' = "crashed"
  /\ UNCHANGED <<who, mstr, roles, login, counts, new, newcon, cyclic, done,
                 turn, op, todo>>

-----------------------------------------------------------------------------
\* con_run between two handlers
Looping == phase = "run" /\ op = "none"

\* The slot a new user takes
LastFreeBug(np) == np \in Slots \ who /\ \A ix \in Slots \ who : np >= ix
FirstFree(np) == np \in Slots \ who /\ \A ix \in Slots \ who : np <= ix

\* The NEWCON flag after a connexion
StillNewBug == newcon
StillNew == FALSE

\* con_newuser: select reported the listener readable.  The first free slot
\* is taken; with none free the caller is turned away.
Connect ==
  /\ Looping /\ turn = 0
  /\ \E np \in Slots :
       /\ FirstFree(np)
       /\ who' = who \cup {np}
       /\ login' = login \cup {np}
       /\ master' = IF newcon THEN master \cup {np} ELSE master
       /\ new' = IF newcon THEN np ELSE new
       /\ mstr' = [mstr EXCEPT ![np] = new']
  /\ newcon' = StillNew
  /\ num' = num + 1
  /\ max' = IF num' > max THEN num' ELSE max
  /\ UNCHANGED <<sub, priv, cyclic, loop>>

\* The loop index moves on: the slot is free, its user has nothing to say, or
\* the user's command changes nothing kept here.
Skip ==
  /\ Looping /\ turn < Size
  /\ turn' = turn + 1
  /\ UNCHANGED <<who, mstr, roles, login, counts, new, newcon, cyclic, done,
                 op, todo, phase>>

Serving(u) == Looping /\ turn = u /\ u \in who

\* Common to the handlers: serve the next slot, leave the argument loop alone.
Served == turn' = turn + 1 /\ UNCHANGED <<op, todo, phase>>

\* Disconnect u, or follow a NULL pointer on the way.
Leave(u) ==
  \/ ExUserFaults(u) /\ Crash
  \/ ~ExUserFaults(u) /\ ExUser(u) /\ Served /\ UNCHANGED done

HangUpUnnoticedBug(u) == Serving(u) /\ Leave(u)

\* user_poll reported the connexion of u dead.
HangUp(u) ==
  /\ Serving(u)
  /\ \/ ExUserFaults(u) /\ Crash
     \/ /\ ~ExUserFaults(u)
        /\ ExUser(u)
        /\ Served
        /\ done' = (done \/ u \in master)

\* con_login: u has given a name, and is told the name of his master.
Login(u) ==
  /\ Serving(u) /\ u \in login
  /\ \/ mstr[u] \notin who /\ Crash
     \/ /\ mstr[u] \in who
        /\ login' = login \ {u}
        /\ Served
        /\ UNCHANGED <<who, mstr, roles, counts, new, newcon, cyclic, done>>

Typing(u, cmd) == Serving(u) /\ u \notin login /\ cmd \in Commands

\* cmd_bye: the master ends the conference, anybody else leaves it.
Bye(u) ==
  /\ Typing(u, "bye")
  /\ IF u \in master
       THEN /\ done' = TRUE
            /\ Served
            /\ UNCHANGED <<who, mstr, roles, login, counts, new, newcon,
                           cyclic>>
       ELSE Leave(u)

\* cmd_tell with no argument asks u's master whether tell-alls are allowed.
TellAll(u) == Typing(u, "tell") /\ mstr[u] \notin who /\ Crash

\* cmd_mty: the arguments are promoted in order up to the first one who is
\* not u's own.
Mty(u, map) ==
  /\ Typing(u, "mty") /\ Leads(u)
  /\ map # {} /\ u \notin map
  /\ sub' = sub \cup {ix \in map : \A jx \in map : jx <= ix => mstr[jx] = u}
  /\ Served
  /\ UNCHANGED <<who, mstr, master, priv, login, counts, new, newcon, cyclic,
                 done>>

\* What no master means to do, and cmd_give does not refuse: pass a user to
\* himself, or to somebody who is below that user.  T is the part of the
\* conference below the users passed.
MakesLoop(to, map) ==
  ~ \E T \in SUBSET who :
      /\ map \subseteq T
      /\ to \notin T
      /\ \A ix \in who \ map : ix \in T <=> mstr[ix] \in T

\* cmd_give with a list of users
Give(u, to, map) ==
  /\ Typing(u, "give") /\ Leads(u)
  /\ Leads(to)
  /\ map # {} /\ \A ix \in map : ix # u /\ mstr[ix] = u
  /\ LoopGives \/ ~MakesLoop(to, map)
  /\ mstr' = GivenMstr(to, map)
  /\ new' = GivenNew(to, map)
  /\ cyclic' = (cyclic \/ MakesLoop(to, map))
  /\ Served
  /\ UNCHANGED <<who, roles, login, counts, newcon, done>>

\* cmd_give with NEW
GiveNew(u, to) ==
  /\ Typing(u, "givenew") /\ Leads(u)
  /\ Leads(to)
  /\ new = u
  /\ new' = to
  /\ Served
  /\ UNCHANGED <<who, mstr, roles, login, counts, newcon, cyclic, done>>

\* cmd_xyzzy and cmd_xreset
Xyzzy(u) ==
  /\ Typing(u, "xyzzy")
  /\ IF u \in priv THEN priv' = priv \ {u}
                   ELSE u \in MayPriv /\ priv' = priv \cup {u}
  /\ Served
  /\ UNCHANGED <<who, mstr, master, sub, login, counts, new, newcon, cyclic,
                 done>>

Xreset(u) ==
  /\ Typing(u, "xreset") /\ u \in priv
  /\ done' = TRUE
  /\ Served
  /\ UNCHANGED <<who, mstr, roles, login, counts, new, newcon, cyclic>>

-----------------------------------------------------------------------------
\* The commands that treat their arguments one after the other
BeginLoop(cmd, args) ==
  /\ op' = cmd /\ todo' = args
  /\ UNCHANGED <<who, mstr, roles, login, counts, new, newcon, cyclic, done,
                 turn, phase>>

Kill(u, map) ==
  /\ Typing(u, IF map = {} THEN "killall" ELSE "kill")
  /\ Leads(u) \/ u \in priv
  /\ u \notin map
  /\ BeginLoop(IF map = {} THEN "killall" ELSE "kill",
               ((IF map = {} THEN Slots ELSE map) \cap 0 .. max - 1) \ {u})

Norm(u, map) ==
  /\ Typing(u, "norm") /\ Leads(u)
  /\ u \notin map
  /\ BeginLoop("norm", IF map = {} THEN Members(u) \cap sub ELSE map)

First(ix) == ix \in todo /\ \A jx \in todo : ix <= jx

\* An argument that is not the issuer's to command stops the loop.
Refuse ==
  /\ op' = "none" /\ todo' = {} /\ turn' = turn + 1
  /\ UNCHANGED <<who, mstr, roles, login, counts, new, newcon, cyclic, done,
                 phase>>

KillOne(ix) ==
  /\ phase = "run" /\ op \in {"kill", "killall"} /\ First(ix)
  /\ \/ ix \notin who /\ Crash
     \/ /\ ix \in who /\ mstr[ix] # turn /\ turn \notin master \cup priv
        /\ Refuse
     \/ /\ ix \in who /\ (mstr[ix] = turn \/ turn \in master \cup priv)
        /\ \/ ExUserFaults(ix) /\ Crash
           \/ /\ ~ExUserFaults(ix)
              /\ ExUser(ix)
              /\ todo' = todo \ {ix}
              /\ UNCHANGED <<done, turn, op, phase>>

NormOne(ix) ==
  /\ phase = "run" /\ op = "norm" /\ First(ix)
  /\ \/ mstr[ix] # turn /\ Refuse
     \/ /\ mstr[ix] = turn
        /\ sub' = sub \ {ix}
        /\ mstr' = GivenMstr(turn, Returned(ix))
        /\ new' = GivenNew(turn, Returned(ix))
        /\ todo' = todo \ {ix}
        /\ UNCHANGED <<who, master, priv, login, counts, newcon, cyclic, done,
                       turn, op, phase>>

LoopDone == phase = "run" /\ op # "none" /\ todo = {} /\ Refuse

EndPassForgetsBug ==
  /\ Looping /\ turn = Size
  /\ turn' = 0
  /\ UNCHANGED <<who, mstr, roles, login, counts, new, newcon, cyclic, done,
                 op, todo, phase>>

\* The end of a pass of con_run: the clock has run out or an interrupt has
\* come, or some handler asked for the end.
EndPass ==
  /\ Looping /\ turn = Size
  /\ \/ ~done /\ turn' = 0 /\ phase' = phase
     \/ turn' = turn /\ phase' = "ended"
  /\ UNCHANGED <<who, mstr, roles, login, counts, new, newcon, cyclic, done,
                 op, todo>>

\* main, under -l: con_shutdown, con_reset, and con_init again
Restart ==
  /\ phase = "ended"
  /\ who' = {} /\ mstr' = [ix \in Slots |-> 0]
  /\ master' = {} /\ sub' = {} /\ priv' = {} /\ login' = {}
  /\ num' = 0 /\ max' = 0
  /\ new' = 0 /\ newcon' = TRUE
  /\ done' = FALSE /\ turn' = 0 /\ cyclic' = FALSE
  /\ op' = "none" /\ todo' = {}
  /\ phase' = "run"

Command(u) ==
  \/ Bye(u) \/ TellAll(u) \/ Xyzzy(u) \/ Xreset(u)
  \/ \E to \in who : GiveNew(u, to)
  \/ \E map \in SUBSET who :
       \/ Mty(u, map) \/ Kill(u, map) \/ Norm(u, map)
       \/ \E to \in who : Give(u, to, map)

Serve ==
  \/ Connect \/ Skip
  \/ \E u \in Slots : HangUp(u) \/ Login(u) \/ Command(u)
  \/ \E ix \in Slots : KillOne(ix) \/ NormOne(ix)
  \/ LoopDone \/ EndPass

Next == Serve \/ Restart

Spec == Init /\ [][Next]_vars

\* The process is never stopped between two steps of the loop, and a pass over
\* the slots does not wait for anybody.
FairSpec == Spec /\ WF_vars(Serve)

-----------------------------------------------------------------------------
TypeOK ==
  /\ who \in SUBSET Slots
  /\ mstr \in [Slots -> Slots]
  /\ master \in SUBSET who /\ sub \in SUBSET who
  /\ priv \in SUBSET who /\ login \in SUBSET who
  /\ num \in Nat /\ max \in Nat
  /\ new \in Slots /\ newcon \in BOOLEAN
  /\ done \in BOOLEAN /\ turn \in 0 .. Size
  /\ cyclic \in BOOLEAN
  /\ op \in {"none", "kill", "killall", "norm"} /\ todo \in SUBSET Slots
  /\ phase \in {"run", "ended", "crashed"}

\* The counters are right, and no user sits in a slot at or above max: cmd_kill
\* looks for its victims below cp->max and would miss such a user.
SlotsBelowMax ==
  /\ num = Cardinality(who)
  /\ who \subseteq 0 .. max - 1
  /\ max <= Size

\* There is one master at most, always #0 as the help texts say, under nobody
\* and never demoted to a submaster.
MasterIsZero ==
  /\ master \subseteq {0}
  /\ 0 \in master => mstr[0] = 0 /\ 0 \notin sub
  /\ newcon => who = {}

\* As long as the master is connected, everybody's master is connected and
\* holds a master's commands, nobody but #0 is his own, and new users go to
\* such a master too: whoever leaves, is killed, demoted or passed on.  A GIVE
\* that makes a submaster his own superior ends that for good.
NobodyOrphaned ==
  0 \in master /\ ~cyclic =>
    /\ \A u \in who : mstr[u] \in who /\ Leads(mstr[u])
    /\ \A u \in who \ {0} : mstr[u] # u
    /\ new \in who /\ Leads(new)

\* The chain of masters of every user ends at the master of the conference,
\* unless a GIVE has made a submaster his own superior.
Ancestor[n \in 0 .. Size] ==
  IF n = 0 THEN [u \in Slots |-> u]
           ELSE [u \in Slots |-> mstr[Ancestor[n - 1][u]]]

RootedAtMaster ==
  0 \in master /\ ~cyclic => \A u \in who : Ancestor[Size][u] = 0

\* A NULL user is dereferenced in three ways and in no other: the conference
\* has lost its master, a GIVE has made a submaster his own superior (cmd_give
\* does not look for that), or KILL without a list has come to a slot below max
\* whose user has left (cmd_kill does not look whether the slot is taken).
CrashHasItsCause ==
  [][phase' = "crashed" =>
       \/ 0 \notin master
       \/ cyclic
       \/ op = "killall" /\ \E ix \in todo \ who : First(ix)]_vars

\* The conference loses its master by an end of the loop, or because somebody
\* with privileges killed him: never by a submaster, and never unnoticed.
MasterLossEnds ==
  [][0 \in master /\ 0 \notin master' /\ phase = "run" =>
       done' \/ (op \in {"kill", "killall"} /\ turn \in priv)]_vars

\* A user changes masters by his master's own command, or because his master
\* has left or is demoted, and then he goes one level up and nowhere else.
OwnershipMoves ==
  [][\A u \in who \cap who' : mstr'[u] # mstr[u] =>
       \/ mstr[u] = turn /\ Leads(turn) /\ turn \in who'
       \/ mstr[u] \notin sub' /\ mstr'[u] = mstr[mstr[u]]]_vars

\* con_normalize is "transferring ownership of a normalized or disconnected
\* submaster's subconference users back to his or her superior", the new users
\* among them: whoever received them, his superior receives them next.
NewUsersReturn ==
  [][phase = "run" /\ new \in sub /\ new \notin sub' => new' = mstr[new]]_vars

\* "After the master has exited, or an interrupt is received, the conference
\* closes down, disconnecting all its users": it does not crash instead.
NeverCrashes == phase # "crashed"

\* Whatever makes the loop stop, the conference ends.
DoneEnds == done ~> phase # "run"

=============================================================================
