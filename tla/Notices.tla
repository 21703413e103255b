------------------------------- MODULE Notices -------------------------------
(***************************************************************************)
(* What the users of a conference are told about who commands whom.        *)
(*                                                                         *)
(* Conference says how masters and ranks change; here every change posts   *)
(* its notices ("You are talking with ...", "You are now a master", ...)   *)
(* to the queues of the users concerned, which are sent when their owners  *)
(* are idle, or thrown away by an OUT.  Each action is Conference's action *)
(* of the same name and what it tells.  The messages, warnings and help    *)
(* texts that share the queues are in Messaging; a queue keeps the order   *)
(* of the notices whatever stands between them.                            *)
(***************************************************************************)
EXTENDS Conference, Sequences

CONSTANT Backlog     \* bound: notices that wait for a user

ASSUME BacklogAssumption == Backlog \in Nat

VARIABLES
  queue,    \* notices waiting for each user
  out,      \* users in OUT_ST
  told,     \* history: the master named last to each user, in a notice he was
            \* sent or threw away
  ranked    \* history: users told last that they are masters

notices == <<queue, out, told, ranked>>
nvars == <<vars, notices>>

Kinds == {"talk", "passed", "master", "normal"}
Talk(k) == [kind |-> "talk", with |-> k]
Passed == [kind |-> "passed", with |-> 0]
Promoted == [kind |-> "master", with |-> 0]
Demoted == [kind |-> "normal", with |-> 0]

NoticesInit ==
  /\ Init
  /\ queue = [u \in Slots |-> <<>>]
  /\ told = [u \in Slots |-> 0]
  /\ out = {} /\ ranked = {}

-----------------------------------------------------------------------------
\* Definitions ending in Bug are their namesakes with one plausible mistake.

\* user_enqueue of one notice for everybody in users
Post(queues, users, notice) ==
  [u \in Slots |-> IF u \in users THEN Append(queues[u], notice) ELSE queues[u]]

\* What con_give_map posts: each user it moves is told his new master, and
\* the new master that somebody, or the new users, have been passed to him.
GivenFirstBug(queues, to, map) ==
  Post([u \in Slots |-> IF u \in map \ {0} THEN <<Talk(to)>> \o queues[u] ELSE queues[u]],
       {u \in {to} : map # {}}, Passed)

GivenSwappedBug(queues, to, map) ==
  Post(Post(queues, map \ {0}, Talk(to)), map \ {0}, Passed)

Given(queues, to, map) ==
  Post(Post(queues, map \ {0}, Talk(to)), {u \in {to} : map # {}}, Passed)

\* The bound on the queues
Fits == \A u \in Slots : Len(queue'[u]) <= Backlog

Quiet == UNCHANGED notices

PostOnly(queues) == queue' = queues /\ Fits /\ UNCHANGED <<out, told, ranked>>

\* con_exuser: the people of k hear of their new master, and what waited for k
\* is discarded.
DismissedOutBug(k) ==
  /\ queue' = [Given(queue, mstr[k], Returned(k)) EXCEPT ![k] = <<>>]
  /\ Fits
  /\ told' = [told EXCEPT ![k] = 0]
  /\ ranked' = ranked \ {k}
  /\ UNCHANGED out

Dismissed(k) ==
  /\ queue' = [Given(queue, mstr[k], Returned(k)) EXCEPT ![k] = <<>>]
  /\ Fits
  /\ told' = [told EXCEPT ![k] = 0]
  /\ out' = out \ {k} /\ ranked' = ranked \ {k}

\* The places of the notices of some kinds in the queue of u
Places(u, kinds) == {i \in DOMAIN queue[u] : queue[u][i].kind \in kinds}
LastPlace(i, places) == i \in places /\ \A j \in places : j <= i

\* The first n notices of u leave his queue.
Consume(u, n) ==
  LET named == Places(u, {"talk"}) \cap 1 .. n
      ranks == Places(u, {"master", "normal"}) \cap 1 .. n
  IN  /\ queue' = [queue EXCEPT ![u] = SubSeq(@, n + 1, Len(@))]
      /\ told' = [told EXCEPT ![u] =
           IF named = {} THEN @ ELSE queue[u][CHOOSE i \in named : LastPlace(i, named)].with]
      /\ ranked' = {v \in who :
           IF v # u \/ ranks = {} THEN v \in ranked
           ELSE queue[u][CHOOSE i \in ranks : LastPlace(i, ranks)].kind = "master"}

\* user_transmit, for an idle user
Show(u) ==
  /\ Looping /\ turn = 0
  /\ u \in who \ (login \cup out) /\ queue[u] # <<>>
  /\ Consume(u, 1)
  /\ UNCHANGED <<vars, out>>

\* cmd_out, and the line that brings a user back
Out(u) ==
  /\ u \notin login \cup out /\ Serving(u) /\ Skip
  /\ out' = out \cup {u}
  /\ Consume(u, Len(queue[u]))

Return(u) ==
  /\ u \in out /\ Serving(u) /\ Skip
  /\ out' = out \ {u}
  /\ UNCHANGED <<queue, told, ranked>>

\* The greeting at the end of con_login names the master at once, before what
\* already waits in the queue is sent.
NoticedLogin(u) ==
  /\ Login(u)
  /\ told' = IF phase' = "run" THEN [told EXCEPT ![u] = mstr[u]] ELSE told
  /\ UNCHANGED <<queue, out, ranked>>

NoticedHangUp(u) ==
  /\ HangUp(u)
  /\ IF u \in who' THEN Quiet ELSE Dismissed(u)

NoticedBye(u) ==
  /\ Bye(u)
  /\ IF u \in who' THEN Quiet ELSE Dismissed(u)

NoticedKillOne(ix) ==
  /\ KillOne(ix)
  /\ IF ix \in who \ who' THEN Dismissed(ix) ELSE Quiet

\* cmd_mty tells those it promotes, and not those who have been masters before.
NoticedMty(u, map) ==
  /\ Mty(u, map)
  /\ PostOnly(Post(queue, sub' \ sub, Promoted))

\* cmd_norm tells the submaster first and his people next.
NoticedNormOneEmptyBug(ix) ==
  /\ NormOne(ix)
  /\ IF mstr[ix] = turn /\ ix \in sub
       THEN PostOnly(Given(Post(queue, {v \in {ix} : Returned(ix) # {}}, Demoted),
                           turn, Returned(ix)))
       ELSE Quiet

NoticedNormOne(ix) ==
  /\ NormOne(ix)
  /\ IF mstr[ix] = turn /\ ix \in sub
       THEN PostOnly(Given(Post(queue, {ix}, Demoted), turn, Returned(ix)))
       ELSE Quiet

NoticedGive(u, to, map) == Give(u, to, map) /\ PostOnly(Given(queue, to, map))

NoticedGiveNew(u, to) == GiveNew(u, to) /\ PostOnly(Post(queue, {to}, Passed))

\* Users who are out type nothing but the line that brings them back.
NoticedCommand(u) ==
  /\ u \notin out
  /\ \/ NoticedBye(u)
     \/ (TellAll(u) \/ Xyzzy(u) \/ Xreset(u)) /\ Quiet
     \/ \E to \in who : NoticedGiveNew(u, to)
     \/ \E map \in SUBSET who :
          \/ NoticedMty(u, map)
          \/ (Kill(u, map) \/ Norm(u, map)) /\ Quiet
          \/ \E to \in who : NoticedGive(u, to, map)

NoticedServe ==
  \/ (Connect \/ Skip \/ LoopDone \/ EndPass) /\ Quiet
  \/ \E u \in Slots : \/ NoticedHangUp(u) \/ NoticedLogin(u) \/ NoticedCommand(u)
                      \/ Out(u) \/ Return(u) \/ Show(u)
  \/ \E ix \in Slots : NoticedKillOne(ix) \/ NoticedNormOne(ix)

NoticedRestart ==
  /\ Restart
  /\ queue' = [u \in Slots |-> <<>>]
  /\ told' = [u \in Slots |-> 0]
  /\ out' = {} /\ ranked' = {}

NoticesNext == NoticedServe \/ NoticedRestart

NoticesSpec == NoticesInit /\ [][NoticesNext]_nvars

-----------------------------------------------------------------------------
NoticesTypeOK ==
  /\ TypeOK
  /\ queue \in [Slots -> Seq([kind : Kinds, with : Slots])]
  /\ told \in [Slots -> Slots]
  /\ out \in SUBSET who /\ ranked \in SUBSET who

\* Every user is told who his master is: the last master named to him, or
\* about to be, is the one he has, however often he is passed on, returned by
\* a submaster who leaves, or moved before he has given his name.
ToldMaster ==
  \A u \in who :
    LET named == Places(u, {"talk"})
    IN  /\ \A i \in named : LastPlace(i, named) => queue[u][i].with = mstr[u]
        /\ named = {} /\ u \notin login => told[u] = mstr[u]

\* Every user is told his rank: the last notice about it, shown or waiting,
\* says that he is a master exactly if he is a submaster.
ToldRank ==
  \A u \in who :
    LET ranks == Places(u, {"master", "normal"})
    IN  /\ \A i \in ranks : LastPlace(i, ranks) =>
             (queue[u][i].kind = "master" <=> u \in sub)
        /\ ranks = {} => (u \in ranked <=> u \in sub)

\* Nobody hears that users have been passed to him before he has heard that he
\* is a master, or after he has heard that he is none any more, unless a GIVE
\* has made a submaster his own superior.
PassedToLeaders ==
  0 \in master /\ ~cyclic =>
    \A u \in who \ master : \A i \in Places(u, {"passed"}) :
      LET ranks == {j \in Places(u, {"master", "normal"}) : j < i}
      IN  /\ \A j \in ranks : LastPlace(j, ranks) => queue[u][j].kind = "master"
          /\ ranks = {} => u \in ranked

=============================================================================
