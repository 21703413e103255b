---------------------------- MODULE NoticesProofs ----------------------------
(***************************************************************************)
(* What the users of a conference of any size are told about who commands  *)
(* whom, with queues of any length.                                        *)
(***************************************************************************)
EXTENDS Notices, ConferenceProofs, SequenceTheorems

-----------------------------------------------------------------------------
(***************************************************************************)
(* Notices adds its queues to Conference: every step of it is a step of    *)
(* the conference or leaves the conference alone, so that what Conference  *)
(* keeps true holds here.                                                  *)
(***************************************************************************)
LEMMA ConferenceStep == [NoticesNext]_nvars => [Next]_vars
<1> SUFFICES ASSUME NoticesNext PROVE [Next]_vars
  BY DEF nvars
<1>1. CASE NoticedRestart
  BY <1>1 DEF NoticedRestart, Next
<1>2. CASE (Connect \/ Skip \/ LoopDone \/ EndPass) /\ Quiet
  BY <1>2 DEF Next, Serve
<1>3. ASSUME NEW u \in Slots, NoticedHangUp(u) \/ NoticedLogin(u)
      PROVE  Next
  BY <1>3 DEF NoticedHangUp, NoticedLogin, Next, Serve
<1>4. ASSUME NEW u \in Slots, NoticedCommand(u)
      PROVE  Next
  <2>1. Command(u)
    BY <1>4 DEF NoticedCommand, NoticedBye, NoticedGiveNew, NoticedMty, NoticedGive, Command
  <2> QED
    BY <2>1 DEF Next, Serve
<1>5. ASSUME NEW u \in Slots, Out(u) \/ Return(u) \/ Show(u)
      PROVE  Next \/ UNCHANGED vars
  BY <1>5 DEF Out, Return, Show, Next, Serve
<1>6. ASSUME NEW ix \in Slots, NoticedKillOne(ix) \/ NoticedNormOne(ix)
      PROVE  Next
  BY <1>6 DEF NoticedKillOne, NoticedNormOne, Next, Serve
<1> QED
  BY <1>1, <1>2, <1>3, <1>4, <1>5, <1>6 DEF NoticesNext, NoticedServe

\* The refinement: a conference whose users are told what happens is a
\* conference.
THEOREM NoticesRefineConference == NoticesSpec => Spec
<1>1. NoticesInit => Init
  BY DEF NoticesInit
<1> QED
  BY <1>1, ConferenceStep, PTL DEF NoticesSpec, Spec

\* Who issues a NORMALIZE is connected while its loop runs.
INorm == op = "norm" => turn \in who

LEMMA NormStep ==
  ASSUME INorm, [Next]_vars
  PROVE  INorm'
<1> USE DEF INorm
<1>1. CASE op' # "norm"
  BY <1>1
<1>2. CASE UNCHANGED <<op, who, turn>>
  BY <1>2
<1>3. CASE op # "norm" /\ UNCHANGED op
  BY <1>3
<1>4. ASSUME NEW u \in Slots, Command(u)
      PROVE  INorm'
  <2>1. CASE Bye(u) \/ TellAll(u) \/ Xyzzy(u) \/ Xreset(u)
    BY <1>2, <1>3, <2>1 DEF Bye, Leave, TellAll, Crash, Xyzzy, Xreset, Typing, Serving,
                            Looping, Served
  <2>2. CASE \E to \in who : GiveNew(u, to)
    BY <1>3, <2>2 DEF GiveNew, Typing, Serving, Looping, Served
  <2>3. ASSUME NEW map \in SUBSET who, Mty(u, map) \/ Kill(u, map)
        PROVE  INorm'
    BY <1>1, <1>3, <2>3 DEF Mty, Kill, BeginLoop, Typing, Serving, Looping, Served
  <2>4. ASSUME NEW map \in SUBSET who, Norm(u, map)
        PROVE  INorm'
    BY <2>4 DEF Norm, BeginLoop, Typing, Serving
  <2>5. ASSUME NEW map \in SUBSET who, NEW to \in who, Give(u, to, map)
        PROVE  INorm'
    BY <1>3, <2>5 DEF Give, Typing, Serving, Looping, Served
  <2> QED
    BY <1>4, <2>1, <2>2, <2>3, <2>4, <2>5 DEF Command
<1>5. ASSUME NEW u \in Slots, HangUp(u) \/ Login(u)
      PROVE  INorm'
  BY <1>2, <1>3, <1>5 DEF HangUp, Login, Crash, Serving, Looping, Served
<1>6. ASSUME NEW ix \in Slots, KillOne(ix)
      PROVE  INorm'
  BY <1>1, <1>2, <1>6 DEF KillOne, Crash, Refuse
<1>7. ASSUME NEW ix \in Slots, NormOne(ix)
      PROVE  INorm'
  BY <1>1, <1>2, <1>7 DEF NormOne, Refuse
<1>8. CASE Connect \/ Skip \/ LoopDone \/ EndPass \/ Restart \/ UNCHANGED vars
  BY <1>1, <1>2, <1>3, <1>8
     DEF Connect, Skip, Looping, LoopDone, Refuse, EndPass, Restart, loop, vars
<1> QED
  BY <1>4, <1>5, <1>6, <1>7, <1>8 DEF Next, Serve

-----------------------------------------------------------------------------
(***************************************************************************)
(* What a step does to the queues.  Each of the definitions below stands   *)
(* for the actions that have the same effect on the people and their       *)
(* queues; NoticesCases shows that there are no others.                    *)
(***************************************************************************)
people == <<who, mstr, master, sub, login>>

Unheard == UNCHANGED <<people, queue, told, ranked>> /\ out' \subseteq out

Arrived == Connect /\ Quiet

Named(u) ==
  /\ u \in who /\ login' = login \ {u} /\ told' = [told EXCEPT ![u] = mstr[u]]
  /\ UNCHANGED <<who, mstr, master, sub, queue, out, ranked>>

Departed(k) == k \in who /\ ~ExUserFaults(k) /\ ExUser(k) /\ Dismissed(k)

Raised(map) ==
  /\ map \subseteq who /\ sub' = sub \cup map
  /\ queue' = Post(queue, sub' \ sub, Promoted)
  /\ UNCHANGED <<who, mstr, master, login, out, told, ranked>>

Lowered(ix) ==
  /\ ix \in sub /\ mstr[ix] = turn /\ turn \in who
  /\ sub' = sub \ {ix} /\ mstr' = GivenMstr(turn, Returned(ix))
  /\ queue' = Given(Post(queue, {ix}, Demoted), turn, Returned(ix))
  /\ UNCHANGED <<who, master, login, out, told, ranked>>

HandedOn(to, map) ==
  /\ to \in who /\ Leads(to) /\ map \subseteq who
  /\ mstr' = GivenMstr(to, map) /\ queue' = Given(queue, to, map)
  /\ UNCHANGED <<who, master, sub, login, out, told, ranked>>

HandedNew(to) ==
  /\ to \in who /\ Leads(to) /\ queue' = Post(queue, {to}, Passed)
  /\ UNCHANGED <<people, out, told, ranked>>

Heard(u, n) ==
  /\ u \in who /\ n \in 0 .. Len(queue[u]) /\ Consume(u, n)
  /\ out' \subseteq who
  /\ UNCHANGED people

NoticesTypes ==
  /\ queue \in [Slots -> Seq([kind : Kinds, with : Slots])]
  /\ told \in [Slots -> Slots]
  /\ out \in SUBSET who /\ ranked \in SUBSET who

INotices ==
  /\ NoticesTypes
  /\ \A u \in Slots \ who : queue[u] = <<>>

Effect ==
  \/ Unheard \/ Arrived \/ NoticedRestart
  \/ \E u \in Slots : \/ Named(u) \/ Departed(u) \/ Lowered(u) \/ HandedNew(u)
                      \/ \E n \in Nat : Heard(u, n)
                      \/ \E map \in SUBSET who : HandedOn(u, map)
  \/ \E map \in SUBSET who : Raised(map)

LEMMA NoticesCases ==
  ASSUME IType, INorm, NoticesTypes, NoticesNext
  PROVE  Effect
<1> USE DEF IType
<1>1. CASE NoticedRestart \/ (Connect /\ Quiet)
  BY <1>1 DEF Effect, Arrived
<1>2. CASE (Skip \/ LoopDone \/ EndPass) /\ Quiet
  <2>1. Unheard
    BY <1>2 DEF Skip, LoopDone, Refuse, EndPass, Quiet, notices, Unheard, people, roles
  <2> QED
    BY <2>1 DEF Effect
<1>3. ASSUME NEW u \in Slots, NoticedHangUp(u) \/ NoticedBye(u)
      PROVE  Effect
  <2>1. u \in who
    BY <1>3 DEF NoticedHangUp, HangUp, NoticedBye, Bye, Typing, Serving
  <2>2. CASE u \in who'
    <3>1. Quiet /\ UNCHANGED people
      BY <1>3, <2>2 DEF NoticedHangUp, HangUp, NoticedBye, Bye, Leave, Crash, ExUser,
                        people, roles
    <3> QED
      BY <3>1 DEF Effect, Unheard, Quiet, notices
  <2>3. CASE u \notin who'
    <3>1. Departed(u)
      BY <1>3, <2>1, <2>3 DEF NoticedHangUp, HangUp, NoticedBye, Bye, Leave, Crash, Departed
    <3> QED
      BY <3>1 DEF Effect
  <2> QED
    BY <2>2, <2>3
<1>4. ASSUME NEW u \in Slots, NoticedLogin(u)
      PROVE  Effect
  <2>1. CASE phase' = "run"
    <3>1. Named(u)
      BY <1>4, <2>1 DEF NoticedLogin, Login, Crash, Serving, Named, roles
    <3> QED
      BY <3>1 DEF Effect
  <2>2. CASE phase' # "run"
    <3>1. Unheard
      BY <1>4, <2>2 DEF NoticedLogin, Login, Crash, Serving, Looping, Served, Unheard,
                        people, roles
    <3> QED
      BY <3>1 DEF Effect
  <2> QED
    BY <2>1, <2>2
<1>5. ASSUME NEW u \in Slots, (TellAll(u) \/ Xyzzy(u) \/ Xreset(u)) /\ Quiet
      PROVE  Effect
  <2>1. Unheard
    BY <1>5 DEF TellAll, Crash, Xyzzy, Xreset, Quiet, notices, Unheard, people, roles
  <2> QED
    BY <2>1 DEF Effect
<1>6. ASSUME NEW u \in Slots, NEW to \in who, NoticedGiveNew(u, to)
      PROVE  Effect
  <2>1. to \in Slots /\ HandedNew(to)
    BY <1>6 DEF NoticedGiveNew, GiveNew, PostOnly, HandedNew, people, roles, UsersOK
  <2> QED
    BY <2>1 DEF Effect
<1>7. ASSUME NEW u \in Slots, NEW map \in SUBSET who, (Kill(u, map) \/ Norm(u, map)) /\ Quiet
      PROVE  Effect
  <2>1. Unheard
    BY <1>7 DEF Kill, Norm, BeginLoop, Quiet, notices, Unheard, people, roles
  <2> QED
    BY <2>1 DEF Effect
<1>8. ASSUME NEW u \in Slots, NEW map \in SUBSET who, NoticedMty(u, map)
      PROVE  Effect
  <2> DEFINE up == {ix \in map : \A jx \in map : jx <= ix => mstr[jx] = u}
  <2>1. up \in SUBSET who /\ Raised(up)
    BY <1>8 DEF NoticedMty, Mty, PostOnly, Raised
  <2> HIDE DEF up
  <2> QED
    BY <2>1 DEF Effect
<1>9. ASSUME NEW u \in Slots, NEW map \in SUBSET who, NEW to \in who, NoticedGive(u, to, map)
      PROVE  Effect
  <2>1. to \in Slots /\ HandedOn(to, map)
    BY <1>9 DEF NoticedGive, Give, PostOnly, HandedOn, roles, UsersOK
  <2> QED
    BY <2>1 DEF Effect
<1>10. ASSUME NEW u \in Slots, Out(u) \/ Return(u) \/ Show(u)
       PROVE  Effect
  <2>1. u \in who /\ queue[u] \in Seq([kind : Kinds, with : Slots]) /\ Len(queue[u]) \in Nat
    <3>1. u \in who
      BY <1>10 DEF Out, Return, Show, Serving
    <3>2. queue[u] \in Seq([kind : Kinds, with : Slots])
      BY DEF NoticesTypes
    <3> QED
      BY <3>1, <3>2, LenProperties
  <2>2. UNCHANGED people
    BY <1>10 DEF Out, Return, Show, Skip, vars, people, roles
  <2>3. CASE Out(u)
    <3>1. Heard(u, Len(queue[u]))
      BY <2>1, <2>2, <2>3 DEF Out, Heard, NoticesTypes
    <3> QED
      BY <2>1, <3>1 DEF Effect
  <2>4. CASE Return(u)
    BY <2>2, <2>4 DEF Return, Unheard, Effect
  <2>5. CASE Show(u)
    <3>1. 1 \in 0 .. Len(queue[u])
      BY <2>1, <2>5 DEF Show
    <3>2. Heard(u, 1)
      BY <2>1, <2>2, <2>5, <3>1 DEF Show, Heard, NoticesTypes
    <3> QED
      BY <3>2 DEF Effect
  <2> QED
    BY <1>10, <2>3, <2>4, <2>5
<1>11. ASSUME NEW ix \in Slots, NoticedKillOne(ix)
       PROVE  Effect
  <2>1. CASE ix \in who \ who'
    <3>1. Departed(ix)
      BY <1>11, <2>1 DEF NoticedKillOne, KillOne, Crash, Refuse, Departed
    <3> QED
      BY <3>1 DEF Effect
  <2>2. CASE ix \notin who \ who'
    <3>1. Unheard
      BY <1>11, <2>2 DEF NoticedKillOne, KillOne, Crash, Refuse, ExUser, Unheard, Quiet,
                         notices, people, roles
    <3> QED
      BY <3>1 DEF Effect
  <2> QED
    BY <2>1, <2>2
<1>12. ASSUME NEW ix \in Slots, NoticedNormOne(ix)
       PROVE  Effect
  <2>1. CASE mstr[ix] = turn /\ ix \in sub
    <3>1. turn \in who
      BY <1>12 DEF NoticedNormOne, NormOne, INorm
    <3>2. Lowered(ix)
      BY <1>12, <2>1, <3>1 DEF NoticedNormOne, NormOne, Refuse, PostOnly, Lowered, UsersOK
    <3> QED
      BY <3>2 DEF Effect
  <2>2. CASE ~(mstr[ix] = turn /\ ix \in sub)
    <3>1. Quiet /\ UNCHANGED <<who, master, login>> /\ (sub' = sub \/ sub' = sub \ {ix})
      BY <1>12, <2>2 DEF NoticedNormOne, NormOne, Refuse, roles
    <3>2. sub' = sub
      BY <1>12, <2>2, <3>1 DEF NoticedNormOne, NormOne, Refuse, roles
    <3>3. mstr' = mstr
      <4>1. mstr \in [Slots -> Slots]
        BY DEF UsersOK
      <4>2. CASE mstr[ix] # turn
        BY <1>12, <4>2 DEF NoticedNormOne, NormOne, Refuse
      <4>3. CASE mstr[ix] = turn
        <5>1. Returned(ix) = {}
          BY <2>2, <4>3 DEF Returned
        <5>2. mstr' = GivenMstr(turn, {})
          BY <1>12, <4>3, <5>1 DEF NoticedNormOne, NormOne
        <5> QED
          BY <4>1, <5>2 DEF GivenMstr
      <4> QED
        BY <4>2, <4>3
    <3> QED
      BY <3>1, <3>2, <3>3 DEF Effect, Unheard, Quiet, notices, people
  <2> QED
    BY <2>1, <2>2
<1>13. ASSUME NEW u \in Slots, NoticedCommand(u)
       PROVE  Effect
  BY <1>3, <1>5, <1>6, <1>7, <1>8, <1>9, <1>13 DEF NoticedCommand
<1>14. CASE NoticedServe
  <2>1. CASE (Connect \/ Skip \/ LoopDone \/ EndPass) /\ Quiet
    BY <1>1, <1>2, <2>1
  <2>2. CASE \E u \in Slots : \/ NoticedHangUp(u) \/ NoticedLogin(u) \/ NoticedCommand(u)
                             \/ Out(u) \/ Return(u) \/ Show(u)
    BY <1>3, <1>4, <1>10, <1>13, <2>2
  <2>3. CASE \E ix \in Slots : NoticedKillOne(ix) \/ NoticedNormOne(ix)
    BY <1>11, <1>12, <2>3
  <2> QED
    BY <1>14, <2>1, <2>2, <2>3 DEF NoticedServe
<1> QED
  BY <1>1, <1>14 DEF NoticesNext

-----------------------------------------------------------------------------
(***************************************************************************)
(* The last notice of some kinds in a queue: as a set, empty if there is   *)
(* none.                                                                   *)
(***************************************************************************)
Notice == [kind : Kinds, with : Slots]

Spots(q, kinds) == {i \in DOMAIN q : q[i].kind \in kinds}

Final(q, kinds) ==
  {q[i] : i \in {j \in Spots(q, kinds) : LastPlace(j, Spots(q, kinds))}}

LEMMA Greatest ==
  ASSUME NEW n \in Nat, NEW S \in SUBSET (1 .. n), S # {}
  PROVE  \E i \in S : LastPlace(i, S)
<1> DEFINE Below == {k \in 0 .. n : n - k \in S}
<1>1. Below \in SUBSET Nat /\ Below # {}
  <2>1. \A k \in 0 .. n : k \in Nat
    OBVIOUS
  <2> PICK i \in S : TRUE
    OBVIOUS
  <2>2. n - i \in 0 .. n /\ n - (n - i) = i
    OBVIOUS
  <2>3. n - i \in Below
    BY <2>2
  <2> QED
    BY <2>1, <2>3
<1>2. PICK k \in Below : \A j \in Below : k <= j
  <2> HIDE DEF Below
  <2> QED
    BY <1>1, LeastNumber
<1>3. ASSUME NEW i \in S
      PROVE  i <= n - k
  <2>1. n - i \in 0 .. n /\ n - (n - i) = i
    OBVIOUS
  <2>2. n - i \in Below
    BY <2>1
  <2>3. k <= n - i
    <3> HIDE DEF Below
    <3> QED
      BY <1>2, <2>2
  <2>4. k \in 0 .. n
    BY <1>2
  <2> QED
    BY <2>3, <2>4
<1> QED
  BY <1>2, <1>3 DEF LastPlace

LEMMA OneLastPlace ==
  ASSUME NEW n \in Nat, NEW S \in SUBSET (1 .. n),
         NEW i, NEW j, LastPlace(i, S), LastPlace(j, S)
  PROVE  i = j
  BY DEF LastPlace

LEMMA SpotsBound ==
  ASSUME NEW q \in Seq(Notice), NEW kinds
  PROVE  Len(q) \in Nat /\ DOMAIN q = 1 .. Len(q) /\ Spots(q, kinds) \in SUBSET (1 .. Len(q))
  BY LenProperties DEF Spots

LEMMA FinalNone ==
  ASSUME NEW q \in Seq(Notice), NEW kinds
  PROVE  Final(q, kinds) = {} <=> Spots(q, kinds) = {}
  BY SpotsBound, Greatest DEF Final

LEMMA SpotsAppend ==
  ASSUME NEW q \in Seq(Notice), NEW x \in Notice, NEW kinds
  PROVE  Spots(Append(q, x), kinds)
           = Spots(q, kinds) \cup (IF x.kind \in kinds THEN {Len(q) + 1} ELSE {})
<1> DEFINE r == Append(q, x)
<1>1. /\ r \in Seq(Notice) /\ Len(q) \in Nat
      /\ DOMAIN q = 1 .. Len(q) /\ DOMAIN r = 1 .. Len(q) + 1
      /\ \A i \in 1 .. Len(q) : r[i] = q[i]
      /\ r[Len(q) + 1] = x
  BY AppendProperties, LenProperties
<1>2. DOMAIN r = DOMAIN q \cup {Len(q) + 1} /\ Len(q) + 1 \notin DOMAIN q
  BY <1>1
<1> HIDE DEF r
<1>3. \A i \in DOMAIN q : r[i] = q[i]
  BY <1>1
<1>4. Spots(r, kinds) = Spots(q, kinds) \cup (IF x.kind \in kinds THEN {Len(q) + 1} ELSE {})
  BY <1>1, <1>2, <1>3 DEF Spots
<1> QED
  BY <1>4 DEF r

\* A notice that is posted is the last of its kind, and changes nothing about
\* the other kinds.
LEMMA FinalAppend ==
  ASSUME NEW q \in Seq(Notice), NEW x \in Notice, NEW kinds
  PROVE  Final(Append(q, x), kinds) = IF x.kind \in kinds THEN {x} ELSE Final(q, kinds)
<1> DEFINE r == Append(q, x)
           R == Spots(r, kinds)
           Q == Spots(q, kinds)
<1>1. /\ Len(q) \in Nat /\ Q \in SUBSET (1 .. Len(q))
      /\ R = Q \cup (IF x.kind \in kinds THEN {Len(q) + 1} ELSE {})
      /\ \A i \in 1 .. Len(q) : r[i] = q[i]
      /\ r[Len(q) + 1] = x
  BY AppendProperties, LenProperties, SpotsBound, SpotsAppend
<1> HIDE DEF r, R, Q
<1>2. CASE x.kind \in kinds
  <2>1. R = Q \cup {Len(q) + 1}
    BY <1>1, <1>2
  <2>2. \A j \in Q : j < Len(q) + 1
    BY <1>1
  <2>3. LastPlace(Len(q) + 1, R) /\ \A j \in Q : ~ LastPlace(j, R)
    <3>1. Len(q) + 1 \in R /\ Len(q) + 1 <= Len(q) + 1
      BY <1>1, <2>1
    <3>2. \A j \in Q : ~ (Len(q) + 1 <= j)
      BY <1>1, <2>2
    <3> QED
      BY <2>1, <2>2, <3>1, <3>2, <1>1 DEF LastPlace
  <2>4. {j \in R : LastPlace(j, R)} = {Len(q) + 1}
    BY <2>1, <2>3
  <2>5. Final(r, kinds) = {r[i] : i \in {Len(q) + 1}}
    BY <2>4 DEF Final, R
  <2> QED
    BY <1>1, <1>2, <2>5 DEF r
<1>3. CASE x.kind \notin kinds
  <2>1. R = Q
    BY <1>1, <1>3
  <2>2. Final(r, kinds) = {r[i] : i \in {j \in Q : LastPlace(j, Q)}}
    BY <2>1 DEF Final, R
  <2>3. Final(q, kinds) = {q[i] : i \in {j \in Q : LastPlace(j, Q)}}
    BY DEF Final, Q
  <2>4. Final(r, kinds) = Final(q, kinds)
    BY <1>1, <2>2, <2>3
  <2> QED
    BY <1>3, <2>4 DEF r
<1> QED
  BY <1>2, <1>3

\* What stays in a queue when its first n notices have left it.
LEMMA SpotsRest ==
  ASSUME NEW q \in Seq(Notice), NEW n \in 0 .. Len(q), NEW kinds
  PROVE  /\ SubSeq(q, n + 1, Len(q)) \in Seq(Notice)
         /\ \A i \in 1 .. Len(q) - n : SubSeq(q, n + 1, Len(q))[i] = q[n + i]
         /\ \A i \in Nat : i \in Spots(SubSeq(q, n + 1, Len(q)), kinds)
                             <=> i > 0 /\ n + i \in Spots(q, kinds)
<1> DEFINE r == SubSeq(q, n + 1, Len(q))
<1>1. Len(q) \in Nat /\ n \in Nat /\ n <= Len(q) /\ DOMAIN q = 1 .. Len(q)
  BY LenProperties
<1>2. \A i \in n + 1 .. Len(q) : q[i] \in Notice
  <2> TAKE i \in n + 1 .. Len(q)
  <2>1. i \in 1 .. Len(q)
    BY <1>1
  <2> QED
    BY <2>1, ElementOfSeq
<1>3. /\ r \in Seq(Notice)
      /\ Len(r) = IF n + 1 <= Len(q) THEN Len(q) - (n + 1) + 1 ELSE 0
      /\ \A i \in 1 .. Len(q) - (n + 1) + 1 : r[i] = q[n + 1 + i - 1]
  <2>1. n + 1 \in Int /\ Len(q) \in Int
    BY <1>1
  <2> QED
    BY <1>2, <2>1, SubSeqProperties
<1>4. Len(r) = Len(q) - n
  <2> HIDE DEF r
  <2>1. CASE n + 1 <= Len(q)
    BY <1>1, <1>3, <2>1
  <2>2. CASE ~ (n + 1 <= Len(q))
    <3>1. n = Len(q)
      <4>1. \A a, b \in Nat : a <= b /\ ~ (a + 1 <= b) => a = b
        OBVIOUS
      <4> QED
        BY <1>1, <2>2, <4>1, Zenon
    <3>2. Len(r) = 0
      BY <1>3, <2>2
    <3> QED
      BY <1>1, <3>1, <3>2
  <2> QED
    BY <2>1, <2>2
<1>5. \A i \in 1 .. Len(q) - n : r[i] = q[n + i]
  <2> TAKE i \in 1 .. Len(q) - n
  <2>1. Len(q) - (n + 1) + 1 = Len(q) - n /\ n + 1 + i - 1 = n + i
    BY <1>1
  <2> QED
    BY <1>3, <2>1
<1> HIDE DEF r
<1>6. ASSUME NEW i \in Nat
      PROVE  i \in Spots(r, kinds) <=> i > 0 /\ n + i \in Spots(q, kinds)
  <2>1. DOMAIN r = 1 .. Len(q) - n
    BY <1>3, <1>4, LenProperties
  <2>2. i \in DOMAIN r <=> i > 0 /\ n + i \in DOMAIN q
    BY <1>1, <2>1
  <2>3. i \in DOMAIN r => r[i] = q[n + i]
    BY <1>5, <2>1
  <2> QED
    BY <2>2, <2>3 DEF Spots
<1> QED
  BY <1>3, <1>5, <1>6 DEF r

LastOf(S) == CHOOSE i \in S : LastPlace(i, S)

RestFinals(q, n, kinds) ==
  LET rest == Final(SubSeq(q, n + 1, Len(q)), kinds)
      gone == Spots(q, kinds) \cap 1 .. n
  IN  /\ rest # {} => rest = Final(q, kinds)
      /\ rest = {} /\ gone = {} => Final(q, kinds) = {}
      /\ gone # {} => LastPlace(LastOf(gone), gone)
      /\ rest = {} /\ gone # {} => Final(q, kinds) = {q[LastOf(gone)]}

LEMMA FinalRest ==
  ASSUME NEW q \in Seq(Notice), NEW n \in 0 .. Len(q), NEW kinds
  PROVE  RestFinals(q, n, kinds)
<1> DEFINE r == SubSeq(q, n + 1, Len(q))
           Q == Spots(q, kinds)
           R == Spots(r, kinds)
           gone == Q \cap 1 .. n
           c == LastOf(gone)
<1>1. /\ Len(q) \in Nat /\ n \in Nat /\ n <= Len(q)
      /\ Q \in SUBSET (1 .. Len(q)) /\ R \in SUBSET Nat /\ r \in Seq(Notice)
      /\ \A i \in 1 .. Len(q) - n : r[i] = q[n + i]
      /\ \A i \in Nat : i \in R <=> i > 0 /\ n + i \in Q
  <2>1. r \in Seq(Notice)
    BY SpotsRest
  <2>2. Len(r) \in Nat /\ R \in SUBSET (1 .. Len(r))
    BY <2>1, SpotsBound
  <2>3. R \in SUBSET Nat
    BY <2>2
  <2>4. Len(q) \in Nat /\ Q \in SUBSET (1 .. Len(q))
    BY SpotsBound
  <2> QED
    BY <2>1, <2>3, <2>4, SpotsRest
<1> HIDE DEF r, Q, R
<1>2. R # {} => Final(r, kinds) = Final(q, kinds)
  <2> SUFFICES ASSUME R # {} PROVE Final(r, kinds) = Final(q, kinds)
    OBVIOUS
  <2> PICK m \in R : TRUE
    OBVIOUS
  <2>1. m > 0 /\ n + m \in Q /\ m \in Nat
    BY <1>1
  <2>2. ASSUME NEW i \in R, LastPlace(i, R)
        PROVE  LastPlace(n + i, Q) /\ r[i] = q[n + i]
    <3>1. i \in Nat /\ i > 0 /\ n + i \in Q /\ n + i <= Len(q)
      BY <1>1
    <3>2. ASSUME NEW j \in Q
          PROVE  j <= n + i
      <4>1. j \in Nat
        BY <1>1
      <4>2. CASE j <= n
        BY <1>1, <3>1, <4>1, <4>2
      <4>3. CASE j > n
        <5>1. j - n \in Nat /\ j - n > 0 /\ n + (j - n) = j
          BY <1>1, <4>1, <4>3
        <5>2. j - n \in R
          BY <1>1, <5>1
        <5>3. j - n <= i
          BY <2>2, <5>2 DEF LastPlace
        <5> QED
          BY <1>1, <3>1, <4>1, <5>3
      <4> QED
        BY <1>1, <4>1, <4>2, <4>3
    <3>3. i \in 1 .. Len(q) - n
      BY <1>1, <3>1
    <3> QED
      BY <1>1, <3>1, <3>2, <3>3 DEF LastPlace
  <2>3. ASSUME NEW j \in Q, LastPlace(j, Q)
        PROVE  \E i \in R : LastPlace(i, R) /\ j = n + i
    <3>1. j \in Nat /\ n + m <= j
      BY <1>1, <2>1, <2>3 DEF LastPlace
    <3>2. j - n \in Nat /\ j - n > 0 /\ n + (j - n) = j
      BY <1>1, <2>1, <3>1
    <3>3. j - n \in R
      BY <1>1, <3>2
    <3>4. ASSUME NEW i \in R
          PROVE  i <= j - n
      <4>1. i \in Nat /\ n + i \in Q
        BY <1>1
      <4>2. n + i <= j
        BY <2>3, <4>1 DEF LastPlace
      <4> QED
        BY <1>1, <3>1, <4>1, <4>2
    <3> QED
      BY <3>2, <3>3, <3>4 DEF LastPlace
  <2>4. Final(r, kinds) \subseteq Final(q, kinds)
    BY <2>2 DEF Final, R, Q, LastPlace
  <2>5. Final(q, kinds) \subseteq Final(r, kinds)
    <3> SUFFICES ASSUME NEW j \in Q, LastPlace(j, Q) PROVE q[j] \in Final(r, kinds)
      BY DEF Final, Q
    <3> PICK i \in R : LastPlace(i, R) /\ j = n + i
      BY <2>3
    <3> QED
      BY <2>2 DEF Final, R
  <2> QED
    BY <2>4, <2>5
<1>3. R = {} => Q \subseteq 1 .. n
  <2> SUFFICES ASSUME R = {}, NEW j \in Q PROVE j <= n /\ j \in Nat /\ j > 0
    OBVIOUS
  <2>1. j \in Nat /\ j > 0
    BY <1>1
  <2>2. CASE j > n
    <3>1. j - n \in Nat /\ j - n > 0 /\ n + (j - n) = j
      BY <1>1, <2>1, <2>2
    <3> QED
      BY <1>1, <3>1
  <2> QED
    BY <1>1, <2>1, <2>2
<1>4. gone # {} => LastPlace(c, gone)
  <2> SUFFICES ASSUME gone # {} PROVE LastPlace(c, gone)
    OBVIOUS
  <2>1. gone \in SUBSET (1 .. n)
    OBVIOUS
  <2> HIDE DEF gone
  <2>2. \E i \in gone : LastPlace(i, gone)
    BY <1>1, <2>1, Greatest
  <2> QED
    BY <2>2 DEF LastOf
<1>5. ASSUME R = {}
      PROVE  gone = Q
  BY <1>3, <1>5
<1>6. ASSUME R = {}, Q # {}
      PROVE  Final(q, kinds) = {q[c]}
  <2>1. LastPlace(c, Q)
    BY <1>4, <1>5, <1>6
  <2> HIDE DEF c
  <2>2. \A j : LastPlace(j, Q) => j = c
    BY <1>1, <2>1, OneLastPlace
  <2>3. c \in Q
    BY <2>1 DEF LastPlace
  <2>4. {j \in Q : LastPlace(j, Q)} = {c}
    BY <2>1, <2>2, <2>3
  <2> QED
    BY <2>4 DEF Final, Q
<1>7. /\ Final(r, kinds) = {} <=> R = {}
      /\ Final(q, kinds) = {} <=> Q = {}
  BY <1>1, FinalNone DEF R, Q
<1>8. /\ Final(r, kinds) # {} => Final(r, kinds) = Final(q, kinds)
      /\ Final(r, kinds) = {} /\ gone = {} => Final(q, kinds) = {}
      /\ gone # {} => LastPlace(c, gone)
      /\ Final(r, kinds) = {} /\ gone # {} => Final(q, kinds) = {q[c]}
  BY <1>2, <1>4, <1>5, <1>6, <1>7
<1> QED
  BY <1>8 DEF RestFinals, r, Q

-----------------------------------------------------------------------------
(***************************************************************************)
(* What the steps do to one user's queue, and the type of the queues.      *)
(***************************************************************************)
Queues == [Slots -> Seq(Notice)]
Talks == {"talk"}
Ranking == {"master", "normal"}

LEMMA NoticeTypes ==
  /\ Passed \in Notice /\ Promoted \in Notice /\ Demoted \in Notice
  /\ \A k \in Slots : Talk(k) \in Notice
  BY SlotFacts DEF Notice, Kinds, Passed, Promoted, Demoted, Talk

LEMMA PostEffect ==
  ASSUME NEW queues \in Queues, NEW some, NEW x \in Notice
  PROVE  /\ Post(queues, some, x) \in Queues
         /\ \A u \in Slots : Post(queues, some, x)[u] =
              IF u \in some THEN Append(queues[u], x) ELSE queues[u]
<1>1. \A u \in Slots : queues[u] \in Seq(Notice) /\ Append(queues[u], x) \in Seq(Notice)
  BY AppendProperties DEF Queues
<1> QED
  BY <1>1 DEF Post, Queues

LEMMA PostSays ==
  ASSUME NEW queues \in Queues, NEW some, NEW x \in Notice, NEW kinds, NEW u \in Slots,
         u \in some, x.kind \in kinds
  PROVE  Final(Post(queues, some, x)[u], kinds) = {x}
<1>1. queues[u] \in Seq(Notice) /\ Post(queues, some, x)[u] = Append(queues[u], x)
  BY PostEffect DEF Queues
<1> QED
  BY <1>1, FinalAppend

LEMMA PostKeeps ==
  ASSUME NEW queues \in Queues, NEW some, NEW x \in Notice, NEW kinds, NEW u \in Slots,
         u \notin some \/ x.kind \notin kinds
  PROVE  Final(Post(queues, some, x)[u], kinds) = Final(queues[u], kinds)
<1>1. queues[u] \in Seq(Notice)
  BY DEF Queues
<1>2. CASE u \in some
  <2>1. Post(queues, some, x)[u] = Append(queues[u], x)
    BY <1>2, PostEffect
  <2> QED
    BY <1>1, <1>2, <2>1, FinalAppend
<1>3. CASE u \notin some
  BY <1>3, PostEffect
<1> QED
  BY <1>2, <1>3

LEMMA GivenElsewhere ==
  ASSUME NEW queues \in Queues, NEW to \in Slots, NEW map,
         NEW u \in Slots, u \notin map \ {0}, u = to => map = {}
  PROVE  Given(queues, to, map)[u] = queues[u]
<1> DEFINE first == Post(queues, map \ {0}, Talk(to))
<1>1. u \notin {v \in {to} : map # {}}
  OBVIOUS
<1>2. first \in Queues /\ first[u] = queues[u]
  BY PostEffect, NoticeTypes
<1>3. Given(queues, to, map) = Post(first, {v \in {to} : map # {}}, Passed)
  BY DEF Given
<1> HIDE DEF first
<1> QED
  BY <1>1, <1>2, <1>3, PostEffect, NoticeTypes

LEMMA GivenQueues ==
  ASSUME NEW queues \in Queues, NEW to \in Slots, NEW map
  PROVE  Given(queues, to, map) \in Queues
<1> DEFINE first == Post(queues, map \ {0}, Talk(to))
<1>1. first \in Queues
  BY PostEffect, NoticeTypes
<1> HIDE DEF first
<1>2. Post(first, {u \in {to} : map # {}}, Passed) \in Queues
  BY <1>1, PostEffect, NoticeTypes
<1> QED
  BY <1>2 DEF Given, first

LEMMA GivenKeeps ==
  ASSUME NEW queues \in Queues, NEW to \in Slots, NEW map, NEW u \in Slots, NEW kinds,
         u \notin map \ {0} \/ "talk" \notin kinds, "passed" \notin kinds
  PROVE  Final(Given(queues, to, map)[u], kinds) = Final(queues[u], kinds)
<1> DEFINE first == Post(queues, map \ {0}, Talk(to))
<1>1. Talk(to) \in Notice /\ Talk(to).kind = "talk" /\ Passed \in Notice /\ Passed.kind = "passed"
  BY NoticeTypes DEF Talk, Passed
<1>2. first \in Queues
  BY <1>1, PostEffect
<1>3. Final(first[u], kinds) = Final(queues[u], kinds)
  BY <1>1, PostKeeps
<1> HIDE DEF first
<1>4. Final(Post(first, {v \in {to} : map # {}}, Passed)[u], kinds) = Final(first[u], kinds)
  BY <1>1, <1>2, PostKeeps
<1> QED
  BY <1>3, <1>4 DEF Given, first

LEMMA GivenSays ==
  ASSUME NEW queues \in Queues, NEW to \in Slots, NEW map, NEW u \in Slots, u \in map \ {0}
  PROVE  Final(Given(queues, to, map)[u], Talks) = {Talk(to)}
<1> DEFINE first == Post(queues, map \ {0}, Talk(to))
<1>1. Talk(to) \in Notice /\ Talk(to).kind \in Talks
  BY NoticeTypes DEF Talk, Talks
<1>2. first \in Queues
  BY <1>1, PostEffect
<1>3. Final(first[u], Talks) = {Talk(to)}
  BY <1>1, PostSays
<1>4. Passed \in Notice /\ Passed.kind \notin Talks
  BY NoticeTypes DEF Passed, Talks
<1> HIDE DEF first
<1>5. Final(Post(first, {v \in {to} : map # {}}, Passed)[u], Talks) = Final(first[u], Talks)
  BY <1>2, <1>4, PostKeeps
<1> QED
  BY <1>3, <1>5 DEF Given, first

GivenFinals(queues, to, map, u) ==
  /\ u \in map \ {0} => Final(Given(queues, to, map)[u], Talks) = {Talk(to)}
  /\ u \notin map \ {0} => Final(Given(queues, to, map)[u], Talks) = Final(queues[u], Talks)
  /\ Final(Given(queues, to, map)[u], Ranking) = Final(queues[u], Ranking)

LEMMA GivenBoth ==
  ASSUME NEW queues \in Queues, NEW to \in Slots, NEW map, NEW u \in Slots
  PROVE  GivenFinals(queues, to, map, u)
<1>1. "talk" \notin Ranking /\ "passed" \notin Ranking /\ "passed" \notin Talks
  BY DEF Ranking, Talks
<1>2. Final(Given(queues, to, map)[u], Ranking) = Final(queues[u], Ranking)
  BY <1>1, GivenKeeps
<1>3. CASE u \in map \ {0}
  BY <1>2, <1>3, GivenSays DEF GivenFinals
<1>4. CASE u \notin map \ {0}
  <2>1. Final(Given(queues, to, map)[u], Talks) = Final(queues[u], Talks)
    BY <1>1, <1>4, GivenKeeps
  <2> QED
    BY <1>2, <1>4, <2>1 DEF GivenFinals
<1> QED
  BY <1>3, <1>4

LEMMA NoticesQueues == NoticesTypes => queue \in Queues
  BY DEF NoticesTypes, Queues, Notice

\* Consume, in the words above
Oldest(u, n, kinds) == Spots(queue[u], kinds) \cap 1 .. n
LEMMA ConsumeEffect ==
  ASSUME UsersOK, NoticesTypes, NEW u \in Slots, NEW n, Heard(u, n)
  PROVE  /\ u \in who /\ n \in 0 .. Len(queue[u]) /\ queue[u] \in Seq(Notice)
         /\ queue' \in Queues /\ told' \in [Slots -> Slots] /\ ranked' \in SUBSET who
         /\ queue'[u] = SubSeq(queue[u], n + 1, Len(queue[u]))
         /\ told'[u] = IF Oldest(u, n, Talks) = {} THEN told[u]
                       ELSE queue[u][LastOf(Oldest(u, n, Talks))].with
         /\ u \in ranked' <=> IF Oldest(u, n, Ranking) = {} THEN u \in ranked
                              ELSE queue[u][LastOf(Oldest(u, n, Ranking))].kind = "master"
         /\ \A v \in Slots \ {u} : /\ queue'[v] = queue[v] /\ told'[v] = told[v]
                                   /\ v \in ranked' <=> v \in ranked
<1>1. /\ u \in who /\ n \in 0 .. Len(queue[u]) /\ Consume(u, n)
      /\ queue \in Queues /\ queue[u] \in Seq(Notice)
  BY NoticesQueues DEF Heard, Queues
<1>2. SubSeq(queue[u], n + 1, Len(queue[u])) \in Seq(Notice)
  BY <1>1, SpotsRest
<1>3. queue' = [queue EXCEPT ![u] = SubSeq(queue[u], n + 1, Len(queue[u]))]
  BY <1>1 DEF Consume
<1>4. queue' \in Queues /\ queue'[u] = SubSeq(queue[u], n + 1, Len(queue[u]))
      /\ \A v \in Slots \ {u} : queue'[v] = queue[v]
  BY <1>1, <1>2, <1>3 DEF Queues
<1>6. told' = [told EXCEPT ![u] =
                IF Oldest(u, n, Talks) = {} THEN told[u]
                ELSE queue[u][LastOf(Oldest(u, n, Talks))].with]
  BY <1>1 DEF Consume, LastOf, Talks, Oldest, Spots, Places
<1>7. ranked' = {v \in who :
                  IF v # u \/ Oldest(u, n, Ranking) = {} THEN v \in ranked
                  ELSE queue[u][LastOf(Oldest(u, n, Ranking))].kind = "master"}
  BY <1>1 DEF Consume, LastOf, Ranking, Oldest, Spots, Places
<1>8. Oldest(u, n, Talks) # {} => queue[u][LastOf(Oldest(u, n, Talks))].with \in Slots
  <2> SUFFICES ASSUME Oldest(u, n, Talks) # {}
               PROVE  queue[u][LastOf(Oldest(u, n, Talks))].with \in Slots
    OBVIOUS
  <2>1. LastPlace(LastOf(Oldest(u, n, Talks)), Oldest(u, n, Talks))
    <3>1. RestFinals(queue[u], n, Talks)
      BY <1>1, FinalRest
    <3> QED
      BY <3>1 DEF RestFinals, Oldest
  <2>2. LastOf(Oldest(u, n, Talks)) \in 1 .. Len(queue[u])
    BY <1>1, <2>1, SpotsBound DEF LastPlace, Oldest
  <2>3. queue[u][LastOf(Oldest(u, n, Talks))] \in Notice
    BY <1>1, <2>2, ElementOfSeq
  <2> QED
    BY <2>3 DEF Notice
<1>9. told \in [Slots -> Slots] /\ ranked \in SUBSET who
  BY DEF NoticesTypes
<1> QED
  BY <1>1, <1>4, <1>6, <1>7, <1>8, <1>9

LEMMA QueueTypesStep ==
  ASSUME IType, IType', INotices, Effect
  PROVE  INotices'
<1>1. /\ queue \in Queues /\ told \in [Slots -> Slots]
      /\ out \in SUBSET who /\ ranked \in SUBSET who
      /\ \A u \in Slots \ who : queue[u] = <<>>
      /\ who \in SUBSET Slots /\ who' \in SUBSET Slots
      /\ mstr \in [Slots -> Slots] /\ sub \in SUBSET who
  BY NoticesQueues DEF INotices, NoticesTypes, IType, UsersOK
<1>2. SUFFICES /\ queue' \in Queues /\ told' \in [Slots -> Slots]
               /\ out' \in SUBSET who' /\ ranked' \in SUBSET who'
               /\ \A u \in Slots \ who' : queue'[u] = <<>>
  BY DEF INotices, NoticesTypes, Queues, Notice
<1>3. CASE Unheard
  BY <1>1, <1>3 DEF Unheard, people
<1>4. CASE Arrived
  <2>1. who \subseteq who'
    BY <1>4 DEF Arrived, Connect
  <2> QED
    BY <1>1, <1>4, <2>1 DEF Arrived, Quiet, notices
<1>5. CASE NoticedRestart
  <2>1. <<>> \in Seq(Notice)
    BY EmptySeq
  <2> QED
    BY <1>5, <2>1, SlotFacts DEF NoticedRestart, Restart, Queues
<1>6. ASSUME NEW u \in Slots, Named(u)
      PROVE  /\ queue' \in Queues /\ told' \in [Slots -> Slots]
             /\ out' \in SUBSET who' /\ ranked' \in SUBSET who'
             /\ \A v \in Slots \ who' : queue'[v] = <<>>
  BY <1>1, <1>6 DEF Named
<1>7. ASSUME NEW k \in Slots, Departed(k)
      PROVE  /\ queue' \in Queues /\ told' \in [Slots -> Slots]
             /\ out' \in SUBSET who' /\ ranked' \in SUBSET who'
             /\ \A u \in Slots \ who' : queue'[u] = <<>>
  <2> DEFINE to == mstr[k]
             map == Returned(k)
             given == Given(queue, to, map)
  <2>1. to \in Slots /\ map \ {0} \subseteq who /\ (map = {} \/ to \in who)
    BY <1>1, <1>7 DEF Departed, ExUserFaults, NormalizeFaults, Returned, NormalMap, Members
  <2>2. /\ queue' = [given EXCEPT ![k] = <<>>]
        /\ told' = [told EXCEPT ![k] = 0]
        /\ out' = out \ {k} /\ ranked' = ranked \ {k}
        /\ who' = who \ {k}
    BY <1>7 DEF Departed, Dismissed, ExUser
  <2> HIDE DEF to, map
  <2>3. given \in Queues
    BY <1>1, <2>1, GivenQueues
  <2>4. ASSUME NEW u \in Slots \ who
        PROVE  given[u] = <<>>
    <3>1. u \notin map \ {0} /\ (u = to => map = {})
      BY <2>1
    <3> QED
      BY <1>1, <2>1, <3>1, GivenElsewhere
  <2>5. <<>> \in Seq(Notice)
    BY EmptySeq
  <2> HIDE DEF given
  <2> QED
    BY <1>1, <2>2, <2>3, <2>4, <2>5, SlotFacts DEF Queues
<1>8. ASSUME NEW map \in SUBSET who, Raised(map)
      PROVE  /\ queue' \in Queues /\ told' \in [Slots -> Slots]
             /\ out' \in SUBSET who' /\ ranked' \in SUBSET who'
             /\ \A u \in Slots \ who' : queue'[u] = <<>>
  <2>1. queue' = Post(queue, sub' \ sub, Promoted) /\ sub' \ sub \subseteq who
    BY <1>8 DEF Raised
  <2>2. queue' \in Queues /\ \A u \in Slots : u \notin sub' \ sub => queue'[u] = queue[u]
    BY <1>1, <2>1, PostEffect, NoticeTypes
  <2>3. UNCHANGED <<who, told, out, ranked>>
    BY <1>8 DEF Raised
  <2> QED
    BY <1>1, <2>1, <2>2, <2>3
<1>9. ASSUME NEW ix \in Slots, Lowered(ix)
      PROVE  /\ queue' \in Queues /\ told' \in [Slots -> Slots]
             /\ out' \in SUBSET who' /\ ranked' \in SUBSET who'
             /\ \A u \in Slots \ who' : queue'[u] = <<>>
  <2> DEFINE map == Returned(ix)
             first == Post(queue, {ix}, Demoted)
  <2>1. turn \in who /\ turn \in Slots /\ ix \in who /\ map \ {0} \subseteq who
    BY <1>1, <1>9 DEF Lowered, Returned, NormalMap, Members
  <2>2. queue' = Given(first, turn, map) /\ UNCHANGED <<who, told, out, ranked>>
    BY <1>9 DEF Lowered
  <2>3. first \in Queues /\ \A u \in Slots \ who : first[u] = <<>>
    BY <1>1, <2>1, PostEffect, NoticeTypes
  <2> HIDE DEF map, first
  <2>4. queue' \in Queues
    BY <2>1, <2>2, <2>3, GivenQueues
  <2>5. ASSUME NEW u \in Slots \ who
        PROVE  queue'[u] = <<>>
    BY <2>1, <2>2, <2>3, GivenElsewhere
  <2> QED
    BY <1>1, <2>2, <2>4, <2>5
<1>10. ASSUME NEW to \in Slots, NEW map \in SUBSET who, HandedOn(to, map)
       PROVE  /\ queue' \in Queues /\ told' \in [Slots -> Slots]
              /\ out' \in SUBSET who' /\ ranked' \in SUBSET who'
              /\ \A u \in Slots \ who' : queue'[u] = <<>>
  <2>1. to \in who /\ queue' = Given(queue, to, map) /\ UNCHANGED <<who, told, out, ranked>>
    BY <1>10 DEF HandedOn
  <2>2. queue' \in Queues
    BY <1>1, <2>1, GivenQueues
  <2>3. ASSUME NEW u \in Slots \ who
        PROVE  queue'[u] = <<>>
    BY <1>1, <2>1, GivenElsewhere
  <2> QED
    BY <1>1, <2>1, <2>2, <2>3
<1>11. ASSUME NEW to \in Slots, HandedNew(to)
       PROVE  /\ queue' \in Queues /\ told' \in [Slots -> Slots]
              /\ out' \in SUBSET who' /\ ranked' \in SUBSET who'
              /\ \A u \in Slots \ who' : queue'[u] = <<>>
  <2>1. to \in who /\ queue' = Post(queue, {to}, Passed) /\ UNCHANGED <<who, told, out, ranked>>
    BY <1>11 DEF HandedNew, people
  <2>2. queue' \in Queues /\ \A u \in Slots \ who : queue'[u] = queue[u]
    BY <1>1, <2>1, PostEffect, NoticeTypes
  <2> QED
    BY <1>1, <2>1, <2>2
<1>12. ASSUME NEW u \in Slots, NEW n \in Nat, Heard(u, n)
       PROVE  /\ queue' \in Queues /\ told' \in [Slots -> Slots]
              /\ out' \in SUBSET who' /\ ranked' \in SUBSET who'
              /\ \A v \in Slots \ who' : queue'[v] = <<>>
  <2>1. UNCHANGED who /\ out' \in SUBSET who
    BY <1>12 DEF Heard, people
  <2>2. /\ u \in who /\ queue' \in Queues /\ told' \in [Slots -> Slots]
        /\ ranked' \in SUBSET who /\ \A v \in Slots \ {u} : queue'[v] = queue[v]
    BY <1>12, ConsumeEffect DEF IType, INotices
  <2> QED
    BY <1>1, <2>1, <2>2
<1> QED
  BY <1>3, <1>4, <1>5, <1>6, <1>7, <1>8, <1>9, <1>10, <1>11, <1>12 DEF Effect

LEMMA INoticesInvariant == NoticesSpec => [](IType /\ INorm /\ INotices)
<1>1. NoticesInit => INorm /\ INotices
  <2>1. <<>> \in Seq([kind : Kinds, with : Slots])
    BY EmptySeq
  <2> QED
    BY <2>1, SlotFacts DEF NoticesInit, Init, INorm, INotices, NoticesTypes
<1>2. INorm /\ [NoticesNext]_nvars => INorm'
  BY ConferenceStep, NormStep
<1>3. IType /\ IType' /\ INorm /\ INotices /\ [NoticesNext]_nvars => INotices'
  <2> SUFFICES ASSUME IType, IType', INorm, INotices, [NoticesNext]_nvars
               PROVE  INotices'
    OBVIOUS
  <2>1. CASE NoticesNext
    BY <2>1, NoticesCases, QueueTypesStep DEF INotices
  <2>2. CASE UNCHANGED nvars
    BY <2>2 DEF INotices, NoticesTypes, nvars, vars, notices
  <2> QED
    BY <2>1, <2>2
<1> QED
  BY <1>1, <1>2, <1>3, NoticesRefineConference, ITypeInvariant, PTL DEF NoticesSpec

\* The notices waiting, shown and thrown away have their types, with queues of
\* any length; the users who are out, or take themselves for masters, are
\* connected.
THEOREM NoticesTypeCorrect == NoticesSpec => []NoticesTypeOK
<1>1. IType /\ INotices => NoticesTypeOK
  BY TypeHalves DEF IType, INotices, NoticesTypes, NoticesTypeOK
<1> QED
  BY <1>1, INoticesInvariant, PTL

-----------------------------------------------------------------------------
(***************************************************************************)
(* What a user hears last is true: the last notice in his queue, or if the *)
(* queue has none the last one shown, names his master, and likewise for   *)
(* his rank.  No other state is needed to keep the two properties going.   *)
(***************************************************************************)
MasterTold(u) ==
  /\ \A x \in Final(queue[u], Talks) : x.with = mstr[u]
  /\ Final(queue[u], Talks) = {} /\ u \notin login => told[u] = mstr[u]

RankTold(u) ==
  /\ \A x \in Final(queue[u], Ranking) : x.kind = "master" <=> u \in sub
  /\ Final(queue[u], Ranking) = {} => (u \in ranked <=> u \in sub)

ITold == \A u \in who : MasterTold(u) /\ RankTold(u)

LEMMA FinalEmpty == \A kinds : Final(<<>>, kinds) = {}
<1>1. DOMAIN <<>> = {}
  OBVIOUS
<1> QED
  BY <1>1 DEF Final, Spots

LEMMA SameTold ==
  ASSUME NEW u, MasterTold(u), RankTold(u), login \subseteq login' \cup (Slots \ {u}),
         u \in Slots, queue'[u] = queue[u], mstr'[u] = mstr[u], told'[u] = told[u],
         u \in sub' <=> u \in sub, u \in ranked' <=> u \in ranked
  PROVE  MasterTold(u)' /\ RankTold(u)'
  BY DEF MasterTold, RankTold

LEMMA ArrivedTold ==
  ASSUME IType, IType', INotices, ITold, Arrived, NEW u \in who'
  PROVE  MasterTold(u)' /\ RankTold(u)'
<1>1. PICK np \in Slots :
        /\ FirstFree(np) /\ who' = who \cup {np} /\ login' = login \cup {np}
        /\ \E k : mstr' = [mstr EXCEPT ![np] = k]
  BY DEF Arrived, Connect
<1>2. UNCHANGED <<queue, told, ranked, sub>> /\ np \notin who
  BY <1>1 DEF Arrived, Connect, Quiet, notices, FirstFree
<1>3. CASE u \in who
  <2>1. u \in Slots /\ mstr'[u] = mstr[u]
    BY <1>1, <1>2, <1>3 DEF IType, UsersOK
  <2> QED
    BY <1>1, <1>2, <1>3, <2>1, SameTold DEF ITold
<1>4. CASE u = np
  <2>1. queue'[u] = <<>> /\ u \notin ranked' /\ u \notin sub' /\ u \in login'
    BY <1>1, <1>2, <1>4 DEF INotices, NoticesTypes, IType, UsersOK
  <2> QED
    BY <2>1, FinalEmpty DEF MasterTold, RankTold
<1> QED
  BY <1>1, <1>3, <1>4

LEMMA NamedTold ==
  ASSUME IType, INotices, ITold, NEW v \in Slots, Named(v), NEW u \in who'
  PROVE  MasterTold(u)' /\ RankTold(u)'
<1>1. /\ u \in who /\ u \in Slots /\ told'[u] = (IF u = v THEN mstr[u] ELSE told[u])
      /\ login' = login \ {v} /\ UNCHANGED <<queue, mstr, sub, ranked>>
  BY DEF Named, IType, UsersOK, INotices, NoticesTypes
<1>2. MasterTold(u) /\ RankTold(u)
  BY <1>1 DEF ITold
<1> QED
  BY <1>1, <1>2 DEF MasterTold, RankTold

LEMMA DepartedTold ==
  ASSUME IType, INotices, ITold, NEW k \in Slots, Departed(k), NEW u \in who'
  PROVE  MasterTold(u)' /\ RankTold(u)'
<1> DEFINE to == mstr[k]
           map == Returned(k)
<1>1. /\ u \in who /\ u # k /\ u \in Slots /\ to \in Slots
      /\ queue \in Queues /\ told \in [Slots -> Slots]
      /\ mstr \in [Slots -> Slots]
  BY NoticesQueues DEF Departed, ExUser, IType, UsersOK, INotices, NoticesTypes
<1>2. /\ queue' = [Given(queue, to, map) EXCEPT ![k] = <<>>]
      /\ told' = [told EXCEPT ![k] = 0] /\ ranked' = ranked \ {k}
      /\ mstr' = [GivenMstr(to, map) EXCEPT ![k] = 0]
      /\ sub' = sub \ {k} /\ login' = login \ {k}
  BY DEF Departed, Dismissed, ExUser
<1> HIDE DEF to, map
<1>3. queue'[u] = Given(queue, to, map)[u] /\ told'[u] = told[u]
  <2>1. Given(queue, to, map) \in Queues
    BY <1>1, GivenQueues
  <2> QED
    BY <1>1, <1>2, <2>1 DEF Queues
<1>4. GivenFinals(queue, to, map, u)
  BY <1>1, GivenBoth
<1>5. mstr'[u] = IF u \in map \ {0} THEN to ELSE mstr[u]
  BY <1>1, <1>2 DEF GivenMstr
<1>6. MasterTold(u) /\ RankTold(u) /\ Talk(to).with = to
  BY <1>1 DEF ITold, Talk
<1>7. MasterTold(u)'
  BY <1>1, <1>2, <1>3, <1>4, <1>5, <1>6 DEF MasterTold, GivenFinals
<1>8. RankTold(u)'
  BY <1>1, <1>2, <1>3, <1>4, <1>6 DEF RankTold, GivenFinals
<1> QED
  BY <1>7, <1>8

LEMMA RaisedTold ==
  ASSUME IType, INotices, ITold, NEW map \in SUBSET who, Raised(map), NEW u \in who'
  PROVE  MasterTold(u)' /\ RankTold(u)'
<1>1. /\ u \in who /\ u \in Slots /\ queue \in Queues
      /\ queue' = Post(queue, sub' \ sub, Promoted) /\ sub' = sub \cup map
      /\ UNCHANGED <<mstr, login, told, ranked>>
  BY NoticesQueues DEF Raised, IType, UsersOK, INotices
<1>2. MasterTold(u) /\ RankTold(u)
  BY <1>1 DEF ITold
<1>3. Promoted.kind \in Ranking \ Talks /\ Promoted.kind = "master"
  BY DEF Promoted, Ranking, Talks
<1>4. Final(queue'[u], Talks) = Final(queue[u], Talks)
  BY <1>1, <1>3, PostKeeps, NoticeTypes
<1>5. CASE u \in sub' \ sub
  <2>1. Final(queue'[u], Ranking) = {Promoted}
    BY <1>1, <1>3, <1>5, PostSays, NoticeTypes
  <2> QED
    BY <1>1, <1>2, <1>3, <1>4, <1>5, <2>1 DEF MasterTold, RankTold
<1>6. CASE u \notin sub' \ sub
  <2>1. Final(queue'[u], Ranking) = Final(queue[u], Ranking)
    BY <1>1, <1>3, <1>6, PostKeeps, NoticeTypes
  <2> QED
    BY <1>1, <1>2, <1>4, <1>6, <2>1 DEF MasterTold, RankTold
<1> QED
  BY <1>5, <1>6

LEMMA LoweredTold ==
  ASSUME IType, INotices, ITold, NEW ix \in Slots, Lowered(ix), NEW u \in who'
  PROVE  MasterTold(u)' /\ RankTold(u)'
<1> DEFINE map == Returned(ix)
           first == Post(queue, {ix}, Demoted)
<1>1. /\ u \in who /\ u \in Slots /\ turn \in Slots /\ queue \in Queues
      /\ mstr \in [Slots -> Slots]
  BY NoticesQueues DEF Lowered, IType, UsersOK, INotices
<1>2. /\ queue' = Given(first, turn, map) /\ mstr' = GivenMstr(turn, map)
      /\ sub' = sub \ {ix} /\ UNCHANGED <<login, told, ranked>>
  BY DEF Lowered
<1>3. Demoted.kind \in Ranking \ Talks /\ Demoted.kind # "master" /\ Talk(turn).with = turn
  BY DEF Demoted, Ranking, Talks, Talk
<1>4. Final(first[u], Talks) = Final(queue[u], Talks)
  BY <1>1, <1>3, PostKeeps, NoticeTypes
<1>5. u = ix => Final(first[u], Ranking) = {Demoted}
  BY <1>1, <1>3, PostSays, NoticeTypes
<1>6. u # ix => Final(first[u], Ranking) = Final(queue[u], Ranking)
  BY <1>1, <1>3, PostKeeps, NoticeTypes
<1>7. GivenFinals(first, turn, map, u)
  <2>1. first \in Queues
    BY <1>1, PostEffect, NoticeTypes
  <2> HIDE DEF map, first
  <2> QED
    BY <1>1, <2>1, GivenBoth
<1> HIDE DEF map, first
<1>8. mstr'[u] = IF u \in map \ {0} THEN turn ELSE mstr[u]
  BY <1>1, <1>2 DEF GivenMstr
<1>9. MasterTold(u) /\ RankTold(u)
  BY <1>1 DEF ITold
<1>10. MasterTold(u)'
  BY <1>2, <1>3, <1>4, <1>7, <1>8, <1>9 DEF MasterTold, GivenFinals
<1>11. RankTold(u)'
  BY <1>2, <1>3, <1>5, <1>6, <1>7, <1>9 DEF RankTold, GivenFinals
<1> QED
  BY <1>10, <1>11

LEMMA HandedOnTold ==
  ASSUME IType, INotices, ITold, NEW to \in Slots, NEW map \in SUBSET who,
         HandedOn(to, map), NEW u \in who'
  PROVE  MasterTold(u)' /\ RankTold(u)'
<1>1. /\ u \in who /\ u \in Slots /\ queue \in Queues /\ mstr \in [Slots -> Slots]
      /\ queue' = Given(queue, to, map) /\ mstr' = GivenMstr(to, map)
      /\ UNCHANGED <<sub, login, told, ranked>>
  BY NoticesQueues DEF HandedOn, IType, UsersOK, INotices
<1>2. GivenFinals(queue, to, map, u)
  BY <1>1, GivenBoth
<1>3. mstr'[u] = IF u \in map \ {0} THEN to ELSE mstr[u]
  BY <1>1 DEF GivenMstr
<1>4. MasterTold(u) /\ RankTold(u) /\ Talk(to).with = to
  BY <1>1 DEF ITold, Talk
<1> QED
  BY <1>1, <1>2, <1>3, <1>4 DEF MasterTold, RankTold, GivenFinals

LEMMA HandedNewTold ==
  ASSUME IType, INotices, ITold, NEW to \in Slots, HandedNew(to), NEW u \in who'
  PROVE  MasterTold(u)' /\ RankTold(u)'
<1>1. /\ u \in who /\ u \in Slots /\ queue \in Queues
      /\ queue' = Post(queue, {to}, Passed)
      /\ UNCHANGED <<mstr, sub, login, told, ranked>>
  BY NoticesQueues DEF HandedNew, people, IType, UsersOK, INotices
<1>2. Passed.kind \notin Ranking \cup Talks
  BY DEF Passed, Ranking, Talks
<1>3. Final(queue'[u], Talks) = Final(queue[u], Talks)
  BY <1>1, <1>2, PostKeeps, NoticeTypes
<1>4. Final(queue'[u], Ranking) = Final(queue[u], Ranking)
  BY <1>1, <1>2, PostKeeps, NoticeTypes
<1>5. MasterTold(u) /\ RankTold(u)
  BY <1>1 DEF ITold
<1> QED
  BY <1>1, <1>3, <1>4, <1>5 DEF MasterTold, RankTold

LEMMA HeardTold ==
  ASSUME IType, INotices, ITold, NEW v \in Slots, NEW n, Heard(v, n), NEW u \in who'
  PROVE  MasterTold(u)' /\ RankTold(u)'
<1>1. u \in who /\ u \in Slots /\ UNCHANGED <<mstr, sub, login>>
  BY DEF Heard, people, IType, UsersOK
<1>2. MasterTold(u) /\ RankTold(u)
  BY <1>1 DEF ITold
<1>3. CASE u # v
  <2>1. queue'[u] = queue[u] /\ told'[u] = told[u] /\ (u \in ranked' <=> u \in ranked)
    BY <1>1, <1>3, ConsumeEffect DEF IType, INotices
  <2> QED
    BY <1>1, <1>2, <2>1, SameTold
<1>4. CASE u = v
  <2> DEFINE q == queue[u]
  <2>1. /\ n \in 0 .. Len(q) /\ q \in Seq(Notice)
        /\ queue'[u] = SubSeq(q, n + 1, Len(q))
        /\ told'[u] = IF Oldest(u, n, Talks) = {} THEN told[u]
                      ELSE q[LastOf(Oldest(u, n, Talks))].with
        /\ u \in ranked' <=> IF Oldest(u, n, Ranking) = {} THEN u \in ranked
                             ELSE q[LastOf(Oldest(u, n, Ranking))].kind = "master"
    BY <1>4, ConsumeEffect DEF IType, INotices
  <2>2. ASSUME NEW kinds
        PROVE  /\ Final(queue'[u], kinds) # {} =>
                    Final(queue'[u], kinds) = Final(q, kinds)
               /\ Final(queue'[u], kinds) = {} /\ Oldest(u, n, kinds) = {}
                    => Final(q, kinds) = {}
               /\ Final(queue'[u], kinds) = {} /\ Oldest(u, n, kinds) # {}
                    => Final(q, kinds) = {q[LastOf(Oldest(u, n, kinds))]}
    <3>1. RestFinals(q, n, kinds)
      <4> HIDE DEF q
      <4> QED
        BY <2>1, FinalRest
    <3> QED
      BY <2>1, <3>1 DEF RestFinals, Oldest
  <2>3. /\ Final(queue'[u], Talks) # {} => Final(queue'[u], Talks) = Final(q, Talks)
        /\ Final(queue'[u], Talks) = {} /\ Oldest(u, n, Talks) = {} => Final(q, Talks) = {}
        /\ Final(queue'[u], Talks) = {} /\ Oldest(u, n, Talks) # {}
             => Final(q, Talks) = {q[LastOf(Oldest(u, n, Talks))]}
    BY <2>2
  <2>4. /\ Final(queue'[u], Ranking) # {} => Final(queue'[u], Ranking) = Final(q, Ranking)
        /\ Final(queue'[u], Ranking) = {} /\ Oldest(u, n, Ranking) = {} => Final(q, Ranking) = {}
        /\ Final(queue'[u], Ranking) = {} /\ Oldest(u, n, Ranking) # {}
             => Final(q, Ranking) = {q[LastOf(Oldest(u, n, Ranking))]}
    BY <2>2
  <2>5. MasterTold(u)'
    BY <1>1, <1>2, <2>1, <2>3 DEF MasterTold
  <2>6. RankTold(u)'
    BY <1>1, <1>2, <2>1, <2>4 DEF RankTold
  <2> QED
    BY <2>5, <2>6
<1> QED
  BY <1>3, <1>4

LEMMA ToldStep ==
  ASSUME IType, IType', INotices, ITold, Effect
  PROVE  ITold'
<1> SUFFICES ASSUME NEW u \in who'
             PROVE  MasterTold(u)' /\ RankTold(u)'
  BY DEF ITold
<1>1. CASE Unheard
  <2>1. u \in who /\ u \in Slots
    BY <1>1 DEF Unheard, people, IType, UsersOK
  <2> QED
    BY <1>1, <2>1, SameTold DEF Unheard, people, ITold
<1>2. CASE NoticedRestart
  BY <1>2 DEF NoticedRestart, Restart
<1> QED
  BY <1>1, <1>2, ArrivedTold, NamedTold, DepartedTold, RaisedTold, LoweredTold,
     HandedOnTold, HandedNewTold, HeardTold DEF Effect

LEMMA IToldInvariant == NoticesSpec => []ITold
<1>1. NoticesInit => ITold
  BY DEF NoticesInit, Init, ITold
<1>2. IType /\ INorm /\ INotices /\ IType' /\ ITold /\ [NoticesNext]_nvars => ITold'
  <2> SUFFICES ASSUME IType, INorm, INotices, IType', ITold, [NoticesNext]_nvars
               PROVE  ITold'
    OBVIOUS
  <2>1. CASE NoticesNext
    BY <2>1, NoticesCases, ToldStep DEF INotices
  <2>2. CASE UNCHANGED nvars
    BY <2>2 DEF ITold, MasterTold, RankTold, nvars, vars, notices
  <2> QED
    BY <2>1, <2>2
<1> QED
  BY <1>1, <1>2, INoticesInvariant, PTL DEF NoticesSpec

LEMMA PlacesAreSpots ==
  ASSUME NEW u, NEW kinds
  PROVE  /\ Places(u, kinds) = Spots(queue[u], kinds)
         /\ \A i : LastPlace(i, Places(u, kinds)) => queue[u][i] \in Final(queue[u], kinds)
  BY DEF Places, Spots, Final, LastPlace

LEMMA NoPlaces ==
  ASSUME IType, INotices, NEW u \in who, NEW kinds
  PROVE  Places(u, kinds) = {} <=> Final(queue[u], kinds) = {}
<1>1. queue[u] \in Seq(Notice)
  BY NoticesQueues DEF INotices, Queues, IType, UsersOK
<1> QED
  BY <1>1, PlacesAreSpots, FinalNone

\* Every user is told who his master is, however often he is passed on,
\* returned or moved, and whatever he has thrown away unread.
THEOREM ToldMasterCorrect == NoticesSpec => []ToldMaster
<1>1. IType /\ INotices /\ ITold => ToldMaster
  <2> SUFFICES ASSUME IType, INotices, ITold, NEW u \in who
               PROVE  /\ \A i \in Places(u, Talks) :
                           LastPlace(i, Places(u, Talks)) => queue[u][i].with = mstr[u]
                      /\ Places(u, Talks) = {} /\ u \notin login => told[u] = mstr[u]
    BY DEF ToldMaster, Talks
  <2> QED
    BY PlacesAreSpots, NoPlaces DEF ITold, MasterTold
<1> QED
  BY <1>1, INoticesInvariant, IToldInvariant, PTL

\* Every user is told his rank: nobody takes himself for a master who has been
\* demoted, or the other way round, once he has read his notices.
THEOREM ToldRankCorrect == NoticesSpec => []ToldRank
<1>1. IType /\ INotices /\ ITold => ToldRank
  <2> SUFFICES ASSUME IType, INotices, ITold, NEW u \in who
               PROVE  /\ \A i \in Places(u, Ranking) :
                           LastPlace(i, Places(u, Ranking)) =>
                             (queue[u][i].kind = "master" <=> u \in sub)
                      /\ Places(u, Ranking) = {} => (u \in ranked <=> u \in sub)
    BY DEF ToldRank, Ranking
  <2> QED
    BY PlacesAreSpots, NoPlaces DEF ITold, RankTold
<1> QED
  BY <1>1, INoticesInvariant, IToldInvariant, PTL

-----------------------------------------------------------------------------
(***************************************************************************)
(* Users are passed to masters only, in the order of the notices too: the  *)
(* rank that stands before a "passed" notice in the queue, or was shown    *)
(* last, is a master's.  Who receives users leads at that moment, and by   *)
(* RankTold the last notice about his rank says so.                        *)
(***************************************************************************)
Passes == {"passed"}

RanksBefore(q, i) == {j \in Spots(q, Ranking) : j < i}

Backed(q, leader) ==
  \A i \in Spots(q, Passes) :
    /\ \A j \in RanksBefore(q, i) : LastPlace(j, RanksBefore(q, i)) => q[j].kind = "master"
    /\ RanksBefore(q, i) = {} => leader

Ranked(q, leader) ==
  /\ \A x \in Final(q, Ranking) : x.kind = "master"
  /\ Final(q, Ranking) = {} => leader

IBacked ==
  0 \in master /\ ~cyclic =>
    \A u \in who \ master : Backed(queue[u], u \in ranked)

LEMMA BackedEmpty == \A leader : Backed(<<>>, leader)
<1>1. DOMAIN <<>> = {}
  OBVIOUS
<1> QED
  BY <1>1 DEF Backed, Spots

LEMMA BackedAppend ==
  ASSUME NEW q \in Seq(Notice), NEW x \in Notice, NEW leader, Backed(q, leader),
         x.kind = "passed" => Ranked(q, leader)
  PROVE  Backed(Append(q, x), leader)
<1> DEFINE r == Append(q, x)
<1>1. /\ Len(q) \in Nat /\ Spots(q, Ranking) \in SUBSET (1 .. Len(q))
      /\ Spots(q, Passes) \in SUBSET (1 .. Len(q))
      /\ \A i \in 1 .. Len(q) : r[i] = q[i]
  BY SpotsBound, AppendProperties
<1>2. /\ Spots(r, Ranking) \subseteq Spots(q, Ranking) \cup {Len(q) + 1}
      /\ Spots(q, Ranking) \subseteq Spots(r, Ranking)
      /\ x.kind = "passed" => Spots(r, Ranking) = Spots(q, Ranking)
  <2>1. Spots(r, Ranking) = Spots(q, Ranking) \cup (IF x.kind \in Ranking THEN {Len(q) + 1} ELSE {})
    BY SpotsAppend
  <2>2. x.kind = "passed" => x.kind \notin Ranking
    BY DEF Ranking
  <2> HIDE DEF r
  <2> QED
    BY <2>1, <2>2
<1>3. Spots(r, Passes) = Spots(q, Passes) \cup (IF x.kind \in Passes THEN {Len(q) + 1} ELSE {})
  BY SpotsAppend
<1> HIDE DEF r
<1> SUFFICES ASSUME NEW i \in Spots(r, Passes)
             PROVE  /\ \A j \in RanksBefore(r, i) :
                         LastPlace(j, RanksBefore(r, i)) => r[j].kind = "master"
                    /\ RanksBefore(r, i) = {} => leader
  BY DEF Backed, r
<1>4. CASE i \in Spots(q, Passes)
  <2>1. i \in Nat /\ i <= Len(q)
    BY <1>1, <1>4
  <2>2. ~ (Len(q) + 1 < i)
    BY <1>1, <2>1
  <2>3. RanksBefore(r, i) = RanksBefore(q, i)
    BY <1>2, <2>2 DEF RanksBefore
  <2>4. \A j \in RanksBefore(q, i) : r[j] = q[j]
    BY <1>1 DEF RanksBefore
  <2> QED
    BY <1>4, <2>3, <2>4 DEF Backed
<1>5. CASE i \notin Spots(q, Passes)
  <2>1. x.kind = "passed" /\ i = Len(q) + 1
    BY <1>3, <1>5 DEF Passes
  <2>2. \A j \in Spots(q, Ranking) : j < i
    BY <1>1, <2>1
  <2>3. RanksBefore(r, i) = Spots(q, Ranking)
    BY <1>2, <2>1, <2>2 DEF RanksBefore
  <2>4. \A j \in Spots(q, Ranking) :
          r[j] = q[j] /\ (LastPlace(j, Spots(q, Ranking)) => q[j] \in Final(q, Ranking))
    BY <1>1 DEF Final
  <2>5. Spots(q, Ranking) = {} => Final(q, Ranking) = {}
    BY FinalNone
  <2> QED
    BY <2>1, <2>3, <2>4, <2>5 DEF Ranked
<1> QED
  BY <1>4, <1>5

LEMMA BackedRest ==
  ASSUME NEW q \in Seq(Notice), NEW n \in 0 .. Len(q), NEW leader, Backed(q, leader), NEW after,
         Spots(q, Ranking) \cap 1 .. n = {} => (after <=> leader),
         Spots(q, Ranking) \cap 1 .. n # {} =>
           (after <=> q[LastOf(Spots(q, Ranking) \cap 1 .. n)].kind = "master")
  PROVE  Backed(SubSeq(q, n + 1, Len(q)), after)
<1> DEFINE r == SubSeq(q, n + 1, Len(q))
           gone == Spots(q, Ranking) \cap 1 .. n
<1>1. /\ Len(q) \in Nat /\ n \in Nat /\ n <= Len(q) /\ r \in Seq(Notice)
      /\ \A j \in Spots(q, Ranking) : j \in Nat /\ j > 0 /\ j <= Len(q)
      /\ \A i \in 1 .. Len(q) - n : r[i] = q[n + i]
      /\ \A i \in Nat : i \in Spots(r, Ranking) <=> i > 0 /\ n + i \in Spots(q, Ranking)
      /\ \A i \in Nat : i \in Spots(r, Passes) <=> i > 0 /\ n + i \in Spots(q, Passes)
  BY SpotsBound, SpotsRest
<1>2. /\ Spots(r, Ranking) \subseteq Nat /\ Spots(r, Passes) \subseteq Nat
      /\ \A i \in Spots(q, Passes) : i \in Nat /\ i <= Len(q)
  <2>1. r \in Seq(Notice)
    BY <1>1
  <2> HIDE DEF r
  <2>2. Spots(r, Ranking) \in SUBSET (1 .. Len(r)) /\ Spots(r, Passes) \in SUBSET (1 .. Len(r))
    BY <2>1, SpotsBound
  <2>3. Len(r) \in Nat /\ \A i \in 1 .. Len(r) : i \in Nat
    BY <2>1, SpotsBound
  <2>4. Len(q) \in Nat /\ Spots(q, Passes) \in SUBSET (1 .. Len(q))
    BY SpotsBound
  <2> QED
    BY <2>2, <2>3, <2>4
<1>3. gone # {} => LastPlace(LastOf(gone), gone)
  <2>1. RestFinals(q, n, Ranking)
    BY FinalRest
  <2> QED
    BY <2>1 DEF RestFinals
<1> HIDE DEF r
<1> SUFFICES ASSUME NEW i \in Spots(r, Passes)
             PROVE  /\ \A j \in RanksBefore(r, i) :
                         LastPlace(j, RanksBefore(r, i)) => r[j].kind = "master"
                    /\ RanksBefore(r, i) = {} => after
  BY DEF Backed, r
<1>4. i \in Nat /\ i > 0 /\ n + i \in Spots(q, Passes) /\ n + i \in Nat /\ n + i <= Len(q)
  BY <1>1, <1>2
<1>5. ASSUME NEW j \in RanksBefore(r, i), LastPlace(j, RanksBefore(r, i))
      PROVE  r[j].kind = "master"
  <2>1. j \in Nat /\ j > 0 /\ j < i /\ n + j \in Spots(q, Ranking)
    BY <1>1, <1>2 DEF RanksBefore
  <2>2. n + j < n + i /\ j \in 1 .. Len(q) - n
    BY <1>1, <1>4, <2>1
  <2>3. ASSUME NEW k \in RanksBefore(q, n + i)
        PROVE  k <= n + j
    <3>1. k \in Nat /\ k \in Spots(q, Ranking) /\ k < n + i
      BY <1>1 DEF RanksBefore
    <3>2. CASE k <= n
      BY <1>1, <2>1, <3>1, <3>2
    <3>3. CASE k > n
      <4>1. k - n \in Nat /\ k - n > 0 /\ n + (k - n) = k /\ k - n < i
        BY <1>1, <1>4, <3>1, <3>3
      <4>2. k - n \in RanksBefore(r, i)
        BY <1>1, <3>1, <4>1 DEF RanksBefore
      <4>3. k - n <= j
        BY <1>5, <4>2 DEF LastPlace
      <4> QED
        BY <1>1, <2>1, <3>1, <4>3
    <3> QED
      BY <1>1, <3>1, <3>2, <3>3
  <2>4. LastPlace(n + j, RanksBefore(q, n + i))
    BY <2>1, <2>2, <2>3 DEF LastPlace, RanksBefore
  <2>5. q[n + j].kind = "master"
    BY <1>4, <2>4 DEF Backed, LastPlace
  <2> QED
    BY <1>1, <2>2, <2>5
<1>6. ASSUME RanksBefore(r, i) = {}
      PROVE  after
  <2>1. RanksBefore(q, n + i) = gone
    <3>1. ASSUME NEW k \in RanksBefore(q, n + i)
          PROVE  k \in gone
      <4>1. k \in Nat /\ k \in Spots(q, Ranking) /\ k < n + i /\ k > 0
        BY <1>1 DEF RanksBefore
      <4>2. CASE k > n
        <5>1. k - n \in Nat /\ k - n > 0 /\ n + (k - n) = k /\ k - n < i
          BY <1>1, <1>4, <4>1, <4>2
        <5>2. k - n \in RanksBefore(r, i)
          BY <1>1, <4>1, <5>1 DEF RanksBefore
        <5> QED
          BY <1>6, <5>2
      <4> QED
        BY <1>1, <4>1, <4>2
    <3>2. ASSUME NEW k \in gone
          PROVE  k \in RanksBefore(q, n + i)
      <4>1. k \in Nat /\ k <= n /\ k < n + i
        BY <1>1, <1>4
      <4> QED
        BY <4>1 DEF RanksBefore
    <3> QED
      BY <3>1, <3>2
  <2>2. CASE gone = {}
    BY <1>4, <2>1, <2>2 DEF Backed
  <2>3. CASE gone # {}
    <3>1. q[LastOf(gone)].kind = "master"
      BY <1>3, <1>4, <2>1, <2>3 DEF Backed, LastPlace
    <3> QED
      BY <2>3, <3>1
  <2> QED
    BY <2>2, <2>3
<1> QED
  BY <1>5, <1>6

LEMMA BackedPost ==
  ASSUME NEW queues \in Queues, NEW some, NEW x \in Notice, NEW u \in Slots,
         NEW leader, Backed(queues[u], leader),
         x.kind = "passed" /\ u \in some => Ranked(queues[u], leader)
  PROVE  Backed(Post(queues, some, x)[u], leader)
<1>1. queues[u] \in Seq(Notice)
  BY DEF Queues
<1>2. CASE u \in some
  <2>1. Post(queues, some, x)[u] = Append(queues[u], x)
    BY <1>2, PostEffect
  <2> QED
    BY <1>1, <1>2, <2>1, BackedAppend
<1>3. CASE u \notin some
  BY <1>3, PostEffect
<1> QED
  BY <1>2, <1>3

LEMMA BackedGiven ==
  ASSUME NEW queues \in Queues, NEW to \in Slots, NEW map, NEW u \in Slots,
         NEW leader, Backed(queues[u], leader),
         u = to /\ map # {} => Ranked(queues[u], leader)
  PROVE  Backed(Given(queues, to, map)[u], leader)
<1> DEFINE first == Post(queues, map \ {0}, Talk(to))
<1>1. Talk(to) \in Notice /\ Talk(to).kind = "talk" /\ Passed \in Notice
  BY NoticeTypes DEF Talk
<1>2. first \in Queues
  BY <1>1, PostEffect
<1>3. Backed(first[u], leader)
  BY <1>1, BackedPost
<1>4. Final(first[u], Ranking) = Final(queues[u], Ranking)
  BY <1>1, PostKeeps DEF Ranking
<1> HIDE DEF first
<1>5. u \in {v \in {to} : map # {}} => Ranked(first[u], leader)
  BY <1>4 DEF Ranked
<1>6. Backed(Post(first, {v \in {to} : map # {}}, Passed)[u], leader)
  BY <1>1, <1>2, <1>3, <1>5, BackedPost
<1> QED
  BY <1>6 DEF Given, first

Underling(u) == u \in who \ master /\ Backed(queue[u], u \in ranked)

\* A user who leads without being the master has been told so.
LEMMA LeaderRanked ==
  ASSUME ITold, NEW u \in who \ master, Leads(u)
  PROVE  Ranked(queue[u], u \in ranked)
  BY DEF ITold, RankTold, Ranked, Leads

LEMMA SameBacked ==
  ASSUME NEW u, Underling(u), queue'[u] = queue[u], u \in ranked' <=> u \in ranked
  PROVE  Backed(queue'[u], u \in ranked')
  BY DEF Underling, Backed

LEMMA DepartedBacked ==
  ASSUME IType, INotices, ITold, NobodyOrphaned, 0 \in master, ~cyclic,
         NEW k \in Slots, Departed(k), NEW u \in who', Underling(u)
  PROVE  Backed(queue'[u], u \in ranked')
<1> DEFINE to == mstr[k]
           map == Returned(k)
<1>1. /\ u \in who /\ u # k /\ u \in Slots /\ k \in who /\ to \in Slots /\ queue \in Queues
      /\ u \notin master
  BY NoticesQueues DEF Departed, ExUser, IType, UsersOK, INotices, Underling
<1>2. queue' = [Given(queue, to, map) EXCEPT ![k] = <<>>] /\ ranked' = ranked \ {k}
  BY DEF Departed, Dismissed
<1>3. u = to => Ranked(queue[u], u \in ranked)
  BY <1>1, LeaderRanked DEF NobodyOrphaned
<1>4. Backed(queue[u], u \in ranked)
  BY DEF Underling
<1> HIDE DEF to, map
<1>5. Backed(Given(queue, to, map)[u], u \in ranked)
  BY <1>1, <1>3, <1>4, BackedGiven
<1>6. queue'[u] = Given(queue, to, map)[u]
  <2>1. Given(queue, to, map) \in Queues
    BY <1>1, GivenQueues
  <2> QED
    BY <1>1, <1>2, <2>1 DEF Queues
<1>7. u \in ranked' <=> u \in ranked
  BY <1>1, <1>2
<1> QED
  BY <1>5, <1>6, <1>7 DEF Backed

LEMMA LoweredBacked ==
  ASSUME IMaster, INotices, ITold, NobodyOrphaned, 0 \in master, ~cyclic,
         NEW ix \in Slots, Lowered(ix), NEW u \in who', Underling(u)
  PROVE  Backed(queue'[u], u \in ranked')
<1> DEFINE map == Returned(ix)
           first == Post(queue, {ix}, Demoted)
<1>1. /\ u \in who /\ u \in Slots /\ u \notin master /\ turn \in who /\ turn \in Slots
      /\ ix \in who /\ ix # 0 /\ mstr[ix] = turn /\ queue \in Queues
  BY NoticesQueues DEF Lowered, IMaster, MasterIsZero, IType, UsersOK, INotices, Underling
<1>2. turn # ix /\ Leads(turn)
  BY <1>1 DEF NobodyOrphaned
<1>3. queue' = Given(first, turn, map) /\ ranked' = ranked
  BY DEF Lowered
<1>4. first \in Queues
  BY <1>1, PostEffect, NoticeTypes
<1>5. Backed(first[u], u \in ranked)
  <2>1. Demoted.kind # "passed"
    BY DEF Demoted
  <2> QED
    BY <1>1, <2>1, BackedPost, NoticeTypes DEF Underling
<1>6. u = turn => Ranked(first[u], u \in ranked)
  <2>1. u = turn => first[u] = queue[u]
    BY <1>1, <1>2, PostEffect, NoticeTypes
  <2> HIDE DEF first
  <2> QED
    BY <1>1, <1>2, <2>1, LeaderRanked
<1> HIDE DEF first, map
<1>7. Backed(Given(first, turn, map)[u], u \in ranked)
  BY <1>1, <1>4, <1>5, <1>6, BackedGiven
<1> QED
  BY <1>3, <1>7

LEMMA HeardBacked ==
  ASSUME IType, INotices, NEW v \in Slots, NEW n, Heard(v, n), NEW u \in who', Underling(u)
  PROVE  Backed(queue'[u], u \in ranked')
<1>1. u \in Slots
  BY DEF Underling, IType, UsersOK
<1>2. CASE u # v
  BY <1>1, <1>2, ConsumeEffect, SameBacked DEF IType, INotices
<1>3. CASE u = v
  <2>1. /\ n \in 0 .. Len(queue[u]) /\ queue[u] \in Seq(Notice)
        /\ queue'[u] = SubSeq(queue[u], n + 1, Len(queue[u]))
        /\ u \in ranked' <=> IF Oldest(u, n, Ranking) = {} THEN u \in ranked
                             ELSE queue[u][LastOf(Oldest(u, n, Ranking))].kind = "master"
    BY <1>3, ConsumeEffect DEF IType, INotices
  <2>2. /\ Oldest(u, n, Ranking) = {} => (u \in ranked' <=> u \in ranked)
        /\ Oldest(u, n, Ranking) # {} =>
             (u \in ranked' <=> queue[u][LastOf(Oldest(u, n, Ranking))].kind = "master")
    BY <2>1
  <2>3. Backed(SubSeq(queue[u], n + 1, Len(queue[u])), u \in ranked')
    <3> DEFINE q == queue[u]
               leader == u \in ranked
               after == u \in ranked'
               gone == Spots(q, Ranking) \cap 1 .. n
    <3>1. q \in Seq(Notice) /\ n \in 0 .. Len(q) /\ Backed(q, leader)
      BY <2>1 DEF Underling
    <3>2. /\ gone = {} => (after <=> leader)
          /\ gone # {} => (after <=> q[LastOf(gone)].kind = "master")
      BY <2>2 DEF Oldest
    <3> HIDE DEF q, leader, after
    <3>3. Backed(SubSeq(q, n + 1, Len(q)), after)
      BY <3>1, <3>2, BackedRest
    <3> QED
      BY <3>3 DEF q, after
  <2> QED
    BY <2>1, <2>3
<1> QED
  BY <1>2, <1>3

LEMMA BackedStep ==
  ASSUME IMaster, INotices, ITold, NobodyOrphaned, IBacked, [Next]_vars, Effect
  PROVE  IBacked'
<1> SUFFICES ASSUME 0 \in master', ~cyclic', NEW u \in who' \ master'
             PROVE  Backed(queue'[u], u \in ranked')
  BY DEF IBacked
<1> USE DEF IMaster
<1>0. ~cyclic
  <2>1. ~Restart
    BY DEF Restart
  <2> QED
    BY <2>1, CyclicStays
<1>1. CASE Arrived
  <2>1. PICK np \in Slots :
          /\ FirstFree(np) /\ who' = who \cup {np}
          /\ master' = IF newcon THEN master \cup {np} ELSE master
    BY <1>1 DEF Arrived, Connect
  <2>2. UNCHANGED <<queue, ranked>> /\ np \notin who
    BY <1>1, <2>1 DEF Arrived, Quiet, notices, FirstFree
  <2>3. CASE u = np
    <3>1. queue'[u] = <<>>
      BY <2>1, <2>2, <2>3 DEF INotices
    <3> QED
      BY <3>1, BackedEmpty
  <2>4. CASE u # np
    <3>1. u \in who /\ master' = master
      BY <2>1, <2>4 DEF MasterIsZero
    <3>2. Underling(u)
      BY <1>0, <3>1 DEF IBacked, Underling
    <3> QED
      BY <2>2, <3>2, SameBacked
  <2> QED
    BY <2>3, <2>4
<1>2. CASE NoticedRestart
  BY <1>2 DEF NoticedRestart, Restart
<1>3. CASE ~Arrived /\ ~NoticedRestart
  <2>1. master' \subseteq master /\ u \in who /\ u \notin master
    BY <1>3 DEF Effect, Unheard, people, Named, Departed, ExUser, Raised, Lowered, HandedOn,
                HandedNew, Heard
  <2>2. Underling(u) /\ 0 \in master /\ u \in Slots
    BY <1>0, <2>1 DEF IBacked, Underling, IType, UsersOK
  <2>3. CASE Unheard
    BY <2>2, <2>3, SameBacked DEF Unheard
  <2>4. ASSUME NEW v \in Slots, Named(v)
        PROVE  Backed(queue'[u], u \in ranked')
    BY <2>2, <2>4, SameBacked DEF Named
  <2>5. ASSUME NEW k \in Slots, Departed(k)
        PROVE  Backed(queue'[u], u \in ranked')
    BY <1>0, <2>2, <2>5, DepartedBacked
  <2>6. ASSUME NEW ix \in Slots, Lowered(ix)
        PROVE  Backed(queue'[u], u \in ranked')
    BY <1>0, <2>2, <2>6, LoweredBacked
  <2>7. ASSUME NEW to \in Slots, HandedNew(to)
        PROVE  Backed(queue'[u], u \in ranked')
    <3>1. queue' = Post(queue, {to}, Passed) /\ ranked' = ranked /\ Leads(to)
      BY <2>7 DEF HandedNew
    <3>2. u = to => Ranked(queue[u], u \in ranked)
      BY <1>0, <2>1, <3>1, LeaderRanked
    <3>3. queue \in Queues
      BY NoticesQueues DEF INotices
    <3>4. Backed(Post(queue, {to}, Passed)[u], u \in ranked)
      BY <2>2, <3>2, <3>3, BackedPost, NoticeTypes DEF Underling
    <3> QED
      BY <3>1, <3>4
  <2>8. ASSUME NEW v \in Slots, NEW n \in Nat, Heard(v, n)
        PROVE  Backed(queue'[u], u \in ranked')
    BY <2>2, <2>8, HeardBacked
  <2>9. ASSUME NEW to \in Slots, NEW map \in SUBSET who, HandedOn(to, map)
        PROVE  Backed(queue'[u], u \in ranked')
    <3>1. queue' = Given(queue, to, map) /\ ranked' = ranked /\ Leads(to)
      BY <2>9 DEF HandedOn
    <3>2. u = to => Ranked(queue[u], u \in ranked)
      BY <1>0, <2>1, <3>1, LeaderRanked
    <3>3. queue \in Queues
      BY NoticesQueues DEF INotices
    <3>4. Backed(Given(queue, to, map)[u], u \in ranked)
      BY <2>2, <3>2, <3>3, BackedGiven DEF Underling
    <3> QED
      BY <3>1, <3>4
  <2>10. ASSUME NEW map \in SUBSET who, Raised(map)
         PROVE  Backed(queue'[u], u \in ranked')
    <3>1. queue' = Post(queue, sub' \ sub, Promoted) /\ ranked' = ranked
      BY <2>10 DEF Raised
    <3>2. queue \in Queues /\ Promoted.kind # "passed"
      BY NoticesQueues DEF INotices, Promoted
    <3>3. Backed(Post(queue, sub' \ sub, Promoted)[u], u \in ranked)
      BY <2>2, <3>2, BackedPost, NoticeTypes DEF Underling
    <3> QED
      BY <3>1, <3>3
  <2> QED
    BY <1>3, <2>3, <2>4, <2>5, <2>6, <2>7, <2>8, <2>9, <2>10 DEF Effect
<1> QED
  BY <1>1, <1>2, <1>3

\* Until somebody is passed on to a user below him, nobody hears that users
\* have been passed to him before he has heard that he is a master, or after
\* he has heard that he is none any more.
THEOREM PassedToLeadersCorrect == NoticesSpec => []PassedToLeaders
<1>1. NoticesInit => IBacked
  BY DEF NoticesInit, Init, IBacked
<1>2. IMaster /\ INorm /\ INotices /\ ITold /\ NobodyOrphaned /\ IBacked /\ [NoticesNext]_nvars
        => IBacked'
  <2> SUFFICES ASSUME IMaster, INorm, INotices, ITold, NobodyOrphaned, IBacked,
                      [NoticesNext]_nvars
               PROVE  IBacked'
    OBVIOUS
  <2>1. CASE NoticesNext
    BY <2>1, ConferenceStep, NoticesCases, BackedStep DEF IMaster, INotices
  <2>2. CASE UNCHANGED nvars
    BY <2>2 DEF IBacked, nvars, vars, notices
  <2> QED
    BY <2>1, <2>2
<1>3. IBacked => PassedToLeaders
  <2> SUFFICES ASSUME 0 \in master, ~cyclic, NEW u \in who \ master, Backed(queue[u], u \in ranked),
                      NEW i \in Places(u, Passes)
               PROVE  LET ranks == {j \in Places(u, Ranking) : j < i}
                      IN  /\ \A j \in ranks : LastPlace(j, ranks) => queue[u][j].kind = "master"
                          /\ ranks = {} => u \in ranked
    BY DEF IBacked, PassedToLeaders, Passes, Ranking
  <2>1. /\ i \in Spots(queue[u], Passes)
        /\ {j \in Places(u, Ranking) : j < i} = RanksBefore(queue[u], i)
    BY PlacesAreSpots DEF RanksBefore
  <2> QED
    BY <2>1 DEF Backed
<1> QED
  BY <1>1, <1>2, <1>3, INoticesInvariant, IToldInvariant, NoticesRefineConference,
     IMasterInvariant, NobodyOrphanedCorrect, PTL DEF NoticesSpec

=============================================================================
