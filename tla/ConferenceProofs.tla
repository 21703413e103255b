-------------------------- MODULE ConferenceProofs --------------------------
(***************************************************************************)
(* What Conference keeps true in a conference of any size: how masters are *)
(* lost and users change hands, and the shape of the tree.                 *)
(***************************************************************************)
EXTENDS Conference, Numbers, FiniteSetTheorems, TLAPS

\* The slots are an initial segment of the naturals, and #0 is one of them.
LEMMA SlotFacts ==
  /\ 0 \in Slots /\ Size \in Nat
  /\ \A ix \in Slots : ix \in Nat /\ ix < Size
  /\ \A ix \in Nat : ix < Size => ix \in Slots
  BY SizeAssumption DEF Slots

\* The two halves of the type invariant: the users, and the loop serving them.
UsersOK ==
  /\ who \in SUBSET Slots
  /\ mstr \in [Slots -> Slots]
  /\ master \in SUBSET who /\ sub \in SUBSET who
  /\ priv \in SUBSET who /\ login \in SUBSET who
  /\ num \in Nat /\ max \in Nat
  /\ new \in Slots /\ newcon \in BOOLEAN

LoopOK ==
  /\ done \in BOOLEAN /\ turn \in 0 .. Size
  /\ op \in {"none", "kill", "killall", "norm"} /\ todo \in SUBSET Slots
  /\ phase \in {"run", "ended", "crashed"}
  /\ op # "none" => turn \in Slots     \* the command's issuer

users == <<who, mstr, roles, login, counts, new, newcon>>

LEMMA TypeHalves == UsersOK /\ LoopOK /\ cyclic \in BOOLEAN => TypeOK
  BY DEF TypeOK, UsersOK, LoopOK

\* The slots in use are a finite set, never larger than the table.
LEMMA WhoFinite ==
  ASSUME UsersOK
  PROVE  /\ IsFiniteSet(who) /\ Cardinality(who) \in Nat
         /\ Cardinality(who) <= Size
<1>1. IsFiniteSet(0 .. Size - 1) /\ Cardinality(0 .. Size - 1) = Size
  BY FS_Interval, SizeAssumption
<1>2. who \subseteq 0 .. Size - 1
  BY DEF UsersOK, Slots
<1> QED
  BY <1>1, <1>2, FS_Subset, FS_CardinalityType

\* The slot a newcomer takes has only used slots below it, so it is numbered
\* at most the number of users.
LEMMA FirstFreeBound ==
  ASSUME UsersOK, NEW np, FirstFree(np)
  PROVE  /\ np \in Slots /\ np \notin who
         /\ np <= Cardinality(who) /\ Cardinality(who) < Size
<1>1. np \in Slots /\ np \notin who /\ 0 .. np - 1 \subseteq who
  BY SizeAssumption DEF UsersOK, FirstFree, Slots
<1>2. IsFiniteSet(0 .. np - 1) /\ Cardinality(0 .. np - 1) = np
  <2>1. np \in Nat /\ 0 \in Int /\ np - 1 \in Int
    BY <1>1, SlotFacts
  <2>2. /\ IsFiniteSet(0 .. np - 1)
        /\ Cardinality(0 .. np - 1) = IF 0 > np - 1 THEN 0 ELSE (np - 1) - 0 + 1
    BY <2>1, FS_Interval
  <2> QED
    BY <2>1, <2>2
<1>3. np <= Cardinality(who)
  <2>1. IsFiniteSet(who) /\ 0 .. np - 1 \subseteq who
    BY <1>1, WhoFinite
  <2> QED
    BY <1>2, <2>1, FS_Subset
<1>4. Cardinality(who) < Size
  <2>1. IsFiniteSet(0 .. Size - 1) /\ Cardinality(0 .. Size - 1) = Size
    BY FS_Interval, SizeAssumption
  <2>2. who \subseteq 0 .. Size - 1 /\ who # 0 .. Size - 1
    BY <1>1 DEF UsersOK, Slots
  <2>3. Cardinality(who) # Cardinality(0 .. Size - 1)
    BY <2>1, <2>2, FS_Subset
  <2> QED
    BY <2>1, <2>3, WhoFinite, SizeAssumption
<1> QED
  BY <1>1, <1>3, <1>4

\* A departure keeps the tables well formed and the counters right.
LEMMA ExUserCounts ==
  ASSUME UsersOK, SlotsBelowMax, NEW k \in who, ExUser(k)
  PROVE  UsersOK' /\ SlotsBelowMax'
<1>1. Cardinality(who \ {k}) = Cardinality(who) - 1 /\ Cardinality(who) # 0
  BY WhoFinite, FS_RemoveElement, FS_EmptySet
<1>2. k \in Slots /\ mstr[k] \in Slots /\ mstr[mstr[k]] \in Slots
  BY DEF UsersOK
<1>3. mstr' \in [Slots -> Slots]
  BY <1>2, SlotFacts DEF UsersOK, ExUser, GivenMstr
<1>4. new' \in Slots
  BY <1>2 DEF UsersOK, ExUser, GivenNew
<1>5. num' \in Nat
  BY <1>1, WhoFinite DEF ExUser, SlotsBelowMax
<1>6. UsersOK'
  BY <1>3, <1>4, <1>5 DEF UsersOK, ExUser
<1>7. SlotsBelowMax'
  BY <1>1 DEF UsersOK, SlotsBelowMax, ExUser
<1> QED
  BY <1>6, <1>7

LEMMA QuietUsers ==
  ASSUME UsersOK, SlotsBelowMax, UNCHANGED users
  PROVE  UsersOK' /\ SlotsBelowMax'
  BY DEF UsersOK, SlotsBelowMax, users, roles, counts

LEMMA ConnectCounts ==
  ASSUME UsersOK, SlotsBelowMax, Connect
  PROVE  UsersOK' /\ SlotsBelowMax'
<1> PICK np \in Slots :
      /\ FirstFree(np)
      /\ who' = who \cup {np}
      /\ login' = login \cup {np}
      /\ master' = IF newcon THEN master \cup {np} ELSE master
      /\ new' = IF newcon THEN np ELSE new
      /\ mstr' = [mstr EXCEPT ![np] = new']
  BY DEF Connect
<1>1. /\ np \notin who /\ np <= Cardinality(who) /\ Cardinality(who) < Size
  BY FirstFreeBound
<1>2. Cardinality(who \cup {np}) = Cardinality(who) + 1
  BY <1>1, WhoFinite, FS_AddElement
<1>3. /\ newcon' = FALSE /\ num' = num + 1
      /\ max' = IF num' > max THEN num' ELSE max
      /\ UNCHANGED <<sub, priv, loop>>
  BY DEF Connect, StillNew
<1>4. UsersOK'
  <2>1. new' \in Slots /\ newcon' \in BOOLEAN
    BY <1>3 DEF UsersOK
  <2>2. mstr' \in [Slots -> Slots]
    BY <2>1 DEF UsersOK
  <2>3. /\ who' \in SUBSET Slots /\ master' \in SUBSET who'
        /\ login' \in SUBSET who'
    BY DEF UsersOK
  <2>4. sub' \in SUBSET who' /\ priv' \in SUBSET who'
    BY <1>3 DEF UsersOK
  <2>5. num' \in Nat /\ max' \in Nat
    BY <1>3 DEF UsersOK
  <2> QED
    BY <2>1, <2>2, <2>3, <2>4, <2>5 DEF UsersOK
<1>5. SlotsBelowMax'
  <2>1. num' = Cardinality(who')
    BY <1>2, <1>3 DEF SlotsBelowMax
  <2>2. max' >= max /\ max' >= Cardinality(who) + 1 /\ max' <= Size
    BY <1>1, <1>3, WhoFinite, SlotFacts DEF SlotsBelowMax, UsersOK
  <2>3. who' \subseteq 0 .. max' - 1
    BY <1>1, <1>3, <2>2, WhoFinite, SlotFacts DEF SlotsBelowMax, UsersOK
  <2> QED
    BY <2>1, <2>2, <2>3 DEF SlotsBelowMax
<1> QED
  BY <1>4, <1>5

\* Promotion, demotion and passing on change nothing the counters depend on.
LEMMA GivenTypes ==
  ASSUME UsersOK, NEW to \in Slots, NEW map \in SUBSET Slots
  PROVE  /\ GivenMstr(to, map) \in [Slots -> Slots]
         /\ GivenNew(to, map) \in Slots
  BY DEF UsersOK, GivenMstr, GivenNew

LEMMA ReturnedType ==
  ASSUME UsersOK, NEW k \in Slots
  PROVE  Returned(k) \in SUBSET Slots
  BY SlotFacts DEF UsersOK, Returned, NormalMap, Members

LEMMA CommandCounts ==
  ASSUME UsersOK, LoopOK, SlotsBelowMax, NEW u \in Slots, Command(u)
  PROVE  UsersOK' /\ SlotsBelowMax'
<1>1. CASE Bye(u)
  <2>1. CASE u \in master
    BY <1>1, <2>1, QuietUsers DEF Bye, users
  <2>2. CASE u \notin master
    <3>1. CASE Crash
      BY <3>1, QuietUsers DEF Crash, users
    <3>2. CASE ~Crash
      BY <1>1, <2>2, <3>2, ExUserCounts DEF Bye, Leave, Typing, Serving
    <3> QED
      BY <3>1, <3>2
  <2> QED
    BY <2>1, <2>2
<1>2. CASE TellAll(u)
  BY <1>2, QuietUsers DEF TellAll, Crash, users
<1>3. CASE Xyzzy(u)
  BY <1>3 DEF Xyzzy, Typing, Serving, UsersOK, SlotsBelowMax, counts
<1>4. CASE Xreset(u)
  BY <1>4, QuietUsers DEF Xreset, users
<1>5. ASSUME NEW to \in who, GiveNew(u, to)
      PROVE  UsersOK' /\ SlotsBelowMax'
  BY <1>5 DEF GiveNew, UsersOK, SlotsBelowMax, counts, roles
<1>6. ASSUME NEW map \in SUBSET who, Mty(u, map)
      PROVE  UsersOK' /\ SlotsBelowMax'
  BY <1>6 DEF Mty, UsersOK, SlotsBelowMax, counts
<1>7. ASSUME NEW map \in SUBSET who, Kill(u, map) \/ Norm(u, map)
      PROVE  UsersOK' /\ SlotsBelowMax'
  BY <1>7, QuietUsers DEF Kill, Norm, BeginLoop, users
<1>8. ASSUME NEW map \in SUBSET who, NEW to \in who, Give(u, to, map)
      PROVE  UsersOK' /\ SlotsBelowMax'
  <2>1. GivenMstr(to, map) \in [Slots -> Slots] /\ GivenNew(to, map) \in Slots
    BY GivenTypes DEF UsersOK
  <2> QED
    BY <1>8, <2>1 DEF Give, UsersOK, SlotsBelowMax, counts, roles
<1> QED
  BY <1>1, <1>2, <1>3, <1>4, <1>5, <1>6, <1>7, <1>8 DEF Command

LEMMA LoopStepCounts ==
  ASSUME UsersOK, LoopOK, SlotsBelowMax, NEW ix \in Slots,
         KillOne(ix) \/ NormOne(ix)
  PROVE  UsersOK' /\ SlotsBelowMax'
<1>1. CASE UNCHANGED users
  BY <1>1, QuietUsers
<1>2. CASE KillOne(ix) /\ ~UNCHANGED users
  BY <1>2, ExUserCounts DEF KillOne, Crash, Refuse, users
<1>3. CASE NormOne(ix) /\ ~UNCHANGED users
  <2>1. turn \in Slots
    BY <1>3 DEF NormOne, Refuse, users, UsersOK
  <2>2. /\ GivenMstr(turn, Returned(ix)) \in [Slots -> Slots]
        /\ GivenNew(turn, Returned(ix)) \in Slots
    BY <2>1, GivenTypes, ReturnedType
  <2> QED
    BY <1>3, <2>2 DEF NormOne, Refuse, users, UsersOK, SlotsBelowMax, counts
<1> QED
  BY <1>1, <1>2, <1>3

LEMMA UsersStep ==
  ASSUME UsersOK, LoopOK, SlotsBelowMax, [Next]_vars
  PROVE  UsersOK' /\ SlotsBelowMax'
<1>1. CASE UNCHANGED users
  BY <1>1, QuietUsers
<1>2. CASE Connect
  BY <1>2, ConnectCounts
<1>3. CASE Skip \/ LoopDone \/ EndPass
  BY <1>1, <1>3 DEF Skip, LoopDone, Refuse, EndPass, users
<1>4. ASSUME NEW u \in Slots, HangUp(u)
      PROVE  UsersOK' /\ SlotsBelowMax'
  BY <1>1, <1>4, ExUserCounts DEF HangUp, Crash, users, Serving
<1>5. ASSUME NEW u \in Slots, Login(u)
      PROVE  UsersOK' /\ SlotsBelowMax'
  <2>1. CASE Crash
    BY <1>1, <2>1 DEF Crash, users
  <2>2. CASE ~Crash
    BY <1>5, <2>2 DEF Login, UsersOK, SlotsBelowMax, roles, counts
  <2> QED
    BY <2>1, <2>2
<1>6. ASSUME NEW u \in Slots, Command(u)
      PROVE  UsersOK' /\ SlotsBelowMax'
  BY <1>6, CommandCounts
<1>7. ASSUME NEW ix \in Slots, KillOne(ix) \/ NormOne(ix)
      PROVE  UsersOK' /\ SlotsBelowMax'
  BY <1>7, LoopStepCounts
<1>8. CASE Restart
  <2>1. Cardinality({}) = 0
    BY FS_EmptySet
  <2> QED
    BY <1>8, <2>1, SlotFacts DEF Restart, UsersOK, SlotsBelowMax
<1>9. CASE UNCHANGED vars
  BY <1>1, <1>9 DEF vars, users, roles, counts
<1> QED
  BY <1>2, <1>3, <1>4, <1>5, <1>6, <1>7, <1>8, <1>9 DEF Next, Serve

-----------------------------------------------------------------------------
LEMMA NextSlot ==
  ASSUME LoopOK, turn \in Slots, turn' = turn + 1, op' = "none",
         done' \in BOOLEAN, todo' \in SUBSET Slots, UNCHANGED phase
  PROVE  LoopOK'
<1>1. turn' \in 0 .. Size
  BY SizeAssumption DEF Slots
<1> QED
  BY <1>1 DEF LoopOK

\* The loop index and the pending arguments stay in their ranges.
LEMMA LoopStep ==
  ASSUME UsersOK, LoopOK, SlotsBelowMax, [Next]_vars
  PROVE  LoopOK'
<1>1. CASE UNCHANGED loop
  BY <1>1 DEF LoopOK, loop
<1>2. CASE Connect
  BY <1>1, <1>2 DEF Connect
<1>3. CASE Skip \/ LoopDone \/ EndPass
  <2>1. CASE Skip
    <3>1. turn \in Slots
      BY <2>1, SizeAssumption DEF Skip, LoopOK, Slots
    <3> QED
      BY <2>1, <3>1, NextSlot DEF Skip, Looping, LoopOK
  <2>2. CASE EndPass
    BY <2>2, SizeAssumption DEF EndPass, Looping, LoopOK
  <2>3. CASE LoopDone
    BY <2>3, NextSlot DEF LoopDone, Refuse, LoopOK
  <2> QED
    BY <1>3, <2>1, <2>2, <2>3
<1>4. ASSUME NEW u \in Slots, HangUp(u) \/ Login(u)
      PROVE  LoopOK'
  <2>1. CASE Crash
    BY <2>1 DEF Crash, LoopOK
  <2>2. CASE ~Crash
    <3>1. /\ op' = "none" /\ todo' = todo /\ phase' = phase
          /\ turn \in Slots /\ turn' = turn + 1
      BY <1>4, <2>2 DEF HangUp, Login, Serving, Looping, Served
    <3>2. done' = (done \/ u \in master) \/ done' = done
      BY <1>4, <2>2 DEF HangUp, Login
    <3>3. done' \in BOOLEAN
      BY <3>2 DEF LoopOK
    <3> QED
      BY <3>1, <3>3, NextSlot DEF LoopOK
  <2> QED
    BY <2>1, <2>2
<1>6. ASSUME NEW u \in Slots, Command(u)
      PROVE  LoopOK'
  <2>1. CASE Crash
    BY <2>1 DEF Crash, LoopOK
  <2>2. CASE turn = u /\ Looping /\ Served /\ done' \in BOOLEAN
    BY <2>2, NextSlot DEF Looping, Served, LoopOK
  <2>3. ASSUME NEW map \in SUBSET who, Kill(u, map) \/ Norm(u, map)
        PROVE  LoopOK'
    <3>1. todo' \in SUBSET Slots
      BY <2>3 DEF Kill, Norm, BeginLoop, Members, UsersOK
    <3>2. turn \in Slots /\ op' \in {"kill", "killall", "norm"} /\ UNCHANGED <<done, turn, phase>>
      BY <2>3 DEF Kill, Norm, BeginLoop, Typing, Serving
    <3> QED
      BY <3>1, <3>2 DEF LoopOK
  <2>4. CASE Bye(u) \/ TellAll(u) \/ Xyzzy(u) \/ Xreset(u)
    BY <2>1, <2>2, <2>4
       DEF Bye, TellAll, Xyzzy, Xreset, Leave, Typing, Serving, LoopOK
  <2>5. CASE \E to \in who : GiveNew(u, to)
    BY <2>2, <2>5 DEF GiveNew, Typing, Serving, LoopOK
  <2>6. CASE \E map \in SUBSET who : Mty(u, map)
    BY <2>2, <2>6 DEF Mty, Typing, Serving, LoopOK
  <2>7. CASE \E map \in SUBSET who, to \in who : Give(u, to, map)
    BY <2>2, <2>7 DEF Give, Typing, Serving, LoopOK
  <2> QED
    BY <1>6, <2>3, <2>4, <2>5, <2>6, <2>7 DEF Command
<1>7. ASSUME NEW ix \in Slots, KillOne(ix) \/ NormOne(ix)
      PROVE  LoopOK'
  <2>1. turn \in Slots
    BY <1>7 DEF KillOne, NormOne, LoopOK
  <2>2. CASE Crash
    BY <2>2 DEF Crash, LoopOK
  <2>3. CASE Refuse
    BY <1>7, <2>1, <2>3, NextSlot DEF KillOne, NormOne, Refuse, LoopOK
  <2>4. CASE todo' = todo \ {ix} /\ UNCHANGED <<done, turn, op, phase>>
    BY <2>4 DEF LoopOK
  <2> QED
    BY <1>7, <2>2, <2>3, <2>4 DEF KillOne, NormOne
<1>8. CASE Restart
  <2>1. /\ done' = FALSE /\ turn' = 0 /\ op' = "none" /\ todo' = {}
        /\ phase' = "run"
    BY <1>8 DEF Restart
  <2>2. 0 \in 0 .. Size
    BY SizeAssumption
  <2> QED
    BY <2>1, <2>2 DEF LoopOK
<1>9. CASE UNCHANGED vars
  BY <1>1, <1>9 DEF vars, loop
<1> QED
  BY <1>2, <1>3, <1>4, <1>6, <1>7, <1>8, <1>9 DEF Next, Serve

-----------------------------------------------------------------------------
\* Nothing but GIVE and the start of a conference touches the history.
LEMMA CyclicCases ==
  ASSUME [Next]_vars
  PROVE  \/ UNCHANGED cyclic \/ Restart
         \/ \E u \in Slots, map \in SUBSET who, to \in who : Give(u, to, map)
<1>1. CASE Connect \/ Skip \/ LoopDone \/ EndPass \/ UNCHANGED vars
  BY <1>1 DEF Connect, Skip, LoopDone, Refuse, EndPass, vars
<1>2. ASSUME NEW u \in Slots, HangUp(u) \/ Login(u)
      PROVE  UNCHANGED cyclic
  BY <1>2 DEF HangUp, Login, Crash, ExUser
<1>3. ASSUME NEW u \in Slots, Command(u)
      PROVE  UNCHANGED cyclic \/ \E map \in SUBSET who, to \in who : Give(u, to, map)
  <2>1. CASE Bye(u) \/ TellAll(u) \/ Xyzzy(u) \/ Xreset(u)
    BY <2>1 DEF Bye, Leave, TellAll, Xyzzy, Xreset, Crash, ExUser
  <2>2. CASE \E to \in who : GiveNew(u, to)
    BY <2>2 DEF GiveNew
  <2>3. ASSUME NEW map \in SUBSET who, Mty(u, map) \/ Kill(u, map) \/ Norm(u, map)
        PROVE  UNCHANGED cyclic
    BY <2>3 DEF Mty, Kill, Norm, BeginLoop
  <2> QED
    BY <1>3, <2>1, <2>2, <2>3 DEF Command
<1>4. ASSUME NEW ix \in Slots, KillOne(ix) \/ NormOne(ix)
      PROVE  UNCHANGED cyclic
  BY <1>4 DEF KillOne, NormOne, Crash, Refuse, ExUser
<1> QED
  BY <1>1, <1>2, <1>3, <1>4 DEF Next, Serve

LEMMA CyclicStep ==
  ASSUME cyclic \in BOOLEAN, [Next]_vars
  PROVE  cyclic' \in BOOLEAN
<1>1. CASE UNCHANGED cyclic
  BY <1>1
<1>2. CASE Restart
  BY <1>2 DEF Restart
<1>3. ASSUME NEW u, NEW to, NEW map, Give(u, to, map)
      PROVE  cyclic' \in BOOLEAN
  <2>1. cyclic' = (cyclic \/ MakesLoop(to, map))
    BY <1>3 DEF Give
  <2> QED
    BY <2>1, Zenon
<1> QED
  BY <1>1, <1>2, <1>3, CyclicCases

IType == UsersOK /\ LoopOK /\ cyclic \in BOOLEAN /\ SlotsBelowMax

LEMMA ITypeInvariant == Spec => []IType
<1>1. Init => IType
  <2>1. Cardinality({}) = 0
    BY FS_EmptySet
  <2>2. 0 \in 0 .. Size
    BY SizeAssumption
  <2>3. Init => UsersOK
    BY SlotFacts DEF Init, UsersOK
  <2>4. Init => LoopOK
    BY <2>2 DEF Init, LoopOK
  <2>5. Init => SlotsBelowMax
    BY <2>1, SlotFacts DEF Init, SlotsBelowMax
  <2>6. Init => cyclic \in BOOLEAN
    BY DEF Init
  <2> QED
    BY <2>3, <2>4, <2>5, <2>6 DEF IType
<1>2. IType /\ [Next]_vars => IType'
  BY UsersStep, LoopStep, CyclicStep DEF IType
<1> QED
  BY <1>1, <1>2, PTL DEF Spec

\* Every variable has its type in every state of a conference of any size.
THEOREM TypeCorrect == Spec => []TypeOK
<1>1. IType => TypeOK
  BY TypeHalves DEF IType
<1> QED
  BY <1>1, ITypeInvariant, PTL

\* Users sit below cp->max and the counters count them, whatever commands
\* they type: the bound cmd_kill trusts instead of the size of the table.
THEOREM SlotsBelowMaxCorrect == Spec => []SlotsBelowMax
<1>1. IType => SlotsBelowMax
  BY DEF IType
<1> QED
  BY <1>1, ITypeInvariant, PTL

-----------------------------------------------------------------------------
(***************************************************************************)
(* The master is #0.  Only con_newuser sets MASTER_FLG, for the first user *)
(* of an empty table; nobody's command reaches the mstr or the SUBMST_FLG  *)
(* of somebody who is his own master.                                      *)
(***************************************************************************)
IMaster == IType /\ MasterIsZero

LEMMA ZeroNotGiven ==
  ASSUME UsersOK, NEW to, NEW map
  PROVE  GivenMstr(to, map)[0] = mstr[0]
  BY SlotFacts DEF GivenMstr

LEMMA ExUserMaster ==
  ASSUME IMaster, NEW k \in who, ExUser(k)
  PROVE  MasterIsZero'
<1>1. 0 \in master' => mstr'[0] = mstr[0] /\ k # 0
  <2>1. k # 0 => mstr'[0] = GivenMstr(mstr[k], Returned(k))[0]
    BY SlotFacts DEF ExUser, GivenMstr
  <2> QED
    BY <2>1, ZeroNotGiven DEF ExUser, IMaster, IType
<1> QED
  BY <1>1 DEF ExUser, MasterIsZero, IMaster

LEMMA ConnectMaster ==
  ASSUME IMaster, Connect
  PROVE  MasterIsZero'
<1> PICK np \in Slots :
      /\ FirstFree(np)
      /\ who' = who \cup {np}
      /\ login' = login \cup {np}
      /\ master' = IF newcon THEN master \cup {np} ELSE master
      /\ new' = IF newcon THEN np ELSE new
      /\ mstr' = [mstr EXCEPT ![np] = new']
  BY DEF Connect
<1>1. newcon' = FALSE /\ sub' = sub
  BY DEF Connect, StillNew
<1>2. CASE newcon
  <2>1. who = {} /\ master = {} /\ sub = {}
    BY <1>2 DEF IMaster, IType, UsersOK, MasterIsZero
  <2>2. np = 0
    BY <2>1, SlotFacts DEF FirstFree
  <2>3. mstr'[0] = 0
    BY <1>2, <2>2 DEF IMaster, IType, UsersOK
  <2> QED
    BY <1>1, <1>2, <2>1, <2>2, <2>3 DEF MasterIsZero
<1>3. CASE ~newcon
  <2>1. 0 \in master => np # 0
    BY DEF FirstFree, IMaster, IType, UsersOK
  <2> QED
    BY <1>1, <1>3, <2>1 DEF IMaster, IType, UsersOK, MasterIsZero
<1> QED
  BY <1>2, <1>3

LEMMA QuietMaster ==
  ASSUME MasterIsZero, UNCHANGED <<who, mstr, master, sub, newcon>>
  PROVE  MasterIsZero'
  BY DEF MasterIsZero

LEMMA CommandMaster ==
  ASSUME IMaster, NEW u \in Slots, Command(u)
  PROVE  MasterIsZero'
<1> USE DEF IMaster
<1>1. CASE UNCHANGED <<who, mstr, master, sub, newcon>>
  BY <1>1, QuietMaster
<1>2. CASE Bye(u)
  <2>1. CASE ExUser(u)
    BY <1>2, <2>1, ExUserMaster DEF Bye, Typing, Serving
  <2>2. CASE ~ExUser(u)
    BY <1>1, <1>2, <2>2 DEF Bye, Leave, Crash, roles
  <2> QED
    BY <2>1, <2>2
<1>3. CASE TellAll(u) \/ Xyzzy(u) \/ Xreset(u) \/ \E to \in who : GiveNew(u, to)
  BY <1>1, <1>3 DEF TellAll, Crash, Xyzzy, Xreset, GiveNew, roles
<1>4. ASSUME NEW map \in SUBSET who, Mty(u, map)
      PROVE  MasterIsZero'
  <2>1. 0 \in master => 0 \notin sub'
    BY <1>4 DEF Mty, MasterIsZero
  <2> QED
    BY <1>4, <2>1 DEF Mty, MasterIsZero
<1>5. ASSUME NEW map \in SUBSET who, Kill(u, map) \/ Norm(u, map)
      PROVE  MasterIsZero'
  BY <1>1, <1>5 DEF Kill, Norm, BeginLoop, roles
<1>6. ASSUME NEW map \in SUBSET who, NEW to \in who, Give(u, to, map)
      PROVE  MasterIsZero'
  <2>1. mstr'[0] = mstr[0]
    BY <1>6, ZeroNotGiven DEF Give, IType
  <2> QED
    BY <1>6, <2>1 DEF Give, MasterIsZero, roles
<1> QED
  BY <1>2, <1>3, <1>4, <1>5, <1>6 DEF Command

LEMMA MasterStep ==
  ASSUME IMaster, [Next]_vars
  PROVE  MasterIsZero'
<1>1. CASE UNCHANGED <<who, mstr, master, sub, newcon>>
  BY <1>1, QuietMaster DEF IMaster
<1>2. CASE Connect
  BY <1>2, ConnectMaster
<1>3. CASE Skip \/ LoopDone \/ EndPass
  BY <1>1, <1>3 DEF Skip, LoopDone, Refuse, EndPass, roles
<1>4. ASSUME NEW u \in Slots, HangUp(u) \/ Login(u)
      PROVE  MasterIsZero'
  <2>1. CASE ExUser(u)
    BY <1>4, <2>1, ExUserMaster DEF HangUp, Login, Serving
  <2>2. CASE ~ExUser(u)
    BY <1>1, <1>4, <2>2 DEF HangUp, Login, Crash, roles
  <2> QED
    BY <2>1, <2>2
<1>5. ASSUME NEW u \in Slots, Command(u)
      PROVE  MasterIsZero'
  BY <1>5, CommandMaster
<1>6. ASSUME NEW ix \in Slots, KillOne(ix)
      PROVE  MasterIsZero'
  <2>1. CASE ix \in who /\ ExUser(ix)
    BY <2>1, ExUserMaster
  <2>2. CASE ~(ix \in who /\ ExUser(ix))
    BY <1>1, <1>6, <2>2 DEF KillOne, Crash, Refuse, roles
  <2> QED
    BY <2>1, <2>2
<1>7. ASSUME NEW ix \in Slots, NormOne(ix)
      PROVE  MasterIsZero'
  <2>1. CASE Refuse
    BY <1>1, <2>1 DEF Refuse, roles
  <2>2. CASE ~Refuse
    <3>1. mstr'[0] = mstr[0]
      BY <1>7, <2>2, ZeroNotGiven DEF NormOne, IMaster, IType
    <3>2. UNCHANGED <<who, master, newcon>> /\ sub' = sub \ {ix}
      BY <1>7, <2>2 DEF NormOne
    <3> QED
      BY <3>1, <3>2 DEF MasterIsZero, IMaster
  <2> QED
    BY <2>1, <2>2
<1>8. CASE Restart
  BY <1>8 DEF Restart, MasterIsZero
<1>9. CASE UNCHANGED vars
  BY <1>1, <1>9 DEF vars, roles
<1> QED
  BY <1>2, <1>3, <1>4, <1>5, <1>6, <1>7, <1>8, <1>9 DEF Next, Serve

LEMMA IMasterInvariant == Spec => []IMaster
<1>1. Init => MasterIsZero
  BY DEF Init, MasterIsZero
<1>2. IType /\ MasterIsZero /\ [Next]_vars => MasterIsZero'
  BY MasterStep DEF IMaster
<1>3. IType /\ MasterIsZero <=> IMaster
  BY DEF IMaster
<1> QED
  BY <1>1, <1>2, <1>3, ITypeInvariant, PTL DEF Spec

\* No sequence of commands makes a second master, moves the master from slot 0
\* or puts him under somebody else.
THEOREM MasterIsZeroCorrect == Spec => []MasterIsZero
<1>1. IMaster => MasterIsZero
  BY DEF IMaster
<1> QED
  BY <1>1, IMasterInvariant, PTL

-----------------------------------------------------------------------------
(***************************************************************************)
(* Nobody is orphaned.  The property is not inductive: if masters could go *)
(* round in a ring, a departure would hand users to somebody who is        *)
(* leaving.  A rank that grows from master to member rules rings out.      *)
(***************************************************************************)
Ordered(rank) ==
  /\ \A u \in who : mstr[u] \in who /\ Leads(mstr[u])
  /\ \A u \in who \ {0} : rank[mstr[u]] < rank[u]
  /\ new \in who /\ Leads(new)

Ranks == [Slots -> Nat]

IOwner == 0 \in master => \E rank \in Ranks : Ordered(rank)

LEMMA QuietOwner ==
  ASSUME IOwner, UNCHANGED <<who, mstr, master, sub, new>>
  PROVE  IOwner'
  BY DEF IOwner, Ordered, Leads

\* What returns when k loses his command goes to k's own master, below whom
\* k's members already were.
LEMMA HandBack ==
  ASSUME IMaster, NEW rank \in Ranks, Ordered(rank), 0 \in master,
         NEW k \in who \ {0},
         \A u \in who \ {k} : mstr'[u] = GivenMstr(mstr[k], Returned(k))[u],
         new' = GivenNew(mstr[k], Returned(k)),
         sub' = sub \ {k}, master' = master
  PROVE  /\ \A u \in who \ {k} :
              /\ mstr'[u] \in (who \ {k}) \cap (master' \cup sub')
              /\ u # 0 => rank[mstr'[u]] < rank[u]
         /\ new' \in (who \ {k}) \cap (master' \cup sub')
<1> USE DEF IMaster, IType, UsersOK, Ranks
<1> DEFINE Leading == (who \ {k}) \cap (master' \cup sub')
<1>0. /\ k \in Slots /\ k # 0 /\ k \in who
      /\ mstr[0] = 0 /\ 0 \in who /\ master = {0}
  BY DEF MasterIsZero
<1>1. mstr[k] \in who /\ Leads(mstr[k]) /\ rank[mstr[k]] < rank[k]
  BY <1>0 DEF Ordered
<1>2. mstr[k] # k /\ rank[k] \in Nat /\ rank[mstr[k]] \in Nat
  <2>1. rank[k] \in Nat /\ rank[mstr[k]] \in Nat
    BY <1>0, <1>1
  <2> QED
    BY <1>1, <2>1
<1>3. Leads(k) <=> k \in sub
  BY <1>0 DEF Leads
<1>4. \A v \in who : Leads(v) /\ v # k => v \in Leading
  BY DEF Leads
<1>5. ASSUME NEW u \in who \ {k}
      PROVE  mstr'[u] \in Leading /\ (u # 0 => rank[mstr'[u]] < rank[u])
  <2>1. CASE mstr[u] = k
    <3>1. k \in sub /\ u # 0 /\ u \in Returned(k)
      BY <1>0, <1>3, <2>1 DEF Ordered, Returned, NormalMap, Members
    <3>2. mstr'[u] = mstr[k]
      BY <3>1 DEF GivenMstr
    <3>3. rank[k] < rank[u] /\ rank[u] \in Nat
      BY <2>1, <3>1 DEF Ordered
    <3>4. rank[mstr[k]] < rank[u]
      BY <1>1, <1>2, <3>3
    <3> QED
      BY <1>1, <1>2, <1>4, <3>2, <3>4
  <2>2. CASE mstr[u] # k
    <3>1. u \notin Returned(k) \ {0}
      BY <2>2 DEF Returned, NormalMap, Members
    <3>2. mstr'[u] = mstr[u]
      BY <3>1 DEF GivenMstr
    <3>3. mstr[u] \in who /\ Leads(mstr[u]) /\ (u # 0 => rank[mstr[u]] < rank[u])
      BY DEF Ordered
    <3> QED
      BY <1>4, <2>2, <3>2, <3>3
  <2> QED
    BY <2>1, <2>2
<1>6. new' \in Leading
  <2>1. CASE new = k
    <3>1. new' = mstr[mstr[k]]
      BY <1>3, <2>1 DEF Ordered, GivenNew, Returned, NormalMap
    <3>2. mstr[mstr[k]] \in who /\ Leads(mstr[mstr[k]])
      BY <1>1 DEF Ordered
    <3>3. mstr[mstr[k]] # k
      <4>1. CASE mstr[k] = 0
        BY <1>0, <4>1
      <4>2. CASE mstr[k] # 0
        <5>1. rank[mstr[mstr[k]]] < rank[mstr[k]]
          BY <1>1, <4>2 DEF Ordered
        <5>2. rank[mstr[mstr[k]]] \in Nat
          BY <3>2
        <5> QED
          BY <1>1, <1>2, <5>1, <5>2
      <4> QED
        BY <4>1, <4>2
    <3> QED
      BY <1>4, <3>1, <3>2, <3>3
  <2>2. CASE new # k
    <3>1. 0 \notin Returned(k)
      BY <1>0, <2>2 DEF Returned, NormalMap, Members
    <3>2. new' = new
      BY <3>1 DEF GivenNew
    <3> QED
      BY <1>4, <2>2, <3>2 DEF Ordered
  <2> QED
    BY <2>1, <2>2
<1> QED
  BY <1>5, <1>6

LEMMA ConnectOwner ==
  ASSUME IMaster, IOwner, Connect
  PROVE  IOwner'
<1> PICK np \in Slots :
      /\ FirstFree(np)
      /\ who' = who \cup {np}
      /\ login' = login \cup {np}
      /\ master' = IF newcon THEN master \cup {np} ELSE master
      /\ new' = IF newcon THEN np ELSE new
      /\ mstr' = [mstr EXCEPT ![np] = new']
  BY DEF Connect
<1> USE DEF IMaster, IType, UsersOK
<1>1. sub' = sub /\ np \notin who
  BY DEF Connect, FirstFree
<1>2. CASE newcon
  <2>1. who' = {np} /\ master' = {np} /\ new' = np /\ mstr'[np] = np
    BY <1>2 DEF MasterIsZero
  <2> DEFINE flat == [ix \in Slots |-> 0]
  <2>2. 0 \in master' => np = 0
    BY <2>1
  <2>3. flat \in Ranks
    BY DEF Ranks
  <2>4. 0 \in master' => Ordered(flat)'
    BY <2>1, <2>2 DEF Ordered, Leads
  <2> QED
    BY <2>3, <2>4 DEF IOwner
<1>3. CASE ~newcon /\ 0 \in master
  <2> PICK rank \in Ranks : Ordered(rank)
    BY <1>3 DEF IOwner
  <2>1. rank[new] \in Nat /\ new \in who /\ Leads(new) /\ new # np
    BY <1>1 DEF Ordered, Ranks
  <2> PICK below \in Ranks : below = [rank EXCEPT ![np] = rank[new] + 1]
    <3>1. rank[new] + 1 \in Nat
      BY <2>1
    <3>2. [rank EXCEPT ![np] = rank[new] + 1] \in Ranks
      BY <3>1 DEF Ranks
    <3> QED
      BY <3>2
  <2>2. below[np] = rank[new] + 1
    BY DEF Ranks
  <2>3. \A v \in who : below[v] = rank[v]
    BY <1>1 DEF Ranks
  <2>4. new' = new /\ master' = master
    BY <1>3
  <2>5. \A v \in who : mstr'[v] = mstr[v] /\ mstr[v] \in who /\ Leads(mstr[v])
    BY <1>1 DEF Ordered
  <2>6. mstr'[np] = new
    BY <2>4
  <2>7. \A v \in who' : mstr'[v] \in who' /\ mstr'[v] \in master' \cup sub'
    BY <1>1, <2>1, <2>4, <2>5, <2>6 DEF Leads
  <2>8. \A v \in who' \ {0} : below[mstr'[v]] < below[v]
    <3>1. below[mstr'[np]] < below[np]
      BY <2>1, <2>2, <2>3, <2>6
    <3>2. \A v \in who \ {0} : below[mstr'[v]] < below[v]
      BY <2>3, <2>5 DEF Ordered
    <3> QED
      BY <3>1, <3>2
  <2>9. new' \in who' /\ new' \in master' \cup sub'
    BY <1>1, <2>1, <2>4 DEF Leads
  <2>10. Ordered(below)'
    BY <2>7, <2>8, <2>9 DEF Ordered, Leads
  <2> QED
    BY <2>10 DEF IOwner
<1>4. CASE ~newcon /\ 0 \notin master
  BY <1>4 DEF IOwner
<1> QED
  BY <1>2, <1>3, <1>4

LEMMA ExUserOwner ==
  ASSUME IMaster, IOwner, NEW k \in who, ExUser(k)
  PROVE  IOwner'
<1> USE DEF IMaster, IType, UsersOK
<1> SUFFICES ASSUME 0 \in master'
             PROVE  \E rank \in Ranks : Ordered(rank)'
  BY DEF IOwner
<1>1. master' = master /\ 0 \in master /\ k \in who \ {0}
  BY DEF ExUser, MasterIsZero
<1> PICK rank \in Ranks : Ordered(rank)
  BY <1>1 DEF IOwner
<1>2. /\ \A u \in who \ {k} : mstr'[u] = GivenMstr(mstr[k], Returned(k))[u]
      /\ new' = GivenNew(mstr[k], Returned(k)) /\ sub' = sub \ {k}
      /\ who' = who \ {k}
  BY DEF ExUser, GivenMstr
<1>3. /\ \A u \in who \ {k} :
           /\ mstr'[u] \in (who \ {k}) \cap (master' \cup sub')
           /\ u # 0 => rank[mstr'[u]] < rank[u]
      /\ new' \in (who \ {k}) \cap (master' \cup sub')
  BY <1>1, <1>2, HandBack
<1>4. Ordered(rank)'
  BY <1>2, <1>3 DEF Ordered, Leads
<1> QED
  BY <1>4

LEMMA NormOneOwner ==
  ASSUME IMaster, IOwner, NEW k \in Slots, mstr[k] = turn,
         mstr' = GivenMstr(turn, Returned(k)), new' = GivenNew(turn, Returned(k)),
         sub' = sub \ {k}, UNCHANGED <<who, master>>
  PROVE  IOwner'
<1> USE DEF IMaster, IType, UsersOK
<1>1. CASE k \notin sub \/ 0 \notin master
  <2>1. 0 \in master => UNCHANGED <<who, mstr, master, sub, new>>
    BY <1>1 DEF Returned, GivenMstr, GivenNew
  <2> QED
    BY <2>1, QuietOwner DEF IOwner
<1>2. CASE k \in sub /\ 0 \in master
  <2> PICK rank \in Ranks : Ordered(rank)
    BY <1>2 DEF IOwner
  <2>1. k \in who \ {0}
    BY <1>2 DEF MasterIsZero
  <2>2. /\ \A u \in who \ {k} :
             /\ mstr'[u] \in (who \ {k}) \cap (master' \cup sub')
             /\ u # 0 => rank[mstr'[u]] < rank[u]
        /\ new' \in (who \ {k}) \cap (master' \cup sub')
    BY <1>2, <2>1, HandBack
  <2>3. mstr[k] \in who /\ Leads(mstr[k]) /\ rank[mstr[k]] < rank[k]
    BY <2>1 DEF Ordered
  <2>4. rank[k] \in Nat
    BY DEF Ranks
  <2>5. mstr[k] # k
    BY <2>3, <2>4
  <2>6. mstr'[k] = mstr[k]
    BY <2>1, <2>5 DEF GivenMstr, Returned, NormalMap, Members
  <2>7. mstr'[k] \in who /\ mstr'[k] \in master' \cup sub'
    BY <2>3, <2>5, <2>6 DEF Leads
  <2>8. who' = who
    OBVIOUS
  <2>9. \A u \in who' : mstr'[u] \in who' /\ mstr'[u] \in master' \cup sub'
    BY <2>2, <2>7, <2>8
  <2>10. \A u \in who' \ {0} : rank[mstr'[u]] < rank[u]
    BY <2>2, <2>3, <2>6, <2>8
  <2>11. new' \in who' /\ new' \in master' \cup sub'
    BY <2>2, <2>8
  <2>12. Ordered(rank)'
    BY <2>9, <2>10, <2>11 DEF Ordered, Leads
  <2> QED
    BY <2>12 DEF IOwner
<1> QED
  BY <1>1, <1>2

\* Users passed on take everybody below them along.  The receiver is not among
\* these, so all of them can be ranked below him.
LEMMA GiveOwner ==
  ASSUME IMaster, IOwner, ~cyclic',
         NEW u \in Slots, NEW map \in SUBSET who, NEW to \in who,
         Give(u, to, map)
  PROVE  IOwner'
<1> USE DEF IMaster, IType, UsersOK
<1>1. CASE 0 \notin master
  BY <1>1 DEF Give, IOwner, roles
<1>2. CASE 0 \in master
  <2> PICK rank \in Ranks : Ordered(rank)
    BY <1>2 DEF IOwner
  <2>1. ~MakesLoop(to, map) /\ Leads(to)
    <3>1. cyclic' = (cyclic \/ MakesLoop(to, map)) /\ Leads(to)
      BY DEF Give
    <3> QED
      BY <3>1, Zenon
  <2> PICK T \in SUBSET who :
        /\ map \subseteq T
        /\ to \notin T
        /\ \A ix \in who \ map : ix \in T <=> mstr[ix] \in T
    BY <2>1 DEF MakesLoop
  <2>2. 0 \notin map
    BY <1>2 DEF Give, MasterIsZero
  <2>3. /\ \A ix \in map : mstr'[ix] = to
        /\ \A ix \in who \ map : mstr'[ix] = mstr[ix]
        /\ new' = new /\ UNCHANGED <<who, master, sub>>
    BY <2>2 DEF Give, GivenMstr, GivenNew, roles
  <2> DEFINE lower == [x \in Slots |-> IF x \in T THEN rank[x] + rank[to] + 1
                                                  ELSE rank[x]]
  <2>4. /\ \A x \in Slots : rank[x] \in Nat
        /\ to \in Slots /\ T \subseteq Slots /\ map \subseteq Slots
    BY DEF Ranks
  <2>5. lower \in Ranks
    BY <2>4 DEF Ranks
  <2>6. \A v \in who : mstr[v] \in who /\ Leads(mstr[v])
    BY DEF Ordered
  <2>7. \A v \in who : mstr'[v] \in who' /\ mstr'[v] \in master' \cup sub'
    BY <2>1, <2>3, <2>6 DEF Leads
  <2>8. ASSUME NEW v \in who \ {0}
        PROVE  lower[mstr'[v]] < lower[v]
    <3>1. v \in Slots /\ mstr[v] \in Slots /\ rank[v] \in Nat
          /\ rank[mstr[v]] \in Nat /\ rank[to] \in Nat
      BY <2>4
    <3>2. rank[mstr[v]] < rank[v]
      BY DEF Ordered
    <3>3. CASE v \in map
      <4>1. lower[v] = rank[v] + rank[to] + 1 /\ lower[mstr'[v]] = rank[to]
        BY <2>3, <2>4, <3>1, <3>3
      <4> QED
        BY <3>1, <4>1
    <3>4. CASE v \in T \ map
      <4>1. mstr'[v] = mstr[v] /\ mstr[v] \in T
        BY <2>3, <3>4
      <4>2. /\ lower[v] = rank[v] + rank[to] + 1
            /\ lower[mstr'[v]] = rank[mstr[v]] + rank[to] + 1
        BY <3>1, <3>4, <4>1
      <4> QED
        BY <3>1, <3>2, <4>2
    <3>5. CASE v \notin T
      <4>1. mstr'[v] = mstr[v] /\ mstr[v] \notin T
        BY <2>3, <3>5
      <4>2. lower[v] = rank[v] /\ lower[mstr'[v]] = rank[mstr[v]]
        BY <3>1, <3>5, <4>1
      <4> QED
        BY <3>2, <4>2
    <3> QED
      BY <3>3, <3>4, <3>5
  <2>9. new' \in who' /\ new' \in master' \cup sub'
    BY <2>3 DEF Ordered, Leads
  <2>10. Ordered(lower)'
    BY <2>3, <2>7, <2>8, <2>9 DEF Ordered, Leads
  <2> QED
    BY <2>5, <2>10 DEF IOwner
<1> QED
  BY <1>1, <1>2

LEMMA CommandOwner ==
  ASSUME IMaster, IOwner, ~cyclic', NEW u \in Slots, Command(u)
  PROVE  IOwner'
<1>1. CASE UNCHANGED <<who, mstr, master, sub, new>>
  BY <1>1, QuietOwner
<1>2. CASE Bye(u)
  <2>1. CASE ExUser(u)
    BY <1>2, <2>1, ExUserOwner DEF Bye, Typing, Serving
  <2>2. CASE ~ExUser(u)
    BY <1>1, <1>2, <2>2 DEF Bye, Leave, Crash, roles
  <2> QED
    BY <2>1, <2>2
<1>3. CASE TellAll(u) \/ Xyzzy(u) \/ Xreset(u)
  BY <1>1, <1>3 DEF TellAll, Crash, Xyzzy, Xreset, roles
<1>4. ASSUME NEW to \in who, GiveNew(u, to)
      PROVE  IOwner'
  <2>1. Leads(to) /\ new' = to /\ UNCHANGED <<who, mstr, master, sub>>
    BY <1>4 DEF GiveNew, roles
  <2>2. \A rank \in Ranks : Ordered(rank) => Ordered(rank)'
    BY <2>1 DEF Ordered, Leads
  <2> QED
    BY <2>1, <2>2 DEF IOwner
<1>5. ASSUME NEW map \in SUBSET who, Mty(u, map)
      PROVE  IOwner'
  <2>1. sub \subseteq sub' /\ UNCHANGED <<who, mstr, master, new>>
    BY <1>5 DEF Mty
  <2>2. \A rank \in Ranks : Ordered(rank) => Ordered(rank)'
    BY <2>1 DEF Ordered, Leads
  <2> QED
    BY <2>1, <2>2 DEF IOwner
<1>6. ASSUME NEW map \in SUBSET who, Kill(u, map) \/ Norm(u, map)
      PROVE  IOwner'
  BY <1>1, <1>6 DEF Kill, Norm, BeginLoop, roles
<1>7. ASSUME NEW map \in SUBSET who, NEW to \in who, Give(u, to, map)
      PROVE  IOwner'
  BY <1>7, GiveOwner
<1> QED
  BY <1>2, <1>3, <1>4, <1>5, <1>6, <1>7 DEF Command

LEMMA OwnerStep ==
  ASSUME IMaster, IOwner, ~cyclic', [Next]_vars
  PROVE  IOwner'
<1>1. CASE UNCHANGED <<who, mstr, master, sub, new>>
  BY <1>1, QuietOwner
<1>2. CASE Connect
  BY <1>2, ConnectOwner
<1>3. CASE Skip \/ LoopDone \/ EndPass
  BY <1>1, <1>3 DEF Skip, LoopDone, Refuse, EndPass, roles
<1>4. ASSUME NEW u \in Slots, HangUp(u) \/ Login(u)
      PROVE  IOwner'
  <2>1. CASE ExUser(u)
    BY <1>4, <2>1, ExUserOwner DEF HangUp, Login, Serving
  <2>2. CASE ~ExUser(u)
    BY <1>1, <1>4, <2>2 DEF HangUp, Login, Crash, roles
  <2> QED
    BY <2>1, <2>2
<1>5. ASSUME NEW u \in Slots, Command(u)
      PROVE  IOwner'
  BY <1>5, CommandOwner
<1>6. ASSUME NEW ix \in Slots, KillOne(ix)
      PROVE  IOwner'
  <2>1. CASE ix \in who /\ ExUser(ix)
    BY <2>1, ExUserOwner
  <2>2. CASE ~(ix \in who /\ ExUser(ix))
    BY <1>1, <1>6, <2>2 DEF KillOne, Crash, Refuse, roles
  <2> QED
    BY <2>1, <2>2
<1>7. ASSUME NEW ix \in Slots, NormOne(ix)
      PROVE  IOwner'
  <2>1. CASE Refuse
    BY <1>1, <2>1 DEF Refuse, roles
  <2>2. CASE ~Refuse
    BY <1>7, <2>2, NormOneOwner DEF NormOne
  <2> QED
    BY <2>1, <2>2
<1>8. CASE Restart
  BY <1>8 DEF Restart, IOwner
<1>9. CASE UNCHANGED vars
  BY <1>1, <1>9 DEF vars, roles
<1> QED
  BY <1>2, <1>3, <1>4, <1>5, <1>6, <1>7, <1>8, <1>9 DEF Next, Serve

\* Only a new conference forgets that a GIVE has made somebody his own
\* superior.
LEMMA CyclicStays ==
  ASSUME cyclic, [Next]_vars, ~Restart
  PROVE  cyclic'
<1>1. CASE UNCHANGED cyclic
  BY <1>1, Zenon
<1>2. ASSUME NEW u, NEW to, NEW map, Give(u, to, map)
      PROVE  cyclic'
  <2>1. cyclic' = (cyclic \/ MakesLoop(to, map))
    BY <1>2 DEF Give
  <2> QED
    BY <2>1, Zenon
<1> QED
  BY <1>1, <1>2, CyclicCases

ITree == ~cyclic => IOwner

LEMMA ITreeInvariant == Spec => []ITree
<1>1. Init => ITree
  BY DEF Init, IOwner, ITree
<1>2. IMaster /\ ITree /\ [Next]_vars => ITree'
  <2> SUFFICES ASSUME IMaster, ITree, [Next]_vars, ~cyclic'
               PROVE  IOwner'
    BY DEF ITree
  <2>1. CASE Restart
    BY <2>1 DEF Restart, IOwner
  <2>2. CASE ~Restart
    BY <2>2, CyclicStays, OwnerStep DEF ITree
  <2> QED
    BY <2>1, <2>2
<1> QED
  BY <1>1, <1>2, IMasterInvariant, PTL DEF Spec

\* Until somebody is passed on to a user below him, nobody is ever left with
\* a master who is gone, demoted or himself, while #0 is connected.
THEOREM NobodyOrphanedCorrect == Spec => []NobodyOrphaned
<1>1. IMaster /\ ITree => NobodyOrphaned
  <2> SUFFICES ASSUME IMaster, IOwner, 0 \in master
               PROVE  /\ \A u \in who : mstr[u] \in who /\ Leads(mstr[u])
                      /\ \A u \in who \ {0} : mstr[u] # u
                      /\ new \in who /\ Leads(new)
    BY DEF NobodyOrphaned, ITree
  <2> PICK rank \in Ranks : Ordered(rank)
    BY DEF IOwner
  <2>1. \A u \in who : rank[u] \in Nat
    BY DEF Ranks, IMaster, IType, UsersOK
  <2>2. \A u \in who \ {0} : mstr[u] # u
    BY <2>1 DEF Ordered
  <2> QED
    BY <2>2 DEF Ordered
<1> QED
  BY <1>1, IMasterInvariant, ITreeInvariant, PTL

-----------------------------------------------------------------------------
(***************************************************************************)
(* Every NULL dereference follows the mstr of a connected user, except the *)
(* one in the loop of KILL: over the users listed when it began, or over   *)
(* all slots below max, taken or not.                                      *)
(***************************************************************************)
IVictims == op = "kill" => todo \subseteq who

LEMMA VictimsStep ==
  ASSUME IMaster, IVictims, [Next]_vars
  PROVE  IVictims'
<1>1. CASE op' # "kill"
  BY <1>1 DEF IVictims
<1>2. CASE UNCHANGED <<op, todo, who>>
  BY <1>2 DEF IVictims
<1>3. ASSUME NEW u \in Slots, NEW map \in SUBSET who, Kill(u, map)
      PROVE  IVictims'
  <2>1. CASE map = {}
    BY <1>1, <1>3, <2>1 DEF Kill, BeginLoop
  <2>2. CASE map # {}
    BY <1>3, <2>2 DEF Kill, BeginLoop, IVictims
  <2> QED
    BY <2>1, <2>2
<1>4. ASSUME NEW ix \in Slots, KillOne(ix)
      PROVE  IVictims'
  <2>1. CASE Crash \/ Refuse
    BY <1>1, <1>2, <2>1 DEF Crash, Refuse
  <2>2. CASE ~Crash /\ ~Refuse
    <3>1. who' = who \ {ix} /\ todo' = todo \ {ix} /\ op' = op
      BY <1>4, <2>2 DEF KillOne, ExUser
    <3> QED
      BY <3>1 DEF IVictims
  <2> QED
    BY <2>1, <2>2
<1>5. CASE UNCHANGED <<op, todo>> /\ (op # "kill" \/ who \subseteq who')
  BY <1>5 DEF IVictims
<1>6. ASSUME NEW ix \in Slots, NormOne(ix)
      PROVE  IVictims'
  BY <1>1, <1>6 DEF NormOne, Refuse
<1>7. CASE Connect \/ Skip \/ LoopDone \/ EndPass \/ Restart
  BY <1>1, <1>7 DEF Connect, Skip, Looping, LoopDone, Refuse, EndPass, Restart,
                    loop
<1>8. ASSUME NEW u \in Slots, HangUp(u) \/ Login(u)
      PROVE  IVictims'
  BY <1>2, <1>5, <1>8 DEF HangUp, Login, Crash, Serving, Looping, Served
<1>9. ASSUME NEW u \in Slots, Command(u)
      PROVE  IVictims'
  <2>1. CASE Bye(u) \/ TellAll(u) \/ Xyzzy(u) \/ Xreset(u)
    BY <1>2, <1>5, <2>1 DEF Bye, Leave, TellAll, Xyzzy, Xreset, Crash, Typing,
                            Serving, Looping, Served
  <2>2. CASE \E to \in who : GiveNew(u, to)
    BY <1>5, <2>2 DEF GiveNew, Typing, Serving, Looping, Served
  <2>3. ASSUME NEW map \in SUBSET who, Mty(u, map) \/ Norm(u, map)
        PROVE  IVictims'
    BY <1>1, <1>5, <2>3 DEF Mty, Norm, BeginLoop, Typing, Serving, Looping, Served
  <2>4. ASSUME NEW map \in SUBSET who, NEW to \in who, Give(u, to, map)
        PROVE  IVictims'
    BY <1>5, <2>4 DEF Give, Typing, Serving, Looping, Served
  <2> QED
    BY <1>3, <1>9, <2>1, <2>2, <2>3, <2>4 DEF Command
<1>10. CASE UNCHANGED vars
  BY <1>2, <1>10 DEF vars
<1> QED
  BY <1>3, <1>4, <1>6, <1>7, <1>8, <1>9, <1>10 DEF Next, Serve

LEMMA CrashStep ==
  ASSUME IMaster, IOwner, IVictims, [Next]_vars,
         phase' = "crashed", 0 \in master,
         ~(op = "killall" /\ \E ix \in todo \ who : First(ix))
  PROVE  UNCHANGED vars
<1> PICK rank \in Ranks : Ordered(rank)
  BY DEF IOwner
<1>1. \A u \in who : mstr[u] \in who
  BY DEF Ordered
<1>2. sub \subseteq who /\ \A k \in who : ~ExUserFaults(k)
  BY <1>1 DEF ExUserFaults, NormalizeFaults, IMaster, IType, UsersOK
<1>3. phase = "run" => UNCHANGED vars
  <2> SUFFICES ASSUME phase = "run", Next
               PROVE  FALSE
    OBVIOUS
  <2>1. ASSUME NEW u \in Slots, HangUp(u) \/ Login(u)
        PROVE  FALSE
    BY <1>1, <1>2, <2>1 DEF HangUp, Login, Serving, Served
  <2>2. ASSUME NEW u \in Slots, Command(u)
        PROVE  FALSE
    <3>1. ~TellAll(u) /\ ~Bye(u)
      BY <1>1, <1>2 DEF TellAll, Bye, Leave, Typing, Serving, Served
    <3>2. ~Xyzzy(u) /\ ~Xreset(u) /\ \A to \in who : ~GiveNew(u, to)
      BY DEF Xyzzy, Xreset, GiveNew, Served
    <3>3. \A map \in SUBSET who : ~Mty(u, map) /\ ~Kill(u, map) /\ ~Norm(u, map)
      BY DEF Mty, Kill, Norm, BeginLoop, Served
    <3>4. \A map \in SUBSET who, to \in who : ~Give(u, to, map)
      BY DEF Give, Served
    <3> QED
      BY <2>2, <3>1, <3>2, <3>3, <3>4 DEF Command
  <2>3. ASSUME NEW ix \in Slots, KillOne(ix)
        PROVE  FALSE
    <3>1. First(ix) /\ ix \in todo /\ (op = "kill" \/ op = "killall")
      BY <2>3 DEF KillOne, First
    <3>2. ix \in who
      BY <3>1 DEF IVictims
    <3> QED
      BY <1>2, <2>3, <3>2 DEF KillOne, Refuse
  <2>4. \A ix \in Slots : ~NormOne(ix)
    BY DEF NormOne, Refuse
  <2>5. ~Connect /\ ~Skip /\ ~LoopDone /\ ~EndPass /\ ~Restart
    BY DEF Connect, Skip, LoopDone, Refuse, EndPass, Restart, loop
  <2> QED
    BY <2>1, <2>2, <2>3, <2>4, <2>5 DEF Next, Serve
<1>4. phase # "run" => UNCHANGED vars
  <2> SUFFICES ASSUME phase # "run"
               PROVE  UNCHANGED vars
    OBVIOUS
  <2>1. ~Connect /\ ~Skip /\ ~LoopDone /\ ~EndPass /\ ~Restart
    BY DEF Connect, Skip, LoopDone, EndPass, Restart, Looping
  <2>2. \A u \in Slots : ~HangUp(u) /\ ~Login(u)
    BY DEF HangUp, Login, Serving, Looping
  <2>3. \A ix \in Slots : ~KillOne(ix) /\ ~NormOne(ix)
    BY DEF KillOne, NormOne
  <2>4. \A u \in Slots : ~Command(u)
    <3> SUFFICES ASSUME NEW u \in Slots, Command(u)
                 PROVE  FALSE
      OBVIOUS
    <3>1. \A cmd : ~Typing(u, cmd)
      BY DEF Typing, Serving, Looping
    <3>2. ~Bye(u) /\ ~TellAll(u) /\ ~Xyzzy(u) /\ ~Xreset(u)
      BY <3>1 DEF Bye, TellAll, Xyzzy, Xreset
    <3>3. \A to \in who : ~GiveNew(u, to)
      BY <3>1 DEF GiveNew
    <3>4. \A map \in SUBSET who : ~Mty(u, map) /\ ~Kill(u, map) /\ ~Norm(u, map)
      BY <3>1 DEF Mty, Kill, Norm
    <3>5. \A map \in SUBSET who, to \in who : ~Give(u, to, map)
      BY <3>1 DEF Give
    <3> QED
      BY <3>2, <3>3, <3>4, <3>5 DEF Command
  <2> QED
    BY <2>1, <2>2, <2>3, <2>4 DEF Next, Serve
<1> QED
  BY <1>3, <1>4

\* The missing NULL checks matter only after #0 has gone, after a GIVE has made
\* somebody his own superior, or when KILL is told to disconnect everybody.
THEOREM CrashHasItsCauseCorrect == Spec => CrashHasItsCause
<1>1. Init => IVictims
  BY DEF Init, IVictims
<1>2. IMaster /\ IVictims /\ [Next]_vars => IVictims'
  BY VictimsStep
<1>3. IMaster /\ ITree /\ IVictims /\ [Next]_vars
        => [phase' = "crashed" =>
              \/ 0 \notin master
              \/ cyclic
              \/ op = "killall" /\ \E ix \in todo \ who : First(ix)]_vars
  BY CrashStep DEF ITree
<1> QED
  BY <1>1, <1>2, <1>3, IMasterInvariant, ITreeInvariant, PTL
     DEF Spec, CrashHasItsCause

-----------------------------------------------------------------------------
(***************************************************************************)
(* The master is lost by an end of the loop or to a privileged user.  A    *)
(* KILL that spares its issuer cannot be the master's own, and #0 is       *)
(* nobody else's, so the command checks a privilege.                       *)
(***************************************************************************)
ISpared == op \in {"kill", "killall"} => turn \notin todo

LEMMA SparedStep ==
  ASSUME ISpared, [Next]_vars
  PROVE  ISpared'
<1> USE DEF ISpared
<1>1. CASE op' \notin {"kill", "killall"}
  BY <1>1
<1>2. CASE UNCHANGED <<op, todo, turn>>
  BY <1>2
<1>3. CASE op \notin {"kill", "killall"} /\ UNCHANGED op
  BY <1>3
<1>4. ASSUME NEW u \in Slots, Command(u)
      PROVE  ISpared'
  <2>1. CASE Bye(u) \/ TellAll(u) \/ Xyzzy(u) \/ Xreset(u)
    BY <1>2, <1>3, <2>1 DEF Bye, Leave, TellAll, Crash, Xyzzy, Xreset, Typing, Serving,
                            Looping, Served
  <2>2. CASE \E to \in who : GiveNew(u, to)
    BY <1>3, <2>2 DEF GiveNew, Typing, Serving, Looping, Served
  <2>3. ASSUME NEW map \in SUBSET who, Mty(u, map) \/ Norm(u, map)
        PROVE  ISpared'
    BY <1>1, <1>3, <2>3 DEF Mty, Norm, BeginLoop, Typing, Serving, Looping, Served
  <2>4. ASSUME NEW map \in SUBSET who, Kill(u, map)
        PROVE  ISpared'
    BY <2>4 DEF Kill, BeginLoop, Typing, Serving
  <2>5. ASSUME NEW map \in SUBSET who, NEW to \in who, Give(u, to, map)
        PROVE  ISpared'
    BY <1>3, <2>5 DEF Give, Typing, Serving, Looping, Served
  <2> QED
    BY <1>4, <2>1, <2>2, <2>3, <2>4, <2>5 DEF Command
<1>5. ASSUME NEW u \in Slots, HangUp(u) \/ Login(u)
      PROVE  ISpared'
  BY <1>2, <1>3, <1>5 DEF HangUp, Login, Crash, Serving, Looping, Served
<1>6. ASSUME NEW ix \in Slots, KillOne(ix) \/ NormOne(ix)
      PROVE  ISpared'
  BY <1>1, <1>6 DEF KillOne, NormOne, Crash, Refuse
<1>7. CASE Connect \/ Skip \/ LoopDone \/ EndPass \/ Restart \/ UNCHANGED vars
  BY <1>1, <1>2, <1>3, <1>7
     DEF Connect, Skip, Looping, LoopDone, Refuse, EndPass, Restart, loop, vars
<1> QED
  BY <1>4, <1>5, <1>6, <1>7 DEF Next, Serve

LEMMA MasterLossStep ==
  ASSUME IMaster, ISpared, Next, 0 \in master, 0 \notin master', phase = "run"
  PROVE  done' \/ (op \in {"kill", "killall"} /\ turn \in priv)
<1> USE DEF IMaster, MasterIsZero
<1>1. ~UNCHANGED master /\ ~UNCHANGED roles
  BY DEF roles
<1>2. CASE Connect \/ Skip \/ LoopDone \/ EndPass \/ Restart
  BY <1>1, <1>2 DEF Connect, Skip, LoopDone, Refuse, EndPass, Restart
<1>3. ASSUME NEW u \in Slots, HangUp(u) \/ Login(u)
      PROVE  done'
  <2>1. HangUp(u) /\ ~Crash /\ ExUser(u)
    BY <1>1, <1>3 DEF HangUp, Login, Crash
  <2>2. u = 0
    BY <2>1 DEF ExUser
  <2>3. done' = (done \/ u \in master)
    BY <1>1, <2>1 DEF HangUp, Crash
  <2> QED
    BY <2>2, <2>3
<1>4. ASSUME NEW u \in Slots, Command(u)
      PROVE  done'
  <2>1. ~TellAll(u) /\ ~Xyzzy(u) /\ ~Xreset(u) /\ \A to \in who : ~GiveNew(u, to)
    BY <1>1 DEF TellAll, Crash, Xyzzy, Xreset, GiveNew
  <2>2. \A map \in SUBSET who :
          /\ ~Mty(u, map) /\ ~Kill(u, map) /\ ~Norm(u, map)
          /\ \A to \in who : ~Give(u, to, map)
    BY <1>1 DEF Mty, Kill, Norm, BeginLoop, Give
  <2>3. Bye(u)
    BY <1>4, <2>1, <2>2 DEF Command
  <2>4. CASE u \in master
    BY <2>3, <2>4 DEF Bye
  <2>5. CASE u \notin master
    BY <1>1, <2>3, <2>5 DEF Bye, Leave, Crash, ExUser
  <2> QED
    BY <2>4, <2>5
<1>5. ASSUME NEW ix \in Slots, KillOne(ix)
      PROVE  op \in {"kill", "killall"} /\ turn \in priv
  <2>1. ~Crash /\ ~Refuse
    BY <1>1 DEF Crash, Refuse
  <2>2. /\ op \in {"kill", "killall"} /\ ix \in todo /\ ExUser(ix)
        /\ mstr[ix] = turn \/ turn \in master \cup priv
    BY <1>5, <2>1 DEF KillOne, First
  <2>3. ix = 0
    BY <2>2 DEF ExUser
  <2>4. turn # 0
    BY <2>2, <2>3 DEF ISpared
  <2> QED
    BY <2>2, <2>3, <2>4
<1>6. \A ix \in Slots : ~NormOne(ix)
  BY <1>1 DEF NormOne, Refuse
<1> QED
  BY <1>2, <1>3, <1>4, <1>5, <1>6 DEF Next, Serve

\* No submaster and no accident takes the master away unnoticed: whenever #0
\* goes, the loop has been told to end or a privileged user has killed him.
THEOREM MasterLossEndsCorrect == Spec => MasterLossEnds
<1>1. Init => ISpared
  BY DEF Init, ISpared
<1>2. ISpared /\ [Next]_vars => ISpared'
  BY SparedStep
<1>3. IMaster /\ ISpared /\ [Next]_vars
        => [0 \in master /\ 0 \notin master' /\ phase = "run" =>
              done' \/ (op \in {"kill", "killall"} /\ turn \in priv)]_vars
  BY MasterLossStep
<1> QED
  BY <1>1, <1>2, <1>3, IMasterInvariant, PTL DEF Spec, MasterLossEnds

-----------------------------------------------------------------------------
(***************************************************************************)
(* A user changes masters by his master's command, or one level up.  Only  *)
(* con_give_map writes the mstr of a user who is there already, with the   *)
(* bitmap of GIVE or with the one con_normalize builds.                    *)
(***************************************************************************)
LEMMA HandedUp ==
  ASSUME UsersOK, NEW k, NEW to, NEW u \in Slots,
         GivenMstr(to, Returned(k))[u] # mstr[u]
  PROVE  k \in sub /\ mstr[u] = k /\ GivenMstr(to, Returned(k))[u] = to
<1>1. u \in Returned(k) \ {0} /\ GivenMstr(to, Returned(k))[u] = to
  BY DEF GivenMstr
<1>2. k \in sub /\ u \in Members(k)
  BY <1>1 DEF Returned, NormalMap
<1> QED
  BY <1>1, <1>2 DEF Members

Moved(u) == u \in who \cap who' /\ mstr'[u] # mstr[u]

LEMMA ExUserMoves ==
  ASSUME UsersOK, NEW k \in Slots, ExUser(k), NEW u, Moved(u)
  PROVE  mstr[u] \notin sub' /\ mstr'[u] = mstr[mstr[u]]
<1>1. u \in Slots /\ u # k
  BY DEF UsersOK, ExUser, Moved
<1>2. mstr'[u] = GivenMstr(mstr[k], Returned(k))[u]
  BY <1>1 DEF ExUser, GivenMstr
<1>3. k \in sub /\ mstr[u] = k /\ mstr'[u] = mstr[k]
  BY <1>1, <1>2, HandedUp DEF Moved
<1>4. k \notin sub'
  BY DEF ExUser
<1> QED
  BY <1>3, <1>4

LEMMA NormOneMoves ==
  ASSUME UsersOK, NEW ix \in Slots, NormOne(ix), NEW u, Moved(u)
  PROVE  mstr[u] \notin sub' /\ mstr'[u] = mstr[mstr[u]]
<1>1. u \in Slots
  BY DEF UsersOK, Moved
<1>2. ~Refuse
  BY DEF Refuse, Moved
<1>3. mstr[ix] = turn /\ sub' = sub \ {ix} /\ mstr' = GivenMstr(turn, Returned(ix))
  BY <1>2 DEF NormOne
<1>4. mstr[u] = ix /\ mstr'[u] = turn
  BY <1>1, <1>3, HandedUp DEF Moved
<1> QED
  BY <1>3, <1>4

LEMMA MovesStep ==
  ASSUME UsersOK, Next, NEW u, Moved(u)
  PROVE  \/ mstr[u] = turn /\ Leads(turn) /\ turn \in who'
         \/ mstr[u] \notin sub' /\ mstr'[u] = mstr[mstr[u]]
<1>1. ~UNCHANGED mstr /\ who' # {} /\ u \in Slots /\ u \in who
  BY DEF Moved, UsersOK
<1>2. CASE Connect
  <2> PICK np \in Slots : FirstFree(np) /\ \E v : mstr' = [mstr EXCEPT ![np] = v]
    BY <1>2 DEF Connect
  <2>1. np # u
    BY <1>1 DEF FirstFree
  <2> QED
    BY <1>1, <2>1 DEF Moved, UsersOK
<1>3. CASE Skip \/ LoopDone \/ EndPass \/ Restart
  BY <1>1, <1>3 DEF Skip, LoopDone, Refuse, EndPass, Restart
<1>4. ASSUME NEW v \in Slots, HangUp(v) \/ Login(v)
      PROVE  mstr[u] \notin sub' /\ mstr'[u] = mstr[mstr[u]]
  <2>1. ExUser(v)
    BY <1>1, <1>4 DEF HangUp, Login, Crash
  <2> QED
    BY <2>1, ExUserMoves
<1>5. ASSUME NEW v \in Slots, Command(v)
      PROVE  \/ mstr[u] = turn /\ Leads(turn) /\ turn \in who'
             \/ mstr[u] \notin sub' /\ mstr'[u] = mstr[mstr[u]]
  <2>1. ~TellAll(v) /\ ~Xyzzy(v) /\ ~Xreset(v) /\ \A to \in who : ~GiveNew(v, to)
    BY <1>1 DEF TellAll, Crash, Xyzzy, Xreset, GiveNew
  <2>2. \A map \in SUBSET who : ~Mty(v, map) /\ ~Kill(v, map) /\ ~Norm(v, map)
    BY <1>1 DEF Mty, Kill, Norm, BeginLoop
  <2>3. CASE Bye(v)
    <3>1. ExUser(v)
      BY <1>1, <2>3 DEF Bye, Leave, Crash
    <3> QED
      BY <3>1, ExUserMoves
  <2>4. ASSUME NEW map \in SUBSET who, NEW to \in who, Give(v, to, map)
        PROVE  mstr[u] = turn /\ Leads(turn) /\ turn \in who'
    <3>1. /\ turn = v /\ v \in who /\ who' = who /\ Leads(v)
          /\ \A ix \in map : mstr[ix] = v
          /\ mstr' = GivenMstr(to, map)
      BY <2>4 DEF Give, Typing, Serving
    <3>2. u \in map
      BY <1>1, <3>1 DEF GivenMstr, Moved
    <3> QED
      BY <3>1, <3>2
  <2> QED
    BY <1>5, <2>1, <2>2, <2>3, <2>4 DEF Command
<1>6. ASSUME NEW ix \in Slots, KillOne(ix)
      PROVE  mstr[u] \notin sub' /\ mstr'[u] = mstr[mstr[u]]
  <2>1. ExUser(ix)
    BY <1>1, <1>6 DEF KillOne, Crash, Refuse
  <2> QED
    BY <2>1, ExUserMoves
<1>7. ASSUME NEW ix \in Slots, NormOne(ix)
      PROVE  mstr[u] \notin sub' /\ mstr'[u] = mstr[mstr[u]]
  BY <1>7, NormOneMoves
<1> QED
  BY <1>2, <1>3, <1>4, <1>5, <1>6, <1>7 DEF Next, Serve

\* Whoever changes masters was passed on by his own master, who leads and stays,
\* or goes to the master of a master who leaves or is demoted.
THEOREM OwnershipMovesCorrect == Spec => OwnershipMoves
<1>1. IType /\ [Next]_vars
        => [\A u \in who \cap who' : mstr'[u] # mstr[u] =>
              \/ mstr[u] = turn /\ Leads(turn) /\ turn \in who'
              \/ mstr[u] \notin sub' /\ mstr'[u] = mstr[mstr[u]]]_vars
  BY MovesStep DEF IType, Moved
<1> QED
  BY <1>1, ITypeInvariant, PTL DEF Spec, OwnershipMoves

-----------------------------------------------------------------------------
(***************************************************************************)
(* The tree of masters is rooted at #0.  Ancestor is defined by recursion, *)
(* so its existence comes first; each induction below takes the smallest   *)
(* number that is a counterexample.                                        *)
(***************************************************************************)
Above(f, n) == IF n = 0 THEN [u \in Slots |-> u]
                        ELSE [u \in Slots |-> mstr[f[n - 1][u]]]

Chain(f, m) == f = [n \in 0 .. m |-> Above(f, n)]

LEMMA ChainLonger ==
  ASSUME NEW m \in Nat \ {0}, NEW f, Chain(f, m - 1)
  PROVE  \E g : Chain(g, m)
<1> DEFINE g == [n \in 0 .. m |-> IF n = m THEN Above(f, m) ELSE f[n]]
<1>1. ASSUME NEW n \in 0 .. m
      PROVE  g[n] = Above(g, n)
  <2>1. n # 0 => n - 1 \in 0 .. m - 1 /\ g[n - 1] = f[n - 1]
    OBVIOUS
  <2>2. Above(g, n) = Above(f, n)
    <3> HIDE DEF g
    <3>1. CASE n = 0
      BY <3>1 DEF Above
    <3>2. CASE n # 0
      <4>1. g[n - 1] = f[n - 1]
        BY <2>1, <3>2
      <4> QED
        BY <3>2, <4>1 DEF Above
    <3> QED
      BY <3>1, <3>2
  <2>3. CASE n = m
    BY <2>2, <2>3
  <2>4. CASE n # m
    <3>1. n \in 0 .. m - 1
      BY <2>4
    <3>2. f[n] = Above(f, n)
      BY <3>1 DEF Chain
    <3> QED
      BY <2>2, <2>4, <3>2
  <2> QED
    BY <2>3, <2>4
<1>2. g = [n \in 0 .. m |-> g[n]]
  OBVIOUS
<1>3. g = [n \in 0 .. m |-> Above(g, n)]
  <2> HIDE DEF g
  <2> QED
    BY <1>1, <1>2
<1> QED
  BY <1>3 DEF Chain

LEMMA ChainExists == \A m \in Nat : \E f : Chain(f, m)
<1> SUFFICES ASSUME NEW m \in Nat, ~ \E f : Chain(f, m)
             PROVE  FALSE
  OBVIOUS
<1> DEFINE Missing == {n \in Nat : ~ \E f : Chain(f, n)}
<1>1. PICK n \in Missing : \A k \in Missing : n <= k
  <2>1. m \in Missing /\ Missing \in SUBSET Nat
    OBVIOUS
  <2> HIDE DEF Missing
  <2> QED
    BY <2>1, LeastNumber
<1>2. CASE n = 0
  <2> DEFINE f == [i \in 0 .. 0 |-> [u \in Slots |-> u]]
  <2>1. f = [i \in 0 .. 0 |-> Above(f, i)]
    BY DEF Above
  <2> QED
    BY <1>2, <2>1 DEF Chain
<1>3. CASE n # 0
  <2>1. n - 1 \in Nat /\ n \in Nat \ {0} /\ n - 1 \notin Missing
    BY <1>1, <1>3
  <2>2. \E f : Chain(f, n - 1)
    BY <2>1
  <2> QED
    BY <2>1, <2>2, ChainLonger
<1> QED
  BY <1>2, <1>3

LEMMA AncestorChain ==
  /\ \A u \in Slots : Ancestor[0][u] = u
  /\ \A n \in 1 .. Size : \A u \in Slots : Ancestor[n][u] = mstr[Ancestor[n - 1][u]]
<1>1. PICK f : Chain(f, Size)
  BY ChainExists, SlotFacts
<1>2. \E g : g = [n \in 0 .. Size |->
                    IF n = 0 THEN [u \in Slots |-> u]
                             ELSE [u \in Slots |-> mstr[g[n - 1][u]]]]
  BY <1>1 DEF Chain, Above
<1>3. Ancestor = [n \in 0 .. Size |->
                    IF n = 0 THEN [u \in Slots |-> u]
                             ELSE [u \in Slots |-> mstr[Ancestor[n - 1][u]]]]
  BY <1>2 DEF Ancestor
<1>4. \A n \in 0 .. Size : Ancestor[n] = IF n = 0 THEN [u \in Slots |-> u]
                                         ELSE [u \in Slots |-> mstr[Ancestor[n - 1][u]]]
  BY <1>3
<1>5. ASSUME NEW u \in Slots PROVE Ancestor[0][u] = u
  <2>1. 0 \in 0 .. Size
    BY SlotFacts
  <2>2. Ancestor[0] = [v \in Slots |-> v]
    BY <1>4, <2>1
  <2> QED
    BY <2>2
<1>6. ASSUME NEW n \in 1 .. Size, NEW u \in Slots
      PROVE  Ancestor[n][u] = mstr[Ancestor[n - 1][u]]
  <2>1. n \in 0 .. Size /\ n # 0
    BY SlotFacts
  <2>2. Ancestor[n] = [v \in Slots |-> mstr[Ancestor[n - 1][v]]]
    BY <1>4, <2>1
  <2> DEFINE a == Ancestor[n - 1]
  <2> HIDE DEF a
  <2>3. Ancestor[n] = [v \in Slots |-> mstr[a[v]]]
    BY <2>2 DEF a
  <2> QED
    BY <2>3 DEF a
<1> QED
  BY <1>5, <1>6

\* The masters above a connected user are connected.
LEMMA AncestorsConnected ==
  ASSUME UsersOK, NEW rank, Ordered(rank), NEW u \in who
  PROVE  \A n \in 0 .. Size : Ancestor[n][u] \in who
<1> DEFINE Gone == {n \in 0 .. Size : Ancestor[n][u] \notin who}
<1>1. u \in Slots
  BY DEF UsersOK
<1> SUFFICES ASSUME Gone # {} PROVE FALSE
  OBVIOUS
<1>2. PICK n \in Gone : \A k \in Gone : n <= k
  <2>1. Gone \in SUBSET Nat
    BY SlotFacts
  <2> HIDE DEF Gone
  <2> QED
    BY <2>1, LeastNumber
<1>3. n # 0
  BY <1>1, <1>2, AncestorChain
<1>4. n \in 1 .. Size /\ n - 1 \in 0 .. Size /\ n - 1 \notin Gone
  BY <1>2, <1>3, SlotFacts
<1>5. Ancestor[n - 1][u] \in who
  BY <1>4
<1>6. Ancestor[n][u] = mstr[Ancestor[n - 1][u]]
  BY <1>1, <1>4, AncestorChain
<1> QED
  BY <1>2, <1>5, <1>6 DEF Ordered

\* The chain stays at #0 once it is there.
LEMMA AncestorsStay ==
  ASSUME mstr[0] = 0, NEW u \in Slots, NEW i \in 0 .. Size, Ancestor[i][u] = 0
  PROVE  \A n \in i .. Size : Ancestor[n][u] = 0
<1> DEFINE Lost == {n \in i .. Size : Ancestor[n][u] # 0}
<1> SUFFICES ASSUME Lost # {} PROVE FALSE
  OBVIOUS
<1>1. PICK n \in Lost : \A k \in Lost : n <= k
  <2>1. Lost \in SUBSET Nat
    BY SlotFacts
  <2> HIDE DEF Lost
  <2> QED
    BY <2>1, LeastNumber
<1>2. n # i
  BY <1>1
<1>3. n \in 1 .. Size /\ n - 1 \in i .. Size /\ n - 1 \notin Lost
  BY <1>1, <1>2, SlotFacts
<1>4. Ancestor[n][u] = mstr[Ancestor[n - 1][u]]
  BY <1>3, AncestorChain
<1> QED
  BY <1>1, <1>3, <1>4

\* Below #0 the rank falls with every step up.
LEMMA RanksFall ==
  ASSUME UsersOK, NEW rank \in Ranks, Ordered(rank), NEW u \in who,
         \A n \in 0 .. Size : Ancestor[n][u] # 0,
         NEW i \in 0 .. Size
  PROVE  \A n \in i + 1 .. Size : rank[Ancestor[n][u]] < rank[Ancestor[i][u]]
<1> DEFINE A(n) == Ancestor[n][u]
           High == {n \in i + 1 .. Size : ~ (rank[A(n)] < rank[A(i)])}
<1>1. u \in Slots
  BY DEF UsersOK
<1>2. \A n \in 0 .. Size : A(n) \in who \ {0} /\ rank[A(n)] \in Nat
  BY AncestorsConnected DEF Ranks, UsersOK
<1>3. \A n \in 1 .. Size : rank[A(n)] < rank[A(n - 1)]
  <2> TAKE n \in 1 .. Size
  <2>1. n - 1 \in 0 .. Size
    BY SlotFacts
  <2>2. A(n) = mstr[A(n - 1)]
    BY <1>1, AncestorChain
  <2> QED
    BY <1>2, <2>1, <2>2 DEF Ordered
<1> HIDE DEF A
<1> SUFFICES ASSUME High # {} PROVE FALSE
  BY DEF A
<1>4. PICK n \in High : \A k \in High : n <= k
  <2>1. High \in SUBSET Nat
    BY SlotFacts
  <2> HIDE DEF High
  <2> QED
    BY <2>1, LeastNumber
<1>5. /\ n \in 1 .. Size /\ n \in 0 .. Size /\ n - 1 \in 0 .. Size
      /\ n - 1 = i \/ n - 1 \in i + 1 .. Size
      /\ n - 1 \notin High
  BY <1>4, SlotFacts
<1>6. rank[A(n)] < rank[A(n - 1)]
  BY <1>3, <1>5
<1>7. rank[A(n - 1)] <= rank[A(i)]
  BY <1>2, <1>5
<1>8. rank[A(n)] < rank[A(i)]
  BY <1>2, <1>5, <1>6, <1>7
<1> QED
  BY <1>4, <1>8

\* Size steps up pass more users than there are slots, unless #0 is reached.
LEMMA ChainEnds ==
  ASSUME UsersOK, mstr[0] = 0, NEW rank \in Ranks, Ordered(rank), NEW u \in who
  PROVE  Ancestor[Size][u] = 0
<1> SUFFICES ASSUME Ancestor[Size][u] # 0 PROVE FALSE
  OBVIOUS
<1> DEFINE A == [n \in 0 .. Size |-> Ancestor[n][u]]
<1>1. u \in Slots /\ Size \in 0 .. Size
  BY SlotFacts DEF UsersOK
<1>2. \A n \in 0 .. Size : Ancestor[n][u] # 0
  <2> TAKE n \in 0 .. Size
  <2>1. Size \in n .. Size
    BY SlotFacts
  <2> QED
    BY <1>1, <2>1, AncestorsStay
<1>3. A \in [0 .. Size -> Slots]
  BY AncestorsConnected DEF UsersOK
<1>4. PICK i, j \in 0 .. Size : i # j /\ A[i] = A[j]
  <2>1. IsFiniteSet(0 .. Size) /\ Cardinality(0 .. Size) = Size + 1
    BY FS_Interval, SizeAssumption
  <2>2. IsFiniteSet(Slots) /\ Cardinality(Slots) = Size
    BY FS_Interval, SizeAssumption DEF Slots
  <2>3. Cardinality(Slots) < Cardinality(0 .. Size)
    BY <2>1, <2>2, SlotFacts
  <2> DEFINE S == 0 .. Size
  <2>4. A \in [S -> Slots] /\ IsFiniteSet(S) /\ Cardinality(Slots) < Cardinality(S)
    BY <1>3, <2>1, <2>3
  <2> HIDE DEF A, S
  <2>5. \E i, j \in S : i # j /\ A[i] = A[j]
    BY <2>2, <2>4, FS_PigeonHole
  <2> QED
    BY <2>5 DEF S
<1>5. \A k, n \in 0 .. Size : k < n => rank[A[n]] < rank[A[k]]
  <2> TAKE k, n \in 0 .. Size
  <2> HAVE k < n
  <2>1. n \in k + 1 .. Size
    OBVIOUS
  <2> QED
    BY <1>2, <2>1, RanksFall
<1>6. rank[A[i]] \in Nat /\ (i < j \/ j < i)
  BY <1>3, <1>4 DEF Ranks
<1> HIDE DEF A
<1> QED
  BY <1>4, <1>5, <1>6

\* Until somebody is passed on to a user below him, the masters of every user
\* lead up to #0, in as many steps as there are slots at most.
THEOREM RootedAtMasterCorrect == Spec => []RootedAtMaster
<1>1. IMaster /\ ITree => RootedAtMaster
  <2> SUFFICES ASSUME IMaster, IOwner, 0 \in master, NEW u \in who
               PROVE  Ancestor[Size][u] = 0
    BY DEF RootedAtMaster, ITree
  <2> PICK rank \in Ranks : Ordered(rank)
    BY DEF IOwner
  <2> QED
    BY ChainEnds DEF IMaster, IType, MasterIsZero
<1> QED
  BY <1>1, IMasterInvariant, ITreeInvariant, PTL

=============================================================================
