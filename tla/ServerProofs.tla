----------------------------- MODULE ServerProofs -----------------------------
(***************************************************************************)
(* What Server keeps true for every setting of its clock, every number of  *)
(* retries and every number of leavers.                                    *)
(***************************************************************************)
EXTENDS Server, SequenceTheorems, TLAPS

\* The main loop has a conference from the first accept to the shutdown.
HasConference == Running \/ phase \in {"first", "over"}

-----------------------------------------------------------------------------
(***************************************************************************)
(* The left list.  The array is never full between two leavers: storing    *)
(* comes first and growing second, so the growth must happen one early.    *)
(***************************************************************************)
ILeft ==
  /\ left \in Seq(Nat) /\ nml \in Nat /\ gone \in Nat
  /\ HasConference => nml < mnl /\ nml = gone /\ \A i \in 1 .. nml : left[i] = i

\* con_left of the next leaver: he is stored behind the others, and there is
\* room for one more.
LEMMA LeftGrows ==
  ASSUME left \in Seq(Nat), nml \in Nat, nml < mnl, NEW u \in Nat
  PROVE  /\ con_left(u) \in Seq(Nat) /\ nml + 1 < Len(con_left(u))
         /\ \A i \in 1 .. nml : con_left(u)[i] = left[i]
         /\ con_left(u)[nml + 1] = u
<1> DEFINE stored == [left EXCEPT ![nml + 1] = u]
<1>1. mnl \in Nat /\ nml + 1 \in 1 .. mnl
  BY LenProperties DEF mnl
<1>2. /\ stored \in Seq(Nat) /\ Len(stored) = mnl
      /\ \A j \in 1 .. mnl : stored[j] = IF j = nml + 1 THEN u ELSE left[j]
  BY <1>1, ExceptSeq DEF mnl
<1>3. CASE nml + 1 < mnl
  BY <1>1, <1>2, <1>3 DEF con_left
<1>4. CASE nml + 1 >= mnl
  <2> DEFINE grown == [i \in 1 .. 2 * mnl |-> IF i <= nml + 1 THEN stored[i] ELSE NULL]
  <2>1. 2 * mnl \in Nat /\ nml + 1 < 2 * mnl
    BY <1>1
  <2>2. \A i \in 1 .. nml + 1 : stored[i] \in Nat
    BY <1>1, <1>2, ElementOfSeq
  <2>3. \A i \in 1 .. 2 * mnl : (IF i <= nml + 1 THEN stored[i] ELSE NULL) \in Nat
    BY <1>1, <2>2 DEF NULL
  <2>4. grown \in Seq(Nat) /\ Len(grown) = 2 * mnl
    <3>1. grown \in [1 .. 2 * mnl -> Nat]
      BY <2>3
    <3> HIDE DEF grown, stored
    <3> QED
      BY <3>1, <2>1
  <2>5. con_left(u) = grown
    BY <1>4 DEF con_left
  <2> QED
    BY <1>1, <1>2, <2>1, <2>4, <2>5
<1> QED
  BY <1>1, <1>3, <1>4

LEMMA LeftStep ==
  ASSUME ILeft, [Next]_vars
  PROVE  ILeft'
<1> USE DEF ILeft, HasConference, Running
<1>1. CASE UNCHANGED leavers /\ (HasConference' => HasConference)
  BY <1>1 DEF leavers, mnl
<1>2. CASE Listen
  <2>1. left' = <<0, 0>> /\ nml' = 0 /\ gone' = 0
    BY <1>2 DEF Listen, EmptyLeft, NULL
  <2>2. left' \in Seq(Nat) /\ Len(left') = 2
    BY <2>1
  <2> QED
    BY <2>1, <2>2 DEF mnl
<1>3. CASE ExUser
  <2>1. /\ phase = "pass" /\ phase' = phase
        /\ gone' = gone + 1 /\ nml' = nml + 1 /\ left' = con_left(gone')
    BY <1>3 DEF ExUser
  <2>2. gone' \in Nat /\ gone' = nml + 1 /\ nml < mnl
    BY <2>1
  <2>3. /\ left' \in Seq(Nat) /\ nml + 1 < Len(left')
        /\ \A i \in 1 .. nml : left'[i] = left[i]
        /\ left'[nml + 1] = gone'
    BY <2>1, <2>2, LeftGrows
  <2>4. ASSUME NEW i \in 1 .. nml' PROVE left'[i] = i
    <3>1. i \in 1 .. nml \/ i = nml + 1
      BY <2>1
    <3>2. \A j \in 1 .. nml : left[j] = j
      BY <2>1
    <3>3. CASE i \in 1 .. nml
      BY <2>3, <3>2, <3>3
    <3>4. CASE i = nml + 1
      BY <2>2, <2>3, <3>4
    <3> QED
      BY <3>1, <3>3, <3>4
  <2> QED
    BY <2>1, <2>2, <2>3, <2>4 DEF mnl
<1>4. CASE Shutdown
  <2>1. left' = <<>> /\ nml' = 0 /\ gone' = gone /\ phase' \in {"listen", "exited"}
    BY <1>4 DEF Shutdown
  <2>2. left' \in Seq(Nat)
    BY <2>1
  <2> QED
    BY <2>1, <2>2
<1>5. CASE Retry \/ AddressFreed \/ FirstUser \/ Check \/ Tick \/ Select \/ Interrupt
  BY <1>1, <1>5 DEF Retry, AddressFreed, FirstUser, Check, Tick, Select, Interrupt,
                    leavers
<1>6. CASE EndAsked \/ LookAtClock \/ \E v \in Extensions : Xtend(v)
  BY <1>1, <1>6 DEF EndAsked, LookAtClock, Xtend, leavers
<1>7. CASE UNCHANGED vars
  BY <1>1, <1>7 DEF vars, leavers
<1> QED
  BY <1>2, <1>3, <1>4, <1>5, <1>6, <1>7 DEF Next, Main, Users

LEMMA ILeftInvariant == Spec => []ILeft
<1>1. Init => ILeft
  BY DEF Init, ILeft, HasConference, Running
<1>2. ILeft /\ [Next]_vars => ILeft'
  BY LeftStep
<1> QED
  BY <1>1, <1>2, PTL DEF Spec

\* LEFT lists exactly those who have left this conference, in order, however
\* many there are and whatever conferences came before it.
THEOREM LeftKeptCorrect == Spec => []LeftKept
<1>1. ILeft => LeftKept
  BY DEF ILeft, LeftKept, HasConference
<1> QED
  BY <1>1, ILeftInvariant, PTL

-----------------------------------------------------------------------------
(***************************************************************************)
(* The type of the other variables, and the listener.                      *)
(***************************************************************************)
IRest ==
  /\ phase \in Phases /\ ear \in {"unset", "bad", "open", "closed"}
  /\ retry \in 0 .. Retries
  /\ {busy, quit, done, warned, asked, loop} \subseteq BOOLEAN
  /\ now \in Nat /\ end \in Nat /\ til \in Nat /\ wake \in Nat /\ granted \in Nat
  /\ warn \in Int

\* The listener is never closed outside a conference: only sig_int closes it,
\* and after an interrupt main never listens again.
IEar ==
  /\ HasConference => ear = IF quit THEN "closed" ELSE "open"
  /\ phase \in {"listen", "sleep"} => ~quit /\ ear # "closed"

LEMMA RestStep ==
  ASSUME IRest, [Next]_vars
  PROVE  IRest'
<1> USE DEF IRest, Phases
<1>1. CASE Listen
  BY <1>1, LoopAssumption DEF Listen, Ear, clock
<1>2. CASE Retry \/ AddressFreed \/ Select \/ Interrupt \/ EndAsked \/ ExUser
  BY <1>2 DEF Retry, AddressFreed, Select, Interrupt, EndAsked, ExUser, main, clock
<1>3. CASE FirstUser
  <2>1. Duration \in Nat /\ Duration - TermWarn \in Int
    BY DurationAssumption
  <2>2. /\ now' \in Nat /\ end' \in Nat /\ til' \in Nat /\ wake' \in Nat
        /\ granted' \in Nat /\ warn' \in Int
    BY <1>3, <2>1 DEF FirstUser
  <2>3. {busy, quit, done, warned, asked, loop}' \subseteq BOOLEAN
    BY <1>3 DEF FirstUser, main
  <2> QED
    BY <1>3, <2>2, <2>3 DEF FirstUser, main
<1>4. CASE Check
  <2>1. now + 1 \in Nat /\ now + Timeout \in Nat
    BY DEF Timeout, Distance
  <2>2. phase' \in Phases /\ wake' \in Nat
    BY <1>4, <2>1 DEF Check
  <2>3. UNCHANGED <<main, done, now, end, warn, til, warned, granted, asked>>
    BY <1>4 DEF Check
  <2> QED
    BY <2>2, <2>3 DEF main
<1>5. CASE Tick
  BY <1>5 DEF Tick, main
<1>6. ASSUME NEW v \in Extensions, Xtend(v)
      PROVE  IRest'
  <2>1. v \in Nat
    BY ExtensionAssumption
  <2> QED
    BY <1>6, <2>1 DEF Xtend, main
<1>7. CASE LookAtClock
  <2>1. TermWarn \in Int /\ Minute \in Int
    BY DurationAssumption, MinuteAssumption
  <2>2. end' \in Nat /\ warn' \in Int
    BY <1>7, <2>1 DEF LookAtClock
  <2>3. {done', warned'} \subseteq BOOLEAN /\ phase' \in Phases
    BY <1>7 DEF LookAtClock
  <2>4. UNCHANGED <<main, now, til, wake, granted, asked>>
    BY <1>7 DEF LookAtClock
  <2> QED
    BY <2>2, <2>3, <2>4 DEF main
<1>8. CASE Shutdown
  BY <1>8, LoopAssumption DEF Shutdown, clock
<1>9. CASE UNCHANGED vars
  BY <1>9 DEF vars
<1> QED
  BY <1>1, <1>2, <1>3, <1>4, <1>5, <1>6, <1>7, <1>8, <1>9 DEF Next, Main, Users

LEMMA EarStep ==
  ASSUME IRest, IEar, [Next]_vars
  PROVE  IEar'
<1> USE DEF IRest, IEar, HasConference, Running, Phases
<1>1. CASE Listen
  BY <1>1 DEF Listen, Ear
<1>2. CASE Retry \/ AddressFreed \/ FirstUser \/ Check \/ Tick \/ Select
  BY <1>2 DEF Retry, AddressFreed, FirstUser, Check, Tick, Select, main
<1>3. CASE Interrupt \/ EndAsked \/ ExUser \/ LookAtClock \/ \E v \in Extensions : Xtend(v)
  BY <1>3 DEF Interrupt, EndAsked, ExUser, LookAtClock, Xtend, main
<1>4. CASE Shutdown
  BY <1>4 DEF Shutdown
<1>5. CASE UNCHANGED vars
  BY <1>5 DEF vars
<1> QED
  BY <1>1, <1>2, <1>3, <1>4, <1>5 DEF Next, Main, Users

IServer == IRest /\ IEar /\ ILeft

LEMMA IServerInvariant == Spec => []IServer
<1>1. Init => IRest /\ IEar
  <2> SUFFICES ASSUME Init
               PROVE  IRest /\ IEar
    OBVIOUS
  <2>1. {busy, quit, done, warned, asked, loop} \subseteq BOOLEAN
    BY LoopAssumption DEF Init
  <2>2. retry \in 0 .. Retries
    BY LoopAssumption DEF Init
  <2> QED
    BY <2>1, <2>2 DEF Init, IRest, IEar, HasConference, Running, Phases
<1>2. IRest /\ IEar /\ [Next]_vars => IRest' /\ IEar'
  BY RestStep, EarStep
<1>3. IRest /\ IEar /\ ILeft <=> IServer
  BY DEF IServer
<1> QED
  BY <1>1, <1>2, <1>3, ILeftInvariant, PTL DEF Spec

\* Every variable of the server has its type, for every setting.
THEOREM ServerTypeCorrect == Spec => []TypeOK
<1>1. IServer => TypeOK
  BY DEF IServer, IRest, ILeft, TypeOK
<1> QED
  BY <1>1, IServerInvariant, PTL

\* Every conference has the listener, however many conferences and failed
\* attempts came before it, and loses it only to an interrupt.
THEOREM ListenerKeptCorrect == Spec => []ListenerKept
<1>1. IServer => ListenerKept
  BY DEF IServer, IEar, ListenerKept, HasConference
<1> QED
  BY <1>1, IServerInvariant, PTL

-----------------------------------------------------------------------------
(***************************************************************************)
(* The clock.  How late the loop can look at it depends on how far it can  *)
(* oversleep, which is the distance to warn in either direction.  A warn   *)
(* ahead is bounded by the end; a warn behind is either the one con_run    *)
(* began with or one that has moved on a Minute since.  A warning time of  *)
(* one unit to two conferences lets no sleep before the first warning      *)
(* reach beyond the end.                                                   *)
(***************************************************************************)
LEMMA Largest ==
  ASSUME NEW a \in Int, NEW b \in Int, NEW c \in Int, NEW d \in Int
  PROVE  \E x \in {a, b, c, d} : \A y \in {a, b, c, d} : x >= y
<1>1. PICK m \in {a, b} : m >= a /\ m >= b
  BY a >= b \/ b >= a
<1>2. PICK n \in {c, d} : n >= c /\ n >= d
  BY c >= d \/ d >= c
<1>3. m \in Int /\ n \in Int
  BY <1>1, <1>2
<1>4. CASE m >= n
  <2>1. m \in {a, b, c, d} /\ m >= a /\ m >= b /\ m >= c /\ m >= d
    BY <1>1, <1>2, <1>3, <1>4
  <2> QED
    BY <2>1
<1>5. CASE n >= m
  <2>1. n \in {a, b, c, d} /\ n >= a /\ n >= b /\ n >= c /\ n >= d
    BY <1>1, <1>2, <1>3, <1>5
  <2> QED
    BY <2>1
<1> QED
  BY <1>3, <1>4, <1>5

LEMMA LargestIsMax ==
  ASSUME NEW a \in Int, NEW b \in Int, NEW c \in Int, NEW d \in Int
  PROVE  Max({a, b, c, d}) \in Int /\ \A y \in {a, b, c, d} : Max({a, b, c, d}) >= y
<1> DEFINE S == {a, b, c, d}
<1>1. S \subseteq Int
  OBVIOUS
<1>2. \E x \in S : \A y \in S : x >= y
  BY Largest
<1> HIDE DEF S
<1>3. Max(S) \in S /\ \A y \in S : Max(S) >= y
  BY <1>2 DEF Max
<1>4. Max(S) \in Int
  BY <1>1, <1>3
<1> QED
  BY <1>3, <1>4 DEF S

LEMMA OverrunFacts ==
  /\ Overrun \in Int /\ Overrun >= Minute /\ Overrun >= TermWarn - Minute
  /\ Overrun >= TermWarn - 2 * Duration /\ Overrun >= 0 - TermWarn
<1>1. /\ Minute \in Int /\ TermWarn - Minute \in Int
      /\ TermWarn - 2 * Duration \in Int /\ 0 - TermWarn \in Int
  BY DurationAssumption, MinuteAssumption
<1>2. PICK a : a = Minute
  OBVIOUS
<1>3. PICK b : b = TermWarn - Minute
  OBVIOUS
<1>4. PICK c : c = TermWarn - 2 * Duration
  OBVIOUS
<1>5. PICK d : d = 0 - TermWarn
  OBVIOUS
<1>6. Overrun = Max({a, b, c, d})
  BY <1>2, <1>3, <1>4, <1>5 DEF Overrun
<1>7. a \in Int /\ b \in Int /\ c \in Int /\ d \in Int
  BY <1>1, <1>2, <1>3, <1>4, <1>5
<1>8. Overrun \in Int /\ \A y \in {a, b, c, d} : Overrun >= y
  BY <1>6, <1>7, LargestIsMax
<1>9. Overrun >= a /\ Overrun >= b /\ Overrun >= c /\ Overrun >= d
  BY <1>8
<1> QED
  BY <1>2, <1>3, <1>4, <1>5, <1>8, <1>9

LEMMA ClockFacts ==
  /\ Duration \in Nat /\ TermWarn \in Int /\ Minute \in Nat /\ Minute >= 1
  /\ Overrun \in Int /\ Overrun >= 1 /\ Overrun >= Minute
  /\ Overrun >= TermWarn - Minute /\ Overrun >= TermWarn - 2 * Duration
  /\ Overrun >= 0 - TermWarn
  BY DurationAssumption, MinuteAssumption, OverrunFacts

\* What the loop has promised
IPromise ==
  /\ Running \/ phase = "over" => til = granted
  /\ phase = "check" => (done => asked \/ now > granted)
  /\ phase \in {"select", "pass"} => (done => asked)
  /\ phase = "over" => quit \/ asked \/ now > granted

\* Until the first warning of the present end is given, the loop is awake by then.
Sane == TermWarn \in 1 .. 2 * Duration
IWarning ==
  Sane =>
    /\ phase = "check" => (done => asked \/ warned)
    /\ phase = "select" => now <= wake /\ (~warned => wake <= end)
    /\ phase = "pass" => (~warned => now <= end)
    /\ phase = "over" => quit \/ asked \/ warned

\* How late it can be: where warn is, and from that how far the loop can sleep.
IDue ==
  Running =>
    /\ ~warned => warn = end - TermWarn
    /\ warn <= end + Overrun
    /\ warned /\ (phase = "check" => ~done) => warn >= end - TermWarn + Minute

Beginning == now = 0 /\ end = Duration
ILate ==
  /\ phase = "check" =>
       now <= end + Overrun /\ (~done => now <= end /\ (warned \/ now <= warn \/ Beginning))
  /\ phase = "select" => now <= end + Overrun /\ wake <= end + Overrun
  /\ phase = "pass" => now <= end + Overrun

IClock == IPromise /\ IWarning /\ IDue /\ ILate

LEMMA Shift ==
  ASSUME NEW d \in Int, NEW e \in Nat, NEW t \in Int, NEW m \in Nat, d >= e - t
  PROVE  d + m >= e - t + m
  OBVIOUS

LEMMA FirstUserClock ==
  ASSUME IRest, FirstUser
  PROVE  IClock'
<1> USE DEF FirstUser, Running
<1>1. IPromise'
  BY DEF IPromise
<1>2. IWarning'
  BY ClockFacts DEF IWarning, Sane
<1>3. IDue' /\ ILate'
  BY ClockFacts DEF IDue, ILate, Beginning
<1> QED
  BY <1>1, <1>2, <1>3 DEF IClock

\* The head of the loop decides how long to sleep.
LEMMA CheckClock ==
  ASSUME IRest, IClock, Check
  PROVE  IClock'
<1> USE DEF IRest, IClock, Running
<1>1. CASE done \/ quit
  BY <1>1 DEF Check, IPromise, IWarning, IDue, ILate, main
<1>2. CASE ~(done \/ quit)
  <2>1. /\ phase = "check" /\ phase' = "select" /\ wake' \in {now + 1, now + Timeout}
        /\ UNCHANGED <<done, now, end, warn, til, warned, granted, asked>>
    BY <1>2 DEF Check
  <2>2. IPromise'
    BY <1>2, <2>1 DEF IPromise
  <2>3. Timeout \in Nat /\ Timeout >= 1
    BY DEF Timeout, Distance
  <2>4. IWarning'
    <3>1. SUFFICES ASSUME Sane
                   PROVE  now <= wake' /\ (~warned => wake' <= end)
      BY <2>1 DEF IWarning
    <3>2. now <= wake'
      BY <2>1, <2>3
    <3>3. ASSUME ~warned
          PROVE  wake' <= end
      <4>1. warn = end - TermWarn /\ (now <= warn \/ Beginning)
        BY <1>2, <2>1, <3>3 DEF IDue, ILate
      <4>2. 1 <= TermWarn /\ TermWarn <= 2 * Duration
        BY <3>1, ClockFacts DEF Sane
      <4>3. CASE now <= warn
        BY <2>1, <4>1, <4>2, <4>3, ClockFacts DEF Timeout, Distance
      <4>4. CASE now > warn /\ Beginning
        BY <2>1, <4>1, <4>2, <4>4, ClockFacts DEF Timeout, Distance, Beginning
      <4> QED
        BY <4>1, <4>3, <4>4, ClockFacts
    <3> QED
      BY <3>2, <3>3
  <2>5. IDue'
    BY <1>2, <2>1 DEF IDue
  <2>6. now <= end /\ warn <= end + Overrun
    BY <1>2, <2>1 DEF ILate, IDue
  <2>7. now + 1 <= end + Overrun
    BY <2>6, ClockFacts
  <2>8. CASE warn >= now
    <3>1. now + Timeout <= end + Overrun
      BY <2>6, <2>7, <2>8, ClockFacts DEF Timeout, Distance
    <3> QED
      BY <2>1, <2>2, <2>4, <2>5, <2>6, <2>7, <3>1, ClockFacts DEF ILate
  <2>9. CASE warn < now
    <3>1. now + Timeout = 2 * now - warn
      BY <2>9 DEF Timeout, Distance
    <3>2. 2 * now - warn <= end + Overrun
      <4>1. CASE warned
        BY <1>2, <2>1, <2>6, <4>1, ClockFacts DEF IDue
      <4>2. CASE ~warned
        BY <1>2, <2>1, <2>9, <4>2, ClockFacts DEF IDue, ILate, Beginning
      <4> QED
        BY <4>1, <4>2
    <3> QED
      BY <2>1, <2>2, <2>4, <2>5, <2>6, <2>7, <3>1, <3>2, ClockFacts DEF ILate
  <2> QED
    BY <2>8, <2>9
<1> QED
  BY <1>1, <1>2

\* The end of a pass decides whether to warn or to stop.
LEMMA LookAtClockClock ==
  ASSUME IRest, IClock, LookAtClock
  PROVE  IClock'
<1> USE DEF IRest, IClock, Running
<1> DEFINE due == IF til > end THEN til - TermWarn ELSE warn
<1>1. /\ phase = "pass" /\ phase' = "check"
      /\ end' = IF til > end THEN til ELSE end
      /\ UNCHANGED <<quit, now, til, wake, granted, asked>>
      /\ \/ now > end' /\ done' = TRUE /\ warn' = due /\ UNCHANGED warned
         \/ now <= end' /\ now > due /\ warned' = TRUE /\ warn' = due + Minute
            /\ UNCHANGED done
         \/ now <= end' /\ now <= due /\ warn' = due
            /\ warned' = (warned /\ til <= end) /\ UNCHANGED done
  BY DEF LookAtClock, main
<1>2. /\ til = granted /\ (done => asked) /\ now <= end + Overrun
      /\ (~warned => warn = end - TermWarn)
      /\ warn <= end + Overrun
      /\ (warned => warn >= end - TermWarn + Minute)
  BY <1>1 DEF IPromise, IDue, ILate
<1>3. end' >= end /\ end' >= til /\ end' \in Nat
  BY <1>1
<1>4. due \in Int /\ due >= end' - TermWarn /\ due <= end' + Overrun
  BY <1>1, <1>2, <1>3, ClockFacts
<1>5. IPromise'
  BY <1>1, <1>2, <1>3 DEF IPromise
<1>6. IWarning'
  <2>1. SUFFICES ASSUME Sane
                 PROVE  done' => asked \/ warned'
    BY <1>1 DEF IWarning
  <2>2. ~warned => now <= end
    BY <1>1, <2>1 DEF IWarning
  <2>3. now > end' => warned
    BY <1>3, <2>2
  <2>4. done' => asked \/ warned'
    <3>1. CASE now > end' /\ UNCHANGED warned
      BY <2>3, <3>1
    <3>2. CASE UNCHANGED done
      <4>1. done' => asked
        BY <1>2, <3>2
      <4> QED
        BY <4>1
    <3> QED
      BY <1>1, <3>1, <3>2
  <2> QED
    BY <2>4
<1>7. IDue'
  <2>1. warn' <= end' + Overrun
    BY <1>1, <1>3, <1>4, ClockFacts
  <2>2. ASSUME ~warned'
        PROVE  warn' = end' - TermWarn
    BY <1>1, <1>2, <2>2
  <2>3. ASSUME warned', ~done'
        PROVE  warn' >= end' - TermWarn + Minute
    <3>1. CASE now > due /\ warn' = due + Minute
      <4> HIDE DEF due
      <4>1. due + Minute >= end' - TermWarn + Minute
        BY <1>3, <1>4, ClockFacts, Shift
      <4> QED
        BY <3>1, <4>1
    <3>2. CASE warn' = due /\ warned /\ til <= end
      <4>1. warn' = warn /\ end' = end
        BY <1>1, <3>2
      <4> QED
        BY <1>2, <3>2, <4>1
    <3> QED
      BY <1>1, <2>3, <3>1, <3>2
  <2> QED
    BY <1>1, <2>1, <2>2, <2>3 DEF IDue
<1>8. ILate'
  <2>1. now <= end' + Overrun /\ (~done' => now <= end')
    BY <1>1, <1>2, <1>3, ClockFacts
  <2>2. ~done' => warned' \/ now <= warn'
    BY <1>1
  <2> QED
    BY <1>1, <2>1, <2>2 DEF ILate
<1> QED
  BY <1>5, <1>6, <1>7, <1>8

LEMMA ClockStep ==
  ASSUME IRest, IClock, [Next]_vars
  PROVE  IClock'
<1> USE DEF IRest, Running, Phases, Beginning
<1>1. CASE Listen \/ Retry \/ AddressFreed
  BY <1>1 DEF Listen, Retry, AddressFreed, IClock, IPromise, IWarning, IDue, ILate, clock, main
<1>2. CASE Tick \/ Select \/ Interrupt
  BY <1>2, ClockFacts
     DEF Tick, Select, Interrupt, IClock, IPromise, IWarning, IDue, ILate, clock, main
<1>3. CASE EndAsked \/ ExUser
  BY <1>3 DEF EndAsked, ExUser, IClock, IPromise, IWarning, IDue, ILate, clock, main
<1>4. ASSUME NEW v \in Extensions, Xtend(v)
      PROVE  IClock'
  BY <1>4, ExtensionAssumption DEF Xtend, IClock, IPromise, IWarning, IDue, ILate, main
<1>5. CASE Shutdown
  BY <1>5 DEF Shutdown, IClock, IPromise, IWarning, IDue, ILate
<1>6. CASE UNCHANGED vars
  BY <1>6 DEF vars, IClock, IPromise, IWarning, IDue, ILate
<1> QED
  BY <1>1, <1>2, <1>3, <1>4, <1>5, <1>6, FirstUserClock, CheckClock,
     LookAtClockClock DEF Next, Main, Users

LEMMA IClockInvariant == Spec => []IClock
<1>1. Init => IClock
  BY DEF Init, IClock, IPromise, IWarning, IDue, ILate, Running
<1>2. IRest /\ IClock /\ [Next]_vars => IClock'
  BY ClockStep
<1>3. IServer => IRest
  BY DEF IServer
<1> QED
  BY <1>1, <1>2, <1>3, IServerInvariant, PTL DEF Spec

\* A conference lasts as long as its duration and all extensions together,
\* unless the master, a reset or an interrupt ends it.
THEOREM NeverEndsEarlyCorrect == Spec => []NeverEndsEarly
<1>1. IClock => NeverEndsEarly
  BY DEF IClock, IPromise, NeverEndsEarly
<1> QED
  BY <1>1, IClockInvariant, PTL

\* With every -w from one unit to the length of two conferences, no sequence of
\* extensions lets a conference run out without a warning.
THEOREM EndIsWarnedCorrect == Spec => []EndIsWarned
<1>1. IClock => EndIsWarned
  BY DEF IClock, IWarning, Sane, EndIsWarned
<1> QED
  BY <1>1, IClockInvariant, PTL

\* The loop never oversleeps the end by more than Overrun, whatever -d and -w
\* are: main reads both without a limit.
THEOREM OverrunBoundedCorrect == Spec => []OverrunBounded
<1>1. IClock => OverrunBounded
  BY DEF IClock, ILate, OverrunBounded, Running
<1> QED
  BY <1>1, IClockInvariant, PTL

=============================================================================
