------------------------------- MODULE Server -------------------------------
(***************************************************************************)
(* The life of the server (xcal.c): it listens, waits for a master, runs a *)
(* conference until its time is up, its master leaves or an interrupt      *)
(* comes, disconnects everybody, and with -l starts again on the listener  *)
(* it has.  The clock of con_run decides when warnings go out and when the *)
(* time is up; between two looks at it the server sleeps in select.        *)
(***************************************************************************)
EXTENDS Integers, Sequences, FiniteSetsExt

CONSTANTS
  Loops,       \* settings of the -l option: g_loop
  Retries,     \* RETRIES
  Duration,    \* length of a conference (-d)
  TermWarn,    \* how long before the end the first warning is due (-w)
  Minute,      \* time from one warning to the next
  Extensions,  \* what a privileged user adds with XTEND
  MaxEnd,      \* bound: the latest end XTEND can set
  MaxNow,      \* bound: the clock stops here, later than any conference lasts
  MaxGone      \* bound: users who leave a conference

ASSUME LoopAssumption == Loops \subseteq BOOLEAN /\ Retries \in Nat
ASSUME DurationAssumption == Duration \in Nat /\ TermWarn \in Int
ASSUME MinuteAssumption == Minute \in Nat \ {0}
ASSUME ExtensionAssumption == Extensions \subseteq Nat /\ {MaxEnd, MaxNow, MaxGone} \subseteq Nat

VARIABLES
  phase,    \* where main is
  ear,      \* g_con.ear: "unset" (0), "bad" (-1), "open" or "closed"
  busy,     \* somebody else is using the port
  retry,    \* attempts left
  quit,     \* g_quit
  loop,     \* g_loop
  done,     \* the flag of con_run
  now,      \* time since the conference began
  end,      \* when con_run means to stop
  warn,     \* when the next warning is due
  til,      \* cp->til, which XTEND adds to
  wake,     \* when select will return by itself
  warned,   \* history: a warning has been given since the end last moved
  granted,  \* history: the duration and the extensions together
  asked,    \* history: the master left, or a privileged user reset
  left,     \* cp->left: the users who have left, an array of cp->mnl slots
  nml,      \* cp->nml: how many they are
  gone      \* history: how many have left

vars == <<phase, ear, busy, retry, quit, loop, done, now, end, warn, til,
          wake, warned, granted, asked, left, nml, gone>>
clock == <<now, end, warn, til, wake, warned, granted>>
leavers == <<left, nml, gone>>
main == <<ear, busy, retry, quit, loop>>

\* A pointer to nobody; the n-th user to leave a conference is called n.
NULL == 0
mnl == Len(left)

Init ==
  /\ phase = "listen" /\ ear = "unset" /\ busy \in BOOLEAN
  /\ retry = Retries /\ quit = FALSE /\ loop \in Loops /\ done = FALSE
  /\ now = 0 /\ end = 0 /\ warn = 0 /\ til = 0 /\ wake = 0
  /\ warned = FALSE /\ granted = 0 /\ asked = FALSE
  /\ left = <<>> /\ nml = 0 /\ gone = 0

-----------------------------------------------------------------------------
\* Definitions ending in Bug are their namesakes with one plausible mistake.

\* con_init clears the left list, with room for two.
EmptyLeft == left' = <<NULL, NULL>> /\ nml' = 0 /\ gone' = 0

\* con_init listens when it is told to, which is when ear is 0.
Ear == IF ear = "unset" THEN IF busy THEN "bad" ELSE "open" ELSE ear

ListenForeverBug ==
  /\ phase = "listen"
  /\ ear' = Ear /\ EmptyLeft
  /\ \/ ear' # "bad" /\ phase' = "first" /\ UNCHANGED retry
     \/ ear' = "bad" /\ ~loop /\ phase' = "sleep" /\ retry' = retry - 1
     \/ ear' = "bad" /\ loop /\ phase' = "failed" /\ UNCHANGED retry
  /\ UNCHANGED <<busy, quit, loop, done, clock, asked>>

\* One attempt of main to start a conference
Listen ==
  /\ phase = "listen"
  /\ ear' = Ear /\ EmptyLeft
  /\ \/ ear' # "bad" /\ phase' = "first" /\ UNCHANGED retry
     \/ ear' = "bad" /\ retry > 0 /\ ~loop /\ phase' = "sleep" /\ retry' = retry - 1
     \/ ear' = "bad" /\ (retry = 0 \/ loop) /\ phase' = "failed" /\ UNCHANGED retry
  /\ UNCHANGED <<busy, quit, loop, done, clock, asked>>

Retry ==
  /\ phase = "sleep" /\ phase' = "listen"
  /\ UNCHANGED <<main, done, clock, asked, leavers>>

AddressFreed ==
  /\ busy /\ busy' = FALSE
  /\ UNCHANGED <<phase, ear, retry, quit, loop, done, clock, asked, leavers>>

\* The first con_newuser blocks in accept until somebody connects, or until an
\* interrupt has closed the listener; then con_run sets its clock.
FirstUser ==
  /\ phase = "first" /\ phase' = "check"
  /\ done' = FALSE /\ asked' = FALSE
  /\ now' = 0 /\ end' = Duration /\ til' = Duration /\ warn' = Duration - TermWarn
  /\ wake' = 0 /\ warned' = FALSE /\ granted' = Duration
  /\ UNCHANGED <<main, leavers>>

Distance(a, b) == IF a < b THEN b - a ELSE a - b

TimeoutSignedBug == IF warn > now THEN warn - now ELSE MaxEnd

\* labs(warn - time(NULL)); a poll that does not wait takes less than a unit.
Timeout == IF warn = now THEN 1 ELSE Distance(warn, now)

CheckIgnoresQuitBug ==
  /\ phase = "check"
  /\ IF done
       THEN phase' = "over" /\ UNCHANGED wake
       ELSE phase' = "select" /\ wake' \in {now + 1, now + Timeout}
  /\ UNCHANGED <<main, done, now, end, warn, til, warned, granted, asked, leavers>>

\* The head of con_run's loop.  With messages to deliver it only polls.
Check ==
  /\ phase = "check"
  /\ IF done \/ quit
       THEN phase' = "over" /\ UNCHANGED wake
       ELSE phase' = "select" /\ wake' \in {now + 1, now + Timeout}
  /\ UNCHANGED <<main, done, now, end, warn, til, warned, granted, asked, leavers>>

Tick ==
  /\ phase = "select" /\ now < wake /\ now < MaxNow /\ ~quit
  /\ now' = now + 1
  /\ UNCHANGED <<phase, main, done, end, warn, til, wake, warned, granted, asked, leavers>>

\* select returns: input, the timeout, or an interrupt, which also closes the
\* descriptor it waits for.
Select ==
  /\ phase = "select" /\ phase' = "pass"
  /\ UNCHANGED <<main, done, clock, asked, leavers>>

\* sig_int, from the moment it is installed until the loop has ended
Interrupt ==
  /\ phase \in {"first", "check", "select", "pass"} /\ ~quit
  /\ quit' = TRUE /\ ear' = "closed"
  /\ UNCHANGED <<phase, busy, retry, loop, done, clock, asked, leavers>>

\* What users do in a pass that matters here: the master leaves, or XRESET,
\* or XTEND, of users with privileges.
EndAsked ==
  /\ phase = "pass"
  /\ done' = TRUE /\ asked' = TRUE
  /\ UNCHANGED <<phase, main, clock, leavers>>

Xtend(v) ==
  /\ phase = "pass" /\ til + v <= MaxEnd
  /\ til' = til + v /\ granted' = granted + v
  /\ UNCHANGED <<phase, main, done, now, end, warn, wake, warned, asked, leavers>>

con_leftLateBug(who) ==
  LET stored == [left EXCEPT ![nml + 1] = who]
  IN  IF nml + 1 > mnl
      THEN [i \in 1 .. 2 * mnl |-> IF i <= nml + 1 THEN stored[i] ELSE NULL]
      ELSE stored

\* con_left: whoever leaves is remembered, and the array doubled once it is full.
con_left(who) ==
  LET stored == [left EXCEPT ![nml + 1] = who]
  IN  IF nml + 1 >= mnl
      THEN [i \in 1 .. 2 * mnl |-> IF i <= nml + 1 THEN stored[i] ELSE NULL]
      ELSE stored

\* con_exuser, as far as the left list is concerned
ExUser ==
  /\ phase = "pass" /\ gone < MaxGone
  /\ gone' = gone + 1 /\ left' = con_left(gone') /\ nml' = nml + 1
  /\ UNCHANGED <<phase, main, done, clock, asked>>

\* The end of a pass.  A later til moves the end and the warnings.
LookAtClockStaleBug ==
  /\ phase = "pass" /\ phase' = "check"
  /\ end' = end
  /\ \/ now > end' /\ done' = TRUE /\ UNCHANGED <<warned, warn>>
     \/ now <= end' /\ now > warn /\ warned' = TRUE /\ warn' = warn + Minute
        /\ UNCHANGED done
     \/ now <= end' /\ now <= warn /\ UNCHANGED <<done, warned, warn>>
  /\ UNCHANGED <<main, now, til, wake, granted, asked, leavers>>

LookAtClockOldWarningBug ==
  /\ phase = "pass" /\ phase' = "check"
  /\ end' = IF til > end THEN til ELSE end
  /\ \/ now > end' /\ done' = TRUE /\ UNCHANGED <<warned, warn>>
     \/ now <= end' /\ now > warn /\ warned' = TRUE /\ warn' = warn + Minute
        /\ UNCHANGED done
     \/ now <= end' /\ now <= warn /\ warned' = (warned /\ til <= end)
        /\ UNCHANGED <<done, warn>>
  /\ UNCHANGED <<main, now, til, wake, granted, asked, leavers>>

LookAtClockEqualBug ==
  /\ phase = "pass" /\ phase' = "check"
  /\ end' = IF til > end THEN til ELSE end
  /\ LET due == IF til > end THEN til - TermWarn ELSE warn
     IN  \/ now = end' /\ done' = TRUE /\ warn' = due /\ UNCHANGED warned
         \/ now # end' /\ now > due /\ warned' = TRUE /\ warn' = due + Minute
            /\ UNCHANGED done
         \/ now # end' /\ now <= due /\ warn' = due /\ UNCHANGED <<done, warned>>
  /\ UNCHANGED <<main, now, til, wake, granted, asked, leavers>>

LookAtClock ==
  /\ phase = "pass" /\ phase' = "check"
  /\ end' = IF til > end THEN til ELSE end
  /\ LET due == IF til > end THEN til - TermWarn ELSE warn
     IN  \/ now > end' /\ done' = TRUE /\ warn' = due /\ UNCHANGED warned
         \/ now <= end' /\ now > due /\ warned' = TRUE /\ warn' = due + Minute
            /\ UNCHANGED done
         \/ now <= end' /\ now <= due /\ warn' = due
            /\ warned' = (warned /\ til <= end) /\ UNCHANGED done
  /\ UNCHANGED <<main, now, til, wake, granted, asked, leavers>>

\* con_shutdown, then con_reset for another conference or con_clear for none
ShutdownClosesBug ==
  /\ phase = "over"
  /\ ear' = "closed"
  /\ retry' = Retries /\ left' = <<>> /\ nml' = 0
  /\ phase' = IF loop /\ ~quit THEN "listen" ELSE "exited"
  /\ UNCHANGED <<busy, quit, loop, done, clock, asked, gone>>

Shutdown ==
  /\ phase = "over"
  /\ retry' = Retries /\ left' = <<>> /\ nml' = 0
  /\ IF loop /\ ~quit THEN phase' = "listen" /\ UNCHANGED ear
                      ELSE phase' = "exited" /\ ear' = "bad"
  /\ UNCHANGED <<busy, quit, loop, done, clock, asked, gone>>

Main == Listen \/ Retry \/ Check \/ Select \/ LookAtClock \/ Shutdown
Users == FirstUser \/ EndAsked \/ ExUser \/ \E v \in Extensions : Xtend(v)

Next == Main \/ Users \/ Tick \/ Interrupt \/ AddressFreed

Spec == Init /\ [][Next]_vars

\* The process keeps running, select returns when its time has come, and time
\* passes; an interrupt ends a blocked accept.  Nobody need ever connect.
FairSpec ==
  /\ Spec
  /\ WF_vars(Main) /\ SF_vars(Tick)
  /\ WF_vars(quit /\ FirstUser)

-----------------------------------------------------------------------------
Phases == {"listen", "sleep", "first", "check", "select", "pass", "over",
           "exited", "failed"}
Running == phase \in {"check", "select", "pass"}

TypeOK ==
  /\ phase \in Phases /\ ear \in {"unset", "bad", "open", "closed"}
  /\ retry \in 0 .. Retries
  /\ {busy, quit, done, warned, asked, loop} \subseteq BOOLEAN
  /\ now \in Nat /\ end \in Nat /\ til \in Nat /\ wake \in Nat /\ granted \in Nat
  /\ warn \in Int
  /\ left \in Seq(Nat) /\ {nml, gone} \subseteq Nat

\* A conference always has its listener, however many came before it on the
\* same one, and has lost it exactly when an interrupt has come.
ListenerKept ==
  Running \/ phase = "first" => ear = IF quit THEN "closed" ELSE "open"

\* Nobody is cut off early: unless the master, a reset or an interrupt ends it,
\* a conference lasts as long as promised with all its extensions.
NeverEndsEarly == phase = "over" => quit \/ asked \/ now > granted

\* Whoever stays to the end has been warned of it, and again if it was moved in
\* time, however late the extension came, if -w is at least one unit and not
\* longer than two conferences.  With any other -w, which main does not refuse, a
\* conference may end without a warning: the server comes to the end before the
\* warning is due, or sleeps past it before its first look at the clock.
EndIsWarned ==
  TermWarn \in 1 .. 2 * Duration => (phase = "over" => quit \/ asked \/ warned)

\* How late con_run can notice the end: a minute; or what is left of an early
\* warning time after the first warning, which select sleeps through although
\* that warning is past; or what a warning time twice as long as the conference
\* has over; or, if it is negative, until the warning that is due after the end.
Overrun ==
  Max({Minute, TermWarn - Minute, TermWarn - 2 * Duration, 0 - TermWarn})

\* select may oversleep the end, but never by more than that.
OverrunBounded == Running => now <= end + Overrun

\* The left list, which LEFT prints, has everybody who has left this conference
\* in the order they left and nobody of an earlier one; and there is always room
\* for one more, since con_left stores before it grows.
LeftKept ==
  Running \/ phase = "over" =>
    nml < mnl /\ nml = gone /\ \A i \in 1 .. nml : left[i] = i

\* An interrupt at any moment of the loop, or while nobody has connected yet,
\* ends the server.
InterruptEnds == quit ~> phase = "exited"

\* Every conference ends by itself: once its time is up nobody has to type,
\* leave or connect for the server to notice.
TimeEnds == phase = "check" ~> phase = "over"

\* "Loop waiting for the address to become free"
AddressAwaited == phase = "sleep" /\ retry > 0 /\ ~busy ~> phase = "first"

=============================================================================
