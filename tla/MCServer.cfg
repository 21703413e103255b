\* With and without -l; conferences of six units, which XTEND makes nine at
\* most and which are over before the clock stops at fourteen; four
\* users leave, for whom the left list grows twice.
CONSTANTS
  Loops = {TRUE, FALSE}
  Retries = 1
  Duration = 6
  TermWarn = 5
  Minute = 2
  Extensions = {1, 2}
  MaxEnd = 9
  MaxNow = 14
  MaxGone = 4
SPECIFICATION FairSpec
CHECK_DEADLOCK FALSE
INVARIANTS TypeOK ListenerKept NeverEndsEarly EndIsWarned OverrunBounded LeftKept
PROPERTIES InterruptEnds TimeEnds
