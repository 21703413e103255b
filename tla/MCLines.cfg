\* Three lines or requests in all, cut and buffered in every way.
CONSTANTS
  Letters = {"x", "y"}
  Text <- SomeText
  Ends <- EveryEnd
  Outcomes = {"IDLE", "BUILD", "LINE", "CHG", "OUT"}
  Splits = {"line", "request"}
  InSize = 2
  Units = 3
  Mail = 1
SPECIFICATION FairSpec
CHECK_DEADLOCK FALSE
INVARIANTS TypeOK TextKept LinesExact
PROPERTIES AllHandled
