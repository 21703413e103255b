\* The port is in use when the server starts, and is free soon after.
CONSTANTS
  Loops = {FALSE}
  Retries = 3
  Duration = 2
  TermWarn = 2
  Minute = 1
  Extensions = {}
  MaxEnd = 2
  MaxGone = 0
  MaxNow = 5
SPECIFICATION FairSpec
CHECK_DEADLOCK FALSE
PROPERTIES AddressAwaited
