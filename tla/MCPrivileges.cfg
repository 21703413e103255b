\* Three slots, every command, and a privileged user who may kill the master.
CONSTANTS
  Size = 3
  MayPriv = {1}
  Commands = {"bye", "tell", "kill", "killall", "mty", "norm", "give", "givenew", "xyzzy", "xreset"}
  LoopGives = TRUE
SPECIFICATION FairSpec
CHECK_DEADLOCK FALSE
INVARIANTS SlotsBelowMax
PROPERTIES CrashHasItsCause MasterLossEnds DoneEnds
