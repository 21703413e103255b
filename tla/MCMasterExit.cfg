\* The master hangs up while another user is typing a tell-all.
CONSTANTS
  Size = 2
  MayPriv = {}
  Commands = {"tell"}
  LoopGives = TRUE
SPECIFICATION Spec
CHECK_DEADLOCK FALSE
INVARIANTS NeverCrashes
