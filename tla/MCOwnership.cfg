\* Four slots: a master, a submaster of his, a submaster of the submaster's,
\* and a user to pass around.  Nobody has privileges.
CONSTANTS
  Size = 4
  MayPriv = {}
  Commands = {"bye", "tell", "kill", "mty", "norm", "give", "givenew"}
  LoopGives = TRUE
SPECIFICATION Spec
CHECK_DEADLOCK FALSE
INVARIANTS TypeOK SlotsBelowMax MasterIsZero NobodyOrphaned RootedAtMaster
PROPERTIES OwnershipMoves
