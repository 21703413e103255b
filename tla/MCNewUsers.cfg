\* A submaster of a submaster receives the new users, and loses his command.
CONSTANTS
  Size = 3
  MayPriv = {}
  Commands = {"mty", "norm", "givenew", "bye"}
  LoopGives = TRUE
SPECIFICATION FairSpec
CHECK_DEADLOCK FALSE
PROPERTIES NewUsersReturn
