\* Three slots: a master, a submaster and a user he receives, is relieved of,
\* or passes on; two notices may wait for each.
CONSTANTS
  Size = 3
  MayPriv = {}
  Commands = {"bye", "tell", "kill", "mty", "norm", "give", "givenew"}
  LoopGives = FALSE
  Backlog = 2
SPECIFICATION NoticesSpec
CHECK_DEADLOCK FALSE
INVARIANTS NoticesTypeOK ToldMaster ToldRank PassedToLeaders
