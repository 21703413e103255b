\* Two slots, and every command about what users send each other or want to be
\* sent; warnings come from the clock.
CONSTANTS
  Size = 2
  Heap = 2
  Backlog = 2
  Commands = {"tell", "out", "line", "id", "ignore", "ra", "rn"}
SPECIFICATION FairSpec
INVARIANTS TypeOK OutputUndisturbed
PROPERTIES IgnoredUnheard IdleAreServed
