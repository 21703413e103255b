\* Three slots: a message with two recipients, one of whom leaves, goes out or
\* is replaced before it is posted or sent.
CONSTANTS
  Size = 3
  Heap = 2
  Backlog = 2
  Commands = {"tell", "warn", "out", "explain"}
SPECIFICATION Spec
INVARIANTS RefCounts ComposersHaveMessages OutHearsWarningsOnly WarningReaches
