\* Rings of one and three bytes, holding four bytes at most: they wrap at
\* every place and grow from full more than once.
CONSTANTS
  Bytes = {cr, lf, nul}
  CR = cr
  LF = lf
  NUL = nul
  InitSizes = {1, 3}
  Limit = 4
SPECIFICATION Spec
CHECK_DEADLOCK FALSE
INVARIANTS RingOK LineMissedOnlyWhenFull
PROPERTIES IsBytestream
