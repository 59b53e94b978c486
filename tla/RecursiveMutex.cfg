\* Three threads and a count that does not wrap: the mutex is never released.
SPECIFICATION RecursiveSpec
CONSTANTS
  a = a  b = b  c = c
  NoOne = NoOne
  Threads = {a, b, c}
  CountRange = 64
  MaxDepth = 2
CHECK_DEADLOCK FALSE
INVARIANTS UnlockReleases
