\* Three threads, each nesting up to three deep, under fair scheduling.
SPECIFICATION FairSpec
CONSTANTS
  a = a  b = b  c = c
  NoOne = NoOne
  Threads = {a, b, c}
  MaxDepth = 3
  CountRange = 64
INVARIANTS Safety
PROPERTIES ImplementsRecursiveLock
