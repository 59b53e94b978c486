SPECIFICATION Spec
CONSTANTS
  t1 = t1  t2 = t2
  Threads = {t1, t2}
  NoThread = NoThread
  Blocks = {1000, 2000, 3000}
  MaxRefs = 2
  Careful = TRUE
INVARIANT CountsPositive
CHECK_DEADLOCK FALSE
