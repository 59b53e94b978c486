\* Three threads under fair scheduling.  No symmetry: it is not sound for liveness.
SPECIFICATION FairSpec
CONSTANTS
  t1 = t1  t2 = t2  t3 = t3
  Threads = {t1, t2, t3}
INVARIANTS Safety
PROPERTIES Progress ImplementsLock
