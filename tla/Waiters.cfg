\* Three threads, on one of three programs, under fair scheduling.
SPECIFICATION MCSpec
CONSTANTS
  t1 = t1  t2 = t2  t3 = t3
  Threads <- Three
  Spins <- Either
  MaxCalls = 2
  MaxCount = 2
  MaxCountToSignal = 1
\* All threads may wait for ever with nobody left to signal, set or post.
CHECK_DEADLOCK FALSE
INVARIANTS
  Safety
  SetWakesAll
PROPERTIES
  UsesLock
  SignalReturns
  ImplementsSemaphore
  ImplementsEvent
