\* Three mopthreads and the main thread.  Everybody may have ended, or be joining
\* each other.
SPECIFICATION FairSpec
CONSTANTS
  a = a  b = b  c = c
  Main = Main  NoOne = NoOne
  Threads = {a, b, c}
CHECK_DEADLOCK FALSE
INVARIANTS Safety NothingLeaks
PROPERTIES ImplementsThreads MutexReleased
