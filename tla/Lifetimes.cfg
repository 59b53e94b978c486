\* Exit callbacks of three threads in blocks of two, of which the spare one and
\* others are used; one thread with thread-local storage for two keys at one or two
\* addresses, whose destructors look up no keys; three threads with references
\* to one object, whose views have two blocks; three calls on the standard streams.
SPECIFICATION MCSpec
CONSTANTS
  t1 = t1  t2 = t2  t3 = t3  a = a  b = b
  Threads <- Three
  NoOne = NoOne
  BlockSize = 2
  MaxCallbacks = 6
  Addresses <- Two
  NoKey = NoKey
  LookUps = FALSE
  MaxKeys = 2
  MaxItems = 4
  Blocks = {1000, 2000}
  NoThread = NoThread
  MaxRefs = 2
  Careful = TRUE
  Inputs <- MCInputs
  Writes <- MCWrites
  Reads <- MCReads
  Whole = TRUE
  FLUSH_THRESHOLD = 4
  INCREMENT = 8
  GRAIN = 4
  MaxCalls = 3
  Programs = {"exit", "thread", "pointers", "streams"}
SYMMETRY Symmetry
\* The process, or the thread, ends.
CHECK_DEADLOCK FALSE
INVARIANTS AccountedFor AllOnce LastFirst NeededOutlive OwnStorage 
  StreamsSound 
PROPERTIES NoRevival
