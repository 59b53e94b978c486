\* One thread that reads text, and devices that hand out any number of units.
SPECIFICATION MCSpec
CONSTANTS
  t1 = t1  t2 = t2  t3 = t3  a = a  b = b
  Threads = {t1}
  NoOne = NoOne
  BlockSize = 2
  MaxCallbacks = 6
  Addresses <- Two
  NoKey = NoKey
  LookUps = FALSE
  MaxKeys = 3
  MaxItems = 4
  Blocks = {1000, 2000}
  NoThread = NoThread
  MaxRefs = 2
  Careful = TRUE
  Inputs <- MCTextInputs
  Writes = {}
  Reads <- MCTextReads
  Whole = FALSE
  FLUSH_THRESHOLD = 4
  INCREMENT = 8
  GRAIN = 4
  MaxCalls = 3
  Programs = {"streams"}
CHECK_DEADLOCK FALSE
INVARIANTS TextIsWhole
