\* Two addresses, at which three keys are allocated; blocks of two callbacks;
\* four objects and callbacks.  Destructors look up keys.
SPECIFICATION Spec
CONSTANTS
  a = a  b = b
  Addresses = {a, b}
  NoKey = NoKey
  BlockSize = 2
  LookUps = TRUE
  MaxKeys = 3
  MaxItems = 4
\* A thread that has ended does not go on.
CHECK_DEADLOCK FALSE
INVARIANTS GetIsSound
