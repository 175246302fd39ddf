SPECIFICATION Spec
CONSTANTS
  MaxBytes = 4
  MaxRaw = 5
  MaxPosted = 0
CHECK_DEADLOCK FALSE
INVARIANT NoSplitCodePoint
