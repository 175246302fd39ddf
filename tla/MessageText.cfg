SPECIFICATION Spec
CONSTANTS
  MaxBytes = 4
  MaxRaw = 7
  MaxPosted = 5
CHECK_DEADLOCK FALSE
INVARIANTS
  ShownLineIsWhole
  TruncateKeepsWholePrefix
  StoredTextIsClean
  SameTextEverywhere
