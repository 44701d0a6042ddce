\* Three transfers to one path, of two chunks or one.
SPECIFICATION Spec
CONSTANTS
  up1 = up1
  cp1 = cp1
  up2 = up2
  Transfers = {up1, cp1, up2}
  Striped = {cp1}
  Chunks = {1, 2}
  MaxLate = 1
  Size <- MCSize
INVARIANTS
  DstIsWhole
  NeverMissing
PROPERTIES
  SuccessIsVisible
\* Transfers end.
CHECK_DEADLOCK FALSE
