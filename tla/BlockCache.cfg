CONSTANTS
  k1 = k1  r1 = r1  r2 = r2
  Key = {k1}
  Reader = {r1, r2}
  BlockSize = 2
  MaxBlocks = 1
  Length <- TheLengths
  Ranges <- TheRanges
  MaxReads = 3
  MaxChanges = 1
  MaxCrashes = 1
  Faults = TRUE
SYMMETRY Readers
SPECIFICATION Spec
CHECK_DEADLOCK FALSE
INVARIANTS
  ReadIsExact
  SizeBounded
