\* Expected to fail: two starts overlap and the watch goes deaf.
CHECK_DEADLOCK FALSE
SPECIFICATION Spec
CONSTANTS
  top = top
  sub = sub
  Root = {top}
  Above <- AboveOf
  Call = {c1, c2}
  Admin = {}
  MaxStarts = 2
  MaxLibs = 1
  MaxWrites = 0
  MaxChanges = 0
  Faults = FALSE
INVARIANT RunningIsListening
