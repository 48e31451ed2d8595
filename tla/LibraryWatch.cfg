\* Overlapping watch requests, nested directories, library requests beside them.
\* Requests and changes are bounded, so the server may come to rest.
CHECK_DEADLOCK FALSE
SPECIFICATION FairSpec
CONSTANTS
  top = top
  sub = sub
  Root = {top, sub}
  Above <- AboveOf
  Call = {c1, c2}
  Admin = {a1}
  MaxStarts = 2
  MaxLibs = 2
  MaxWrites = 1
  MaxChanges = 1
  Faults = TRUE
INVARIANTS StatusIsTrue RegistrySound
PROPERTIES ChangeIsEnqueued
