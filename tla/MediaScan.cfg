\* A movie and an episode; virtual seasons; two libraries, one after the other.
\* The disk changes a bounded number of times, so the server may come to rest.
CHECK_DEADLOCK FALSE
SPECIFICATION Spec
CONSTANTS
  NoFile = NoFile
  m1 = m1
  u1 = u1
  w1 = w1
  e1 = e1
  File = {m1, e1}
  Kind <- KindOf
  Chain <- ChainOf
  Dir <- DirOf
  Twin <- TwinOf
  WithSubs = {m1}
  Titles = {"T"}
  Seasons = {1}
  ProbeWidth = 1
  MaxItems = 4
  MaxSources = 3
  MaxLibs = 2
  MaxChanges = 1
  MaxCrashes = 0
  Faults = FALSE
INVARIANTS Mirrors NothingLeftOver Intact OneSource
PROPERTIES LiveSourceStays
