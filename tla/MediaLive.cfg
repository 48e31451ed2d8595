\* A movie and the .strm that shadows it; failing statements, a restart, two
\* libraries one after the other; liveness.
\* The disk changes a bounded number of times, so the server may come to rest.
CHECK_DEADLOCK FALSE
SPECIFICATION FairSpec
CONSTANTS
  NoFile = NoFile
  m1 = m1
  u1 = u1
  w1 = w1
  e1 = e1
  File = {m1, u1}
  Kind <- KindOf
  Chain <- ChainOf
  Dir <- DirOf
  Twin <- TwinOf
  WithSubs = {m1}
  Titles = {}
  Seasons = {}
  ProbeWidth = 1
  MaxItems = 3
  MaxSources = 4
  MaxLibs = 2
  MaxChanges = 1
  MaxCrashes = 1
  Faults = TRUE

PROPERTIES Converges
