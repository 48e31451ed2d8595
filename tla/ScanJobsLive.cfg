\* Progress of the loop and of the admin task, with deletions and a restart.
\* Requests and restarts are bounded, so the server may come to rest.
CHECK_DEADLOCK FALSE
SPECIFICATION FairSpec
CONSTANTS
  Path = {p1, p2}
  Task = {t1}
  MaxJobs = 2
  MaxLibs = 1
  BatchLimit = 2
  MaxDeletes = 1
  MaxCrashes = 1
  Faults = TRUE
PROPERTIES
  PendingConsumed
  TaskEnds
