\* Two requests at a time, cancelled or not, on three jobs; a deleted library and
\* a restart.  Once both tasks have ended, requests and jobs are used up: the
\* server may come to rest.
CHECK_DEADLOCK FALSE
SPECIFICATION Spec
CONSTANTS
  Path = {p1}
  Task = {t1, t2}
  MaxJobs = 3
  MaxLibs = 1
  BatchLimit = 2
  MaxDeletes = 1
  MaxCrashes = 1
  Faults = FALSE
SYMMETRY Symm
INVARIANTS
  TypeOK ClaimedNotRun RunningIsWorked
  EndedTaskLeavesNoPending
PROPERTIES
  RefinesQueue
