\* Liveness: two movies, requests, failures, a restart.
SPECIFICATION FairSpec
CONSTANTS
  Movie = {m1, m2}
  Series = {}
  Tmdb = {t1}
  Junk = {}
  NoId = NoId
  NoItem = NoItem
  NfoId = {}
  AskId = {t1}
  Range <- AllItems
  MaxAttempts = 1
  BatchLimit = 2
  MaxRequests = 1
  MaxCrashes = 1
  Network = TRUE
  Faults = TRUE
  LateChildren = TRUE
PROPERTY Settles ForceJobEnds
CHECK_DEADLOCK FALSE
