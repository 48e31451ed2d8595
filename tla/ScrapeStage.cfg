\* A movie and a series, whose children are inserted before it is taken;
\* requests with ids TMDB knows or does not, a restart.
\* Requests are bounded, so the stage may come to rest.
CHECK_DEADLOCK FALSE
SPECIFICATION Spec
CONSTANTS
  Movie = {m1}
  Series = {s1}
  Tmdb = {t1}
  Junk = {j1}
  NoId = NoId
  NoItem = NoItem
  NfoId = {t1}
  AskId = {t1, j1}
  Range <- AllItems
  MaxAttempts = 2
  BatchLimit = 2
  MaxRequests = 1
  MaxCrashes = 1
  Network = TRUE
  Faults = FALSE
  LateChildren = FALSE
INVARIANTS TypeOK WaitingHasTriesLeft ScrapingIsInFlight ChildrenFollow
PROPERTIES OnlyPendingMarked RefinesUndisturbed
