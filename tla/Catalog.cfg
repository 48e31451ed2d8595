\* Two scrapes beside an NFO file or a deletion, and an identification.
\* Tasks are bounded, so the writers come to rest.
CHECK_DEADLOCK FALSE
SPECIFICATION Spec
CONSTANTS
  Row <- Shelf
  Tmdb <- Answers
  Nfo <- Files
  NameOf <- Names
  Face <- Faces
  Matches <- Found
  Deletable = {4}
  MaxBackdrops = 3
  MaxTasks = 3
  Faults = TRUE
INVARIANTS NothingForeign LatestIsExact PagesAgree
