\* Two requests at a time beside a deletion and failing statements, every list
\* looked at when none is under way; an episode of the season after the gap may
\* have been started before.
\* Requests are bounded, so the server may come to rest.
CHECK_DEADLOCK FALSE
SPECIFICATION Spec
SYMMETRY SlotSymmetry
CONSTANTS
  Row <- Shelf
  Runtime <- Minutes
  Genres <- Kinds
  Position = {8}
  Playable = {4, 9, 10}
  Markable = {4}
  UsedBefore = {6}
  Slot = {s1, s2}
  MaxRequests = 2
  MaxDeletes = 1
  Faults = TRUE
  MaxLimit = 2
INVARIANTS RowIsHistory ResumeIsExact NextUpAgrees SessionsAgree CountsAgree EverythingReached
PROPERTIES PlayedIsEarned
