\* Two requests at a time: logins, PlaybackInfo, videos and subtitles.
\* Requests and changes are bounded, so the server may come to rest.
CHECK_DEADLOCK FALSE
SPECIFICATION Spec
SYMMETRY SlotSymmetry
CONSTANTS
  s1 = s1
  s2 = s2
  Role <- Roles
  Nobody = nobody
  Open = {}
  Ip = {"here"}
  Slot = {s1, s2}
  LoginLimit = 2
  Issued <- Given
  MaxRequests = 3
  MaxTokens = 2
  MaxChanges = 2
  MaxEvents = 4
  Faults = TRUE
  Film <- Films
  Item = {"i", "j"}
  First <- Shelf
  SubFile = {"x", "y"}
  Ranges <- Headers
  MaxMedia = 3
INVARIANTS GrantIsValid FailuresCounted DeliveredExactly
PROPERTIES InfoIsKept
