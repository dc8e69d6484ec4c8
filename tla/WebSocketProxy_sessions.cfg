SPECIFICATION Spec
CONSTANTS
  Sessions = {s1}
  Ids = {r1}
  NoId = noId
  Subs = {x1}
  Words = {w1}
  NoResult = noResult
  Unsubscribers = {u1, u2}
INVARIANTS TypeOK TrackedIsOwned HeldIsTracked PendingIsExpected OneSpareConnection ErrChHasRoom
PROPERTY SessionEnds
CHECK_DEADLOCK FALSE
