SPECIFICATION SafetySpec
CONSTANTS
  Sessions = {s1}
  Ids = {r1}
  NoId = noId
  Subs = {x1, x2}
  Words = {}
  NoResult = noResult
  Unsubscribers = {u1}
PROPERTY UnsubscribesAllTracked
CHECK_DEADLOCK FALSE
