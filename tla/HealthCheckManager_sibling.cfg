\* A provider with an HTTP and a WebSocket connection.
SPECIFICATION Spec
CONSTANTS
  checkers <- BothConnections
  BlockDiffThreshold = 1
  MaxBlock = 2
  Modulus = 4
  Monotone = TRUE
INVARIANTS
  LagTaintJustified
