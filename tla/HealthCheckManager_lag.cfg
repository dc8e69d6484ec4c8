\* The lag rule over three providers, block numbers far from overflow.
SPECIFICATION FairSpec
CONSTANTS
  checkers <- OneConnectionEach
  BlockDiffThreshold = 1
  MaxBlock = 2
  Modulus = 4
  Monotone = TRUE
INVARIANTS
  TypeOK
  ScanSound
  LagTaintJustified
  LagSparesOne
PROPERTIES
  LagDecisionSound
  LaggardTainted
