\* Safety of one health checker with a concurrent caller of Taint.
SPECIFICATION Spec
CONSTANTS
  Callers = {c1}
  Loop = loop
  Timers = {t1, t2}
  NoTimer = NoTimer
  Configurations <- AllConfigurations
  healthCheckTaintConfig <- MCHealthCheckTaintConfig
  httpTaintConfig <- MCHttpTaintConfig
  Forget = 4
SYMMETRY Symmetry
INVARIANTS
  TypeOK
  TrackedTimerLive
  TrackedDeadline
  LostRemovalOnlyByCleanup
  BackoffBounded
PROPERTIES
  LatchesTaints
