\* Liveness of one health checker under the fairness of the Go runtime.
SPECIFICATION FairSpec
CONSTANTS
  Callers = {c1}
  Loop = loop
  Timers = {t1, t2}
  NoTimer = NoTimer
  Configurations <- EvmConfigurations
  healthCheckTaintConfig <- OneTickTaintConfig
  httpTaintConfig <- OneTickTaintConfig
  Forget = 1
PROPERTIES
  TaintExpires
  EthCallRecurs
  LoopEnds
