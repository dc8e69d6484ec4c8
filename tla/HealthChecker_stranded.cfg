\* A taint whose removal timer the run loop stopped.
SPECIFICATION FairSpec
CONSTANTS
  Callers = {c1}
  Loop = loop
  Timers = {t1, t2}
  NoTimer = NoTimer
  Configurations <- HttpEvmOnly
  healthCheckTaintConfig <- OneTickTaintConfig
  httpTaintConfig <- OneTickTaintConfig
  Forget = 1
PROPERTIES
  TaintRemovedAfterWait
