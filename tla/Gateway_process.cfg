SPECIFICATION Spec
CONSTANTS
  eth = eth
  bsc = bsc
  p1 = p1
  p2 = p2
  NoPort = none
  Paths <- MCPaths
  Ports <- MCPorts
  Configs <- MCConfigs
INVARIANTS TypeOK ServedIsMonitored OrderKeepsTargets ClientIsOwn ClosedStaysClosed
PROPERTIES OrderFrozen StartedServes SignalEnds
CHECK_DEADLOCK FALSE
