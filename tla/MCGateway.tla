------------------------------ MODULE MCGateway ------------------------------
(***************************************************************************)
(* Small instances of Gateway for TLC.                                     *)
(***************************************************************************)
EXTENDS Gateway

CONSTANTS eth, bsc, p1, p2

MCPaths == {eth, bsc}

MCPorts == {p1, p2}

EntryOf(path, timeout, targets) == [Path |-> path, Timeout |-> timeout, Targets |-> targets]

\* A path named twice, with other timeouts; and a file with an invalid timeout.
MCProxies ==
  {<<EntryOf(eth, 1, 4), EntryOf(bsc, 2, 2), EntryOf(eth, 3, 3)>>,
   <<EntryOf(eth, 1, 4), EntryOf(bsc, 0, 1)>>}

MCConfigs ==
  [Port : {p1}, MetricsPort : {p1, p2, NoPort}, RandomizeProviders : BOOLEAN,
   Flag : BOOLEAN, Proxies : MCProxies]
====
