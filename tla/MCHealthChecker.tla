--------------------------- MODULE MCHealthChecker ---------------------------
(***************************************************************************)
(* HealthChecker for TLC.  The taint configurations are scaled down; no    *)
(* two of their durations change places.  In the code                      *)
(* http.InitialWaitTime (10s) < http.ResetWaitDuration (20s) <             *)
(* healthCheck.InitialWaitTime (30s) < http.MaxWaitTime (60s) <            *)
(* healthCheck.ResetWaitDuration (300s) < healthCheck.MaxWaitTime (1200s); *)
(* here 1, 1, 2, 3, 3, 4.                                                  *)
(***************************************************************************)
EXTENDS HealthChecker, TLC

MCHealthCheckTaintConfig ==
  [InitialWaitTime |-> 2, MaxWaitTime |-> 4, ResetWaitDuration |-> 3]

MCHttpTaintConfig ==
  [InitialWaitTime |-> 1, MaxWaitTime |-> 3, ResetWaitDuration |-> 1]

\* One tick, for the liveness runs: how long a taint lasts does not matter there.
OneTickTaintConfig ==
  [InitialWaitTime |-> 1, MaxWaitTime |-> 1, ResetWaitDuration |-> 0]

HttpEvm == [ConnectionType |-> "http", ChainType |-> "evm"]
HttpSolana == [ConnectionType |-> "http", ChainType |-> "solana"]
WebSocketEvm == [ConnectionType |-> "websocket", ChainType |-> "evm"]

AllConfigurations == {HttpEvm, HttpSolana, WebSocketEvm}
HttpEvmOnly == {HttpEvm}
EvmConfigurations == {HttpEvm, WebSocketEvm}

\* Callers and timers are interchangeable.
Symmetry == Permutations(Callers) \cup Permutations(Timers)

=============================================================================
