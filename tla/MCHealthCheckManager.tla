------------------------- MODULE MCHealthCheckManager -------------------------
(***************************************************************************)
(* HealthCheckManager for TLC: the checkers are those that                 *)
(* NewHealthCheckManager creates for small lists of targets.  They are     *)
(* written out, for TLC would compute CheckersOf again at every step.      *)
(***************************************************************************)
EXTENDS HealthCheckManager

Target(name, http, webSocket) == [Name |-> name, HTTP |-> http, WebSocket |-> webSocket]

Checker(name, type) == [Name |-> name, ConnectionType |-> type]

\* Three providers with one connection each: one of them WebSocket only.
OneConnectionEach ==
  <<Checker("a", "http"), Checker("b", "websocket"), Checker("c", "http")>>

\* One provider with both connections, as in the example configuration.
BothConnections == <<Checker("a", "http"), Checker("a", "websocket")>>

ASSUME CheckersAsBuilt ==
  /\ OneConnectionEach =
       CheckersOf(<<Target("a", TRUE, FALSE), Target("b", FALSE, TRUE), Target("c", TRUE, FALSE)>>)
  /\ BothConnections = CheckersOf(<<Target("a", TRUE, TRUE)>>)

=============================================================================
