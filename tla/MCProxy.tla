------------------------------- MODULE MCProxy -------------------------------
(***************************************************************************)
(* Proxy for TLC.                                                          *)
(***************************************************************************)
EXTENDS Proxy, TLC

Target(name, http, webSocket) == [Name |-> name, HTTP |-> http, WebSocket |-> webSocket]

\* Two providers with both connections.
TwoProviders == <<Target("a", TRUE, TRUE), Target("b", TRUE, TRUE)>>

\* A provider listed twice, once for each connection, and another one.
SplitProvider == <<Target("a", TRUE, FALSE), Target("a", FALSE, TRUE), Target("b", TRUE, TRUE)>>

\* Requests and slices are interchangeable.
Symmetry == Permutations(Requests) \cup Permutations(Slices)

=============================================================================
