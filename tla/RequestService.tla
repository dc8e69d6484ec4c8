---------------------------- MODULE RequestService ----------------------------
(***************************************************************************)
(* What a path of the gateway promises to its clients: a request is        *)
(* answered by a provider that has not been ruled out for it, and refused  *)
(* only when all have been.  A provider is ruled out when it cannot be     *)
(* used, or because it just failed the request, which makes it unusable.   *)
(* How providers are found and in which order they are tried is left open. *)
(***************************************************************************)
CONSTANTS
  Requests,
  Providers,
  Kinds,      \* of requests: a provider may be usable for some of them only
  Gateway     \* the author of the gateway's own answers

VARIABLES
  phase,       \* of each request
  kind,
  candidates,  \* the providers that are not ruled out for a request
  author,      \* the set of those who wrote to the client
  usable       \* the usable providers, for each kind of request

vars == <<phase, kind, candidates, author, usable>>

Init ==
  /\ phase = [r \in Requests |-> "idle"]
  /\ kind \in [Requests -> Kinds]
  /\ candidates = [r \in Requests |-> {}]
  /\ author = [r \in Requests |-> {}]
  /\ usable \in [Kinds -> SUBSET Providers]

Accept(r, k) ==
  /\ phase[r] = "idle"
  /\ phase' = [phase EXCEPT ![r] = "serving"]
  /\ kind' = [kind EXCEPT ![r] = k]
  /\ candidates' = [candidates EXCEPT ![r] = Providers]
  /\ UNCHANGED <<author, usable>>

\* Providers may become unusable in a step, none becomes usable.
Failures == \A k \in Kinds : usable'[k] \subseteq usable[k]

RuleOut(r, t) ==
  /\ phase[r] = "serving"
  /\ t \in candidates[r]
  /\ candidates' = [candidates EXCEPT ![r] = @ \ {t}]
  /\ Failures
  /\ t \notin usable'[kind[r]]
  /\ UNCHANGED <<phase, kind, author>>

\* Request r leaves the phase "serving", and a writes to its client.
Settle(r, following, a) ==
  /\ phase[r] = "serving"
  /\ phase' = [phase EXCEPT ![r] = following]
  /\ candidates' = [candidates EXCEPT ![r] = {}]
  /\ author' = [author EXCEPT ![r] = a]
  /\ UNCHANGED <<kind, usable>>

Answer(r, t) == t \in candidates[r] /\ Settle(r, "answered", {t})

\* Nobody is left.
Refuse(r) == candidates[r] = {} /\ Settle(r, "over", {Gateway})

\* The request cannot be read; nobody was asked.
Reject(r) == candidates[r] = Providers /\ Settle(r, "over", {Gateway})

\* The client could not be upgraded, or was and then nobody serves it.
Abandon(r) == candidates[r] # {} /\ Settle(r, "over", {})

Finish(r) ==
  /\ phase[r] = "answered"
  /\ phase' = [phase EXCEPT ![r] = "over"]
  /\ Failures
  /\ UNCHANGED <<kind, candidates, author>>

Reset(r) ==
  /\ phase[r] = "over"
  /\ phase' = [phase EXCEPT ![r] = "idle"]
  /\ author' = [author EXCEPT ![r] = {}]
  /\ UNCHANGED <<kind, candidates, usable>>

\* Health checks, and the removal of taints.
HealthChange ==
  /\ usable' \in [Kinds -> SUBSET Providers]
  /\ UNCHANGED <<phase, kind, candidates, author>>

Step(r) ==
  \/ \E k \in Kinds : Accept(r, k)
  \/ \E t \in Providers : RuleOut(r, t) \/ Answer(r, t)
  \/ Refuse(r) \/ Reject(r) \/ Abandon(r) \/ Finish(r) \/ Reset(r)

Next == (\E r \in Requests : Step(r)) \/ HealthChange

Spec == Init /\ [][Next]_vars

=============================================================================
