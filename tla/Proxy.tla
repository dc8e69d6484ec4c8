-------------------------------- MODULE Proxy --------------------------------
(***************************************************************************)
(* Proxy of internal/proxy/proxy.go: concurrent requests on one path, the  *)
(* snapshot of healthy providers each takes into a pooled slice, failover  *)
(* along the snapshot, and what reaches the client.                        *)
(*                                                                         *)
(* Upstream calls, dials, writes to the client and the loads of isTainted  *)
(* are steps of their own; everything a handler does between two of them   *)
(* is local to its request.  A taint is its flag here: HealthChecker.tla   *)
(* has its life.  Each path has its own Proxy, and they share nothing.     *)
(***************************************************************************)
EXTENDS Integers, Sequences, FiniteSets

CONSTANTS
  Requests,   \* the handler goroutines; each serves one request after another
  Slices,     \* bound: the slices healthyPool allocates
  NoSlice,    \* the request holds no slice
  targets     \* p.targets: a sequence of [Name, HTTP, WebSocket]

ASSUME TargetsAssumption ==
  targets \in Seq([Name : STRING, HTTP : BOOLEAN, WebSocket : BOOLEAN])

ASSUME SlicesAssumption == NoSlice \notin Slices

Targets == DOMAIN targets

ConnectionTypes == {"http", "websocket"}

\* Is a URL of this connection type configured for target t?
Configured(t, type) == IF type = "http" THEN targets[t].HTTP ELSE targets[t].WebSocket

\* The keys of checkerMap: targets of the same name share their checkers.
Checkers ==
  {<<targets[c[1]].Name, c[2]>> :
    c \in {d \in Targets \X ConnectionTypes : Configured(d[1], d[2])}}

\* SetHealthCheckers(GetHealthChecker(..)): is the checker of target t not nil?
HasChecker(t, type) == <<targets[t].Name, type>> \in Checkers

VARIABLES
  tainted,    \* isTainted of every checker
  at,         \* where each request is
  conn,       \* getConnectionType of the request
  slice,      \* the slice healthyProviders uses
  len,        \* len(healthyProviders)
  next,       \* index of the loop the request is in
  backing,    \* the array behind every slice; 0 is nil
  pool,       \* the slices in healthyPool
  allocated,  \* the slices healthyPool.New has made
  statusSet,  \* X-Status-Set in the header of the response
  statuses,   \* history: the status codes written to the client
  sources,    \* history: who wrote body bytes, 0 for the gateway itself
  failed      \* history: the targets that failed this request

position == <<conn, slice, len, next>>
slices   == <<backing, pool, allocated>>
response == <<statusSet, statuses, sources>>
vars == <<tainted, at, position, slices, response, failed>>

States ==
  {"new", "readBody", "get", "scan", "try", "inflight", "streaming", "reset",
   "dialing", "tainting", "upgrading", "redial", "session", "done", "closed"}

TypeOK ==
  /\ tainted \in [Checkers -> BOOLEAN]
  /\ at \in [Requests -> States]
  /\ conn \in [Requests -> ConnectionTypes]
  /\ slice \in [Requests -> Slices \cup {NoSlice}]
  /\ len \in [Requests -> 0..Len(targets)]
  /\ next \in [Requests -> 1..(Len(targets) + 1)]
  /\ backing \in [Slices -> [Targets -> {0} \cup Targets]]
  /\ pool \subseteq Slices
  /\ allocated \subseteq Slices
  /\ statusSet \in [Requests -> BOOLEAN]
  /\ statuses \in [Requests -> Seq({101, 200, 400, 503})]
  /\ sources \in [Requests -> SUBSET ({0} \cup Targets)]
  /\ failed \in [Requests -> SUBSET Targets]

Init ==
  /\ tainted = [k \in Checkers |-> FALSE]
  /\ at = [r \in Requests |-> "new"]
  /\ conn = [r \in Requests |-> "http"]
  /\ slice = [r \in Requests |-> NoSlice]
  /\ len = [r \in Requests |-> 0]
  /\ next = [r \in Requests |-> 1]
  /\ backing = [s \in Slices |-> [t \in Targets |-> 0]]
  /\ pool = {}
  /\ allocated = {}
  /\ statusSet = [r \in Requests |-> FALSE]
  /\ statuses = [r \in Requests |-> <<>>]
  /\ sources = [r \in Requests |-> {}]
  /\ failed = [r \in Requests |-> {}]

-----------------------------------------------------------------------------
\* Request r moves to state a.
Goto(r, a) == at' = [at EXCEPT ![r] = a]

\* target.IsHealthy(connType).
IsHealthy(t, type) == HasChecker(t, type) /\ ~tainted[<<targets[t].Name, type>>]

\* The target of the current iteration, and its checker.
Current(r) == backing[slice[r]][next[r]]

CurrentChecker(r) == <<targets[Current(r)].Name, conn[r]>>

\* handleProviderFailure, and the failed dial of a WebSocket request: isTainted
\* is set by TaintHTTP.
TaintCurrent(r) ==
  /\ tainted' = [tainted EXCEPT ![CurrentChecker(r)] = TRUE]
  /\ failed' = [failed EXCEPT ![r] = @ \cup {Current(r)}]

\* WriteHeader(code), which also marks the header, and body bytes of source.
Write(r, code, source) ==
  /\ statusSet' = [statusSet EXCEPT ![r] = TRUE]
  /\ statuses' = [statuses EXCEPT ![r] = IF statusSet[r] THEN @ ELSE Append(@, code)]
  /\ sources' = [sources EXCEPT ![r] = @ \cup {source}]

\* The deferred releaseHealthyProviders: a request that got a slice puts it back.
Release(r) ==
  /\ pool' = pool \cup ({slice[r]} \ {NoSlice})
  /\ slice' = [slice EXCEPT ![r] = NoSlice]
  /\ UNCHANGED <<conn, len, next, backing, allocated>>

\* The handler returns.
Return(r) == Goto(r, "done") /\ Release(r)

-----------------------------------------------------------------------------
(* ServeHTTP up to the snapshot *)

Arrive(r, type) ==
  /\ at[r] = "new"
  /\ conn' = [conn EXCEPT ![r] = type]
  /\ Goto(r, IF type = "websocket" THEN "get" ELSE "readBody")
  /\ UNCHANGED <<tainted, slice, len, next, slices, response, failed>>

ReadBodyOk(r) ==
  /\ at[r] = "readBody"
  /\ Goto(r, "get")
  /\ UNCHANGED <<tainted, position, slices, response, failed>>

ReadBodyFails(r) ==
  /\ at[r] = "readBody"
  /\ Write(r, 400, 0)
  /\ Return(r)
  /\ UNCHANGED <<tainted, failed>>

\* Fault: the slice goes back to the pool as soon as it is taken.
GetSliceReleased(r) ==
  /\ at[r] = "get"
  /\ \E s \in pool \cup (Slices \ allocated) :
       /\ slice' = [slice EXCEPT ![r] = s]
       /\ pool' = pool \cup {s}
       /\ allocated' = allocated \cup {s}
  /\ len' = [len EXCEPT ![r] = 0]
  /\ next' = [next EXCEPT ![r] = 1]
  /\ Goto(r, "scan")
  /\ UNCHANGED <<tainted, conn, backing, response, failed>>

\* Fault: the slice keeps the length it had, healthy[:0] is missing.
GetSliceKeepsLength(r) ==
  /\ at[r] = "get"
  /\ \E s \in pool \cup (Slices \ allocated) :
       /\ slice' = [slice EXCEPT ![r] = s]
       /\ pool' = pool \ {s}
       /\ allocated' = allocated \cup {s}
  /\ next' = [next EXCEPT ![r] = 1]
  /\ Goto(r, "scan")
  /\ UNCHANGED <<tainted, conn, len, backing, response, failed>>

\* healthyPool.Get: some slice of the pool, or one New allocates; healthy[:0].
GetSlice(r) ==
  /\ at[r] = "get"
  /\ \E s \in pool \cup (Slices \ allocated) :
       /\ slice' = [slice EXCEPT ![r] = s]
       /\ pool' = pool \ {s}
       /\ allocated' = allocated \cup {s}
  /\ len' = [len EXCEPT ![r] = 0]
  /\ next' = [next EXCEPT ![r] = 1]
  /\ Goto(r, "scan")
  /\ UNCHANGED <<tainted, conn, backing, response, failed>>

\* One iteration of getHealthyProviders.
ScanTarget(r) ==
  /\ at[r] = "scan"
  /\ next[r] <= Len(targets)
  /\ IF IsHealthy(next[r], conn[r])
     THEN /\ backing' = [backing EXCEPT ![slice[r]][len[r] + 1] = next[r]]
          /\ len' = [len EXCEPT ![r] = @ + 1]
     ELSE UNCHANGED <<backing, len>>
  /\ next' = [next EXCEPT ![r] = @ + 1]
  /\ UNCHANGED <<tainted, at, conn, slice, pool, allocated, response, failed>>

NoHealthyProviders(r) ==
  /\ at[r] = "scan"
  /\ next[r] > Len(targets)
  /\ len[r] = 0
  /\ Write(r, 503, 0)
  /\ Return(r)
  /\ UNCHANGED <<tainted, failed>>

StartFailover(r) ==
  /\ at[r] = "scan"
  /\ next[r] > Len(targets)
  /\ len[r] > 0
  /\ next' = [next EXCEPT ![r] = 1]
  /\ Goto(r, "try")
  /\ UNCHANGED <<tainted, conn, slice, len, slices, response, failed>>

-----------------------------------------------------------------------------
(* The failover loop, HTTP *)

\* forwardRequest sends the request, with a context of its own.
Forward(r) ==
  /\ at[r] = "try"
  /\ next[r] <= len[r]
  /\ conn[r] = "http"
  /\ Goto(r, "inflight")
  /\ UNCHANGED <<tainted, position, slices, response, failed>>

\* Fault: a retry although headers were sent.
ProviderFailsRetries(r) ==
  /\ at[r] \in {"inflight", "streaming"}
  /\ TaintCurrent(r)
  /\ next' = [next EXCEPT ![r] = @ + 1]
  /\ Goto(r, "try")
  /\ UNCHANGED <<conn, slice, len, slices, response>>

\* Fault: the same provider is tried again.
ProviderFailsStays(r) ==
  /\ at[r] \in {"inflight", "streaming"}
  /\ TaintCurrent(r)
  /\ IF statusSet[r]
     THEN Return(r)
     ELSE Goto(r, "try") /\ UNCHANGED <<position, slices>>
  /\ UNCHANGED response

\* Fault: a failure ends the loop as if every provider had been tried.
ProviderFailsGivesUp(r) ==
  /\ at[r] \in {"inflight", "streaming"}
  /\ TaintCurrent(r)
  /\ IF statusSet[r]
     THEN Return(r)
     ELSE /\ next' = [next EXCEPT ![r] = len[r] + 1]
          /\ Goto(r, "try")
          /\ UNCHANGED <<conn, slice, len, slices>>
  /\ UNCHANGED response

\* forwardRequest returns 0 (the request cannot be made, fails or times out, the
\* status is not 2xx, the stream breaks off): the next provider, unless headers
\* were sent to the client.
ProviderFails(r) ==
  /\ at[r] \in {"inflight", "streaming"}
  /\ TaintCurrent(r)
  /\ IF statusSet[r]
     THEN Return(r)
     ELSE /\ next' = [next EXCEPT ![r] = @ + 1]
          /\ Goto(r, "try")
          /\ UNCHANGED <<conn, slice, len, slices>>
  /\ UNCHANGED response

\* Fault: X-Status-Set is not set.
CopyResponseUnmarked(r) ==
  /\ at[r] = "inflight"
  /\ Configured(Current(r), "http")
  /\ statuses' = [statuses EXCEPT ![r] = IF statusSet[r] THEN @ ELSE Append(@, 200)]
  /\ sources' = [sources EXCEPT ![r] = @ \cup {Current(r)}]
  /\ Goto(r, "streaming")
  /\ UNCHANGED <<tainted, position, slices, statusSet, failed>>

\* A 2xx response: copyResponse sends the header and begins to stream.  A target
\* that has the HTTP checker of a namesake, and no URL, never answers.
CopyResponse(r) ==
  /\ at[r] = "inflight"
  /\ Configured(Current(r), "http")
  /\ Write(r, 200, Current(r))
  /\ Goto(r, "streaming")
  /\ UNCHANGED <<tainted, position, slices, failed>>

\* forwardRequest returns 1.
StreamDone(r) ==
  /\ at[r] = "streaming"
  /\ Return(r)
  /\ UNCHANGED <<tainted, response, failed>>

\* isBrokenPipeError on a write to the client: forwardRequest returns -1.
ClientDisconnects(r) ==
  /\ at[r] = "streaming"
  /\ Return(r)
  /\ UNCHANGED <<tainted, response, failed>>

\* io.Copy ends in ECONNRESET, on a read from the provider.
ProviderResets(r) ==
  /\ at[r] = "streaming"
  /\ Goto(r, "reset")
  /\ UNCHANGED <<tainted, position, slices, response, failed>>

\* isBrokenPipeError holds of that error too: forwardRequest returns -1.
ResetTakenForDisconnect(r) ==
  /\ at[r] = "reset"
  /\ Return(r)
  /\ UNCHANGED <<tainted, response, failed>>

-----------------------------------------------------------------------------
(* The failover loop, WebSocket *)

\* GetWebSocketProxy is nil: the checker belongs to a target of the same name.
SkipTarget(r) ==
  /\ at[r] = "try"
  /\ next[r] <= len[r]
  /\ conn[r] = "websocket"
  /\ ~targets[Current(r)].WebSocket
  /\ next' = [next EXCEPT ![r] = @ + 1]
  /\ failed' = [failed EXCEPT ![r] = @ \cup {Current(r)}]
  /\ UNCHANGED <<tainted, at, conn, slice, len, slices, response>>

Dial(r) ==
  /\ at[r] = "try"
  /\ next[r] <= len[r]
  /\ conn[r] = "websocket"
  /\ targets[Current(r)].WebSocket
  /\ Goto(r, "dialing")
  /\ UNCHANGED <<tainted, position, slices, response, failed>>

\* Fault: the provider stays in use after a failed dial.
TaintDoneForgets(r) ==
  /\ at[r] = "tainting"
  /\ next' = [next EXCEPT ![r] = @ + 1]
  /\ failed' = [failed EXCEPT ![r] = @ \cup {Current(r)}]
  /\ Goto(r, "try")
  /\ UNCHANGED <<tainted, conn, slice, len, slices, response>>

\* TaintHTTP of a WebSocket checker runs UnsubscribeAll before it taints, unless
\* the checker is tainted already.
TaintDone(r) ==
  /\ at[r] = "tainting"
  /\ TaintCurrent(r)
  /\ next' = [next EXCEPT ![r] = @ + 1]
  /\ Goto(r, "try")
  /\ UNCHANGED <<conn, slice, len, slices, response>>

DialFails(r) ==
  /\ at[r] = "dialing"
  /\ IF tainted[CurrentChecker(r)]
     THEN /\ next' = [next EXCEPT ![r] = @ + 1]
          /\ failed' = [failed EXCEPT ![r] = @ \cup {Current(r)}]
          /\ Goto(r, "try")
     ELSE /\ Goto(r, "tainting")
          /\ UNCHANGED <<next, failed>>
  /\ UNCHANGED <<tainted, conn, slice, len, slices, response>>

\* The test connection is closed again.
DialOk(r) ==
  /\ at[r] = "dialing"
  /\ Goto(r, "upgrading")
  /\ UNCHANGED <<tainted, position, slices, response, failed>>

\* The upgrader finds the handshake wrong and answers with an error itself.
UpgradeFails(r) ==
  /\ at[r] = "upgrading"
  /\ statuses' = [statuses EXCEPT ![r] = Append(@, 400)]
  /\ Return(r)
  /\ UNCHANGED <<tainted, statusSet, sources, failed>>

\* The upgrader has taken the connection over from the server, and closes it: the
\* client sent data too early, or the answer cannot be written.
UpgradeAborts(r) ==
  /\ at[r] = "upgrading"
  /\ Goto(r, "closed")
  /\ Release(r)
  /\ UNCHANGED <<tainted, response, failed>>

UpgradeOk(r) ==
  /\ at[r] = "upgrading"
  /\ statuses' = [statuses EXCEPT ![r] = Append(@, 101)]
  /\ Goto(r, "redial")
  /\ UNCHANGED <<tainted, position, slices, statusSet, sources, failed>>

\* WebSocketProxy.ServeHTTP dials for the session; a failure closes the client.
RedialFails(r) ==
  /\ at[r] = "redial"
  /\ Return(r)
  /\ UNCHANGED <<tainted, response, failed>>

RedialOk(r) ==
  /\ at[r] = "redial"
  /\ Goto(r, "session")
  /\ sources' = [sources EXCEPT ![r] = @ \cup {Current(r)}]
  /\ UNCHANGED <<tainted, position, slices, statusSet, statuses, failed>>

SessionEnds(r) ==
  /\ at[r] = "session"
  /\ Return(r)
  /\ UNCHANGED <<tainted, response, failed>>

-----------------------------------------------------------------------------
AllProvidersFailed(r) ==
  /\ at[r] = "try"
  /\ next[r] > len[r]
  /\ Write(r, 503, 0)
  /\ Return(r)
  /\ UNCHANGED <<tainted, failed>>

\* The next request, with a new response.
NextRequest(r) ==
  /\ at[r] \in {"done", "closed"}
  /\ Goto(r, "new")
  /\ statusSet' = [statusSet EXCEPT ![r] = FALSE]
  /\ statuses' = [statuses EXCEPT ![r] = <<>>]
  /\ sources' = [sources EXCEPT ![r] = {}]
  /\ failed' = [failed EXCEPT ![r] = {}]
  /\ UNCHANGED <<tainted, position, slices>>

\* The health checks taint a checker; its removal timer clears the taint.
HealthChange(k) ==
  /\ tainted' = [tainted EXCEPT ![k] = ~@]
  /\ UNCHANGED <<at, position, slices, response, failed>>

\* The steps of a handler that are bound to come.
ServeStep(r) ==
  \/ ReadBodyOk(r) \/ ReadBodyFails(r)
  \/ GetSlice(r) \/ ScanTarget(r) \/ NoHealthyProviders(r) \/ StartFailover(r)
  \/ Forward(r) \/ ProviderFails(r) \/ CopyResponse(r)
  \/ StreamDone(r) \/ ClientDisconnects(r) \/ ProviderResets(r) \/ ResetTakenForDisconnect(r)
  \/ SkipTarget(r) \/ Dial(r) \/ DialFails(r) \/ DialOk(r)
  \/ UpgradeFails(r) \/ UpgradeAborts(r) \/ UpgradeOk(r) \/ RedialFails(r) \/ RedialOk(r)
  \/ AllProvidersFailed(r)

Next ==
  \/ \E r \in Requests, type \in ConnectionTypes : Arrive(r, type)
  \/ \E r \in Requests : ServeStep(r) \/ TaintDone(r) \/ SessionEnds(r) \/ NextRequest(r)
  \/ \E k \in Checkers : HealthChange(k)

Spec == Init /\ [][Next]_vars

\* Every wait of a handler is bounded: the server's read and write timeouts, the
\* context of forwardRequest, the handshake timeout.  A session may last, and so
\* may UnsubscribeAll, which writes to the provider without a deadline.
FairSpec == Spec /\ \A r \in Requests : WF_vars(ServeStep(r))

-----------------------------------------------------------------------------
(* Safety *)

Holding(r) == slice[r] # NoSlice

(***************************************************************************)
(* A slice of healthyPool belongs to one request from Get to Put: it is    *)
(* never in the pool, nor with another request, while it is in use.        *)
(***************************************************************************)
SliceExclusive ==
  \A r \in Requests :
    Holding(r) => /\ slice[r] \notin pool
                  /\ \A q \in Requests \ {r} : slice[q] # slice[r]

(***************************************************************************)
(* A client gets one status line: never a second one on failover, and no   *)
(* handler returns without one, whatever path through the loop it took.    *)
(* The exception is an upgrade that breaks off when the upgrader has taken *)
(* the connection over: that client's connection is closed without one.    *)
(***************************************************************************)
AnsweredOnce ==
  \A r \in Requests :
    /\ Len(statuses[r]) <= 1
    /\ at[r] = "done" => Len(statuses[r]) = 1

(***************************************************************************)
(* "we MUST NOT retry because the stream is already committed": the bytes  *)
(* of one response never come from two providers, nor from a provider and  *)
(* the gateway's own error message.                                        *)
(***************************************************************************)
SingleSource ==
  \A r \in Requests : \A x, y \in sources[r] : x = y

(***************************************************************************)
(* Failover skips nobody, repeats nobody and keeps the order of p.targets: *)
(* what the loop has passed is exactly what failed this request, and comes *)
(* before the target it is at, although the slice is pooled and the health *)
(* of the providers changes all the time.  So "All providers failed" is    *)
(* said when all of the snapshot did, each of them once: there are none of *)
(* the "Configurable Retries" of one provider in the README's diagram.     *)
(***************************************************************************)
FailoverComplete ==
  \A r \in Requests :
    at[r] \in {"try", "inflight", "dialing", "tainting"} =>
      /\ failed[r] = {backing[slice[r]][k] : k \in 1..(next[r] - 1)}
      /\ next[r] <= len[r] => \A t \in failed[r] : t < Current(r)

(***************************************************************************)
(* What a request has put in its slice stays as it is until the request    *)
(* puts the slice back: no handler, its own included, writes to it again,  *)
(* although healthyPool hands the same arrays out over and over.           *)
(***************************************************************************)
SnapshotStable ==
  [][\A r \in Requests :
       Holding(r) /\ slice'[r] = slice[r] =>
         \A k \in 1..len[r] : backing'[slice[r]][k] = backing[slice[r]][k]]_vars

(***************************************************************************)
(* Every request is answered, or its upgrade breaks off, or it becomes a   *)
(* WebSocket session, or is held by the UnsubscribeAll of a provider it    *)
(* has to taint.                                                           *)
(***************************************************************************)
RequestEnds ==
  \A r \in Requests : at[r] # "new" ~> at[r] \in {"done", "closed", "session", "tainting"}

-----------------------------------------------------------------------------
(***************************************************************************)
(* Refinement: the providers not ruled out for a request are the ones in   *)
(* its snapshot that the failover loop has not passed, and while the       *)
(* snapshot is taken also the targets still to be looked at.               *)
(***************************************************************************)
Snapshot(r, from) == {backing[slice[r]][k] : k \in from..len[r]}

Phase(r) ==
  CASE at[r] = "new" -> "idle"
    [] at[r] \in {"streaming", "reset", "session"} -> "answered"
    [] at[r] \in {"done", "closed"} -> "over"
    [] OTHER -> "serving"

Candidates(r) ==
  CASE at[r] \in {"readBody", "get"} -> Targets
    [] at[r] = "scan" -> Snapshot(r, 1) \cup {t \in Targets : t >= next[r]}
    [] Phase(r) = "serving" /\ at[r] \notin {"readBody", "get", "scan"} -> Snapshot(r, next[r])
    [] OTHER -> {}

Usable(type) == {t \in Targets : Configured(t, type) /\ IsHealthy(t, type)}

Service == INSTANCE RequestService WITH
  Providers  <- Targets,
  Kinds      <- ConnectionTypes,
  Gateway    <- 0,
  phase      <- [r \in Requests |-> Phase(r)],
  kind       <- conn,
  candidates <- [r \in Requests |-> Candidates(r)],
  author     <- sources,
  usable     <- [type \in ConnectionTypes |-> Usable(type)]

(***************************************************************************)
(* The proxy implements RequestService: a request is refused only when     *)
(* every provider has been found unusable for it, each at some moment of   *)
(* the request, and no provider that was ruled out answers it, while       *)
(* taints come and go between the snapshot and its use.  One whose taint   *)
(* was lifted since it was looked at is usable and left out all the same.  *)
(***************************************************************************)
ServesRequests == Service!Spec

-----------------------------------------------------------------------------
(* What the repository says of the program and the code does not do *)

(***************************************************************************)
(* copyResponse: "Don't treat broken pipe as a provider failure - it's a   *)
(* client disconnection".  So a stream the provider broke off, which is    *)
(* none, does not end with that provider untainted.                        *)
(***************************************************************************)
BrokenStreamTaints ==
  [][\A r \in Requests :
       at[r] = "reset" /\ at'[r] # "reset" => tainted'[CurrentChecker(r)]]_vars

(***************************************************************************)
(* ServeHTTP: "Connection successful - safe to upgrade".  An upgraded      *)
(* client has a session.                                                   *)
(***************************************************************************)
UpgradedHasSession ==
  [][\A r \in Requests : at[r] = "redial" => at'[r] \in {"redial", "session"}]_vars

=============================================================================
