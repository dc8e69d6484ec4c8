# A TLA+ model of rpc-gateway

rpc-gateway is a reverse proxy for blockchain RPC: it sends each client request
to a healthy provider, fails over to the next one, and keeps providers that
fail out of use for a while. This directory holds TLA+ modules of its parts, the
TLC configurations that check them on small instances, and proofs checked by
TLAPS that hold for every instance. `PROJECT.json` is the index: components,
runs, mutants, the map from definitions to source lines, findings, hazards,
theorems. Paths below are relative to `src/`.

## 1. Inventory

| Component | State | Operations | Interacts with |
|---|---|---|---|
| **Health checker** `internal/proxy/healthchecker.go`, `healthchecker_utils.go` | `isTainted`, `blockNumber`, `ethCallCheckCounter` (atomics); `taint` = last removal, wait time, removal timer, under `mu`; the one-slot channel `taintRemoveCh` | `CheckAndSetHealth`, `Taint` (`TaintHTTP`, `TaintHealthCheck`), `RemoveTaint`, `Start`/`runHealthChecker`, `Stop` | probes a provider; is tainted by request handlers and by sibling checkers; calls `onBlockNumberUpdate` and `onBeforeTaint` |
| **Health check manager** `healthcheckmanager.go` | the list `checkers`, the map `checkerMap` (name and connection type to checker) | `NewHealthCheckManager`, `checkBlockLagAndTaint`, `GetHealthChecker`, `Start`, `Stop` | is the block number callback of every checker of its path |
| **Request proxy** `proxy.go`, `nodeprovider.go`, `internal/errors/errors.go` | `targets` (fixed), `healthyPool` (pooled slices), the response under way | `ServeHTTP`, `forwardRequest`, `copyResponse`, `getHealthyProviders`, `handleProviderFailure`, `RandomizeProviders` | reads the checkers' flags, taints them, hands WebSocket requests to the WebSocket proxy |
| **WebSocket proxy** `websocketproxy.go` | global `subscriptions`, a pool of connections, per-connection subscription maps | `ServeHTTP` (two pipes and a ping goroutine), `UnsubscribeAll`, `getConnection`, `returnConnection` | called by the proxy; `UnsubscribeAll` is the `onBeforeTaint` of the WebSocket checker |
| **Gateway and main** `internal/rpcgateway`, `main.go` | servers, proxies and managers by path | `NewRPCGateway`, `SetRandomizeProviders`, `Start`, `Stop` | owns everything |
| **HTTP client factory** `httpclient.go` | one client per path | `CreateOptimizedHTTPClient` | proxy, checkers |
| **Metrics server** `internal/metrics` | a server, if enabled | `Start`, `Stop` | gateway |
| **Configuration structs** `config.go` | none of their own | | |

What is hard in this code:

* *Lock-free flags with locked companions.* `isTainted` is an atomic while the
  timer, the wait time and the removal time are under a mutex, so each call of
  `Taint` and `RemoveTaint` is several steps and they interleave with each other,
  with timer callbacks that `Stop` came too late for, and with the run loop.
* *A signal that arrives late.* `taintRemoveCh` says "a timer is finished";
  by the time it is received another timer may be recorded.
* *An unlocked scan.* The lag rule reads block numbers one by one while every
  other run loop writes its own.
* *A snapshot used for a long time.* A request reads health once and then walks
  a pooled slice for as long as its failover takes.
* *A response that cannot be taken back.* After the first header or the
  WebSocket upgrade, failover must stop.
* *Maps without a lock.* The pipes of a WebSocket session and its clean-up share
  two maps, and a message is forwarded before it is recorded.
* *A copy, a wait, a clear.* `UnsubscribeAll` gives up the lock to dial.
* *Start-up and shutdown in goroutines.* A port is probed by one goroutine and
  bound by another; a signal may come at any time.
* *Recovery by a timer alone.* While a checker is tainted nothing probes it.

What makes each component correct:

* health checker: a taint ends; the recorded timer is the one that will end it;
  the backoff stays in its bounds; the probes are not starved; shutdown ends the loop;
* manager: whoever is tainted for lag is behind, whoever is behind is tainted,
  and not everyone is tainted for lag;
* request proxy: one answer, from one source, for every request; failover tries
  each provider of the snapshot once; slices are not shared; every request ends;
* WebSocket proxy: a session's goroutines end once a peer is gone, the shared map holds what
  clients are subscribed to and sessions take out what they put in, and what is
  tracked is unsubscribed when the provider is tainted;
* gateway: after `Start` the servers get to listen, what is served is monitored until
  the signal, and nothing listens after `Stop`.

## 2. Plan

| Step | Modules | Status |
|---|---|---|
| A | `HealthChecker`: taint life cycle, run loop, shutdown; proofs | done |
| B | `HealthCheckManager`: list of checkers, lag rule; proofs | done |
| C | `Proxy`: requests, pooled snapshots, failover, response; proofs | done |
| D | `WebSocketProxy`: the pipes, ping goroutine, `closeAll`, subscription tracking, `UnsubscribeAll`; proofs | done |
| E | `Gateway`: loading, port probes, server goroutines, shutdown, HTTP clients by path, `RandomizeProviders`; proofs | done |
| F | `RequestService`, what a path promises its clients, and `Proxy` shown to implement it, by TLC and by proof | done |
| G | Proofs of all safety invariants the runs check | done |
| H | `TaintLatch`, an abstract taint, and `HealthChecker` shown to implement it, by TLC and by proof | done |
| I | Action properties of the lag rule, the pooled slices and the order of providers, the room in `errCh`, and weaker hypotheses for the manager; proofs | done |
| J | `parseHex` against a reference definition | open |

Each module is parameterised by `CONSTANTS` with named assumptions, has one
action per operation, and no recursive operator, so that it can be proved about.

## 3. Modules and the code

Each component `M` has its module `M.tla`, an `MCM.tla` with the values for TLC,
configurations `M_*.cfg`, and `MProofs.tla`; the proofs about `Proxy` are in three
modules, `ProxyProofs`, `ProxySnapshotProofs` and `ProxyRefinementProofs`, each
extending the one before. Definitions whose comment begins
with *Fault:* are deliberately wrong variants of the definition that follows,
each a plausible slip in that code; putting one in place of the original must
make a run fail, which shows that the property depends on the code.

### HealthChecker

One checker, the goroutine of its run loop (`Loop`), and other goroutines
(`Callers`) that taint it.

* `Taint` is `CallTaint` (the fast path), `TaintCleanup` (the callback
  `onBeforeTaint`, WebSocket only), `TaintStore` (`isTainted.Store(true)`) and
  `TaintArm` (all that happens under `mu`: backoff, stopping the old timer, arming and
  recording the new one). `call[t]` says where goroutine `t` is.
* A removal timer is pending, fired, removing (flag cleared, `mu` not yet taken),
  signalling, and free: `Fire`, `RemoveTaintStore`, `RemoveTaintRecord`,
  `SignalRemoval`. Any number of callbacks may be under way; only pending timers
  can be stopped.
* `runHealthChecker` is the select of `CheckAndSetHealth`, `CleanupTimer` and
  `LoopExit`; a check goes through the block number probe and, on every second
  count for EVM over HTTP, the `eth_call` probe. A probe is its outcome. The lag rule runs
  in this goroutine, and may taint another checker of the provider: `LagTaintsSibling` enters
  the `Taint` of that checker, whose `UnsubscribeAll` may hang, and `SiblingTainted` leaves it.
* Time is relative: ticks left on each timer, and the age of `lastRemoval`, which
  stops growing at `Forget`, past every `ResetWaitDuration`. Timers fire late,
  never early. `h.taint.config` is written and never read, and is left out.
* `cancelled` is a history variable: the run loop stopped a pending timer since
  the flag was last cleared.

### TaintLatch

What a checker promises about its taint, without timers, locks and clocks. A
goroutine that raises the flag (`Raise`) owes it a removal until it has arranged
one (`Arrange`), in whose favour at most one other removal is given up. A removal is
carried out (`CarryOut`, which lowers the flag) and then leaves a token
(`Notify`). Only a token can lose a removal (`Consume`), and a token comes from a removal
carried out before, or from `Stop`. `HealthChecker` maps its timers to
removals: pending and fired ones are arranged, those past the store of the flag
have a token to leave. `LatchesTaints` says that it implements the latch. The finding of
`checker_stranded` is a behaviour of the latch too: its `Consume` drops a removal, because the code's does.

### HealthCheckManager

The checkers of a path, built by `CheckersOf` from a list of targets as
`NewHealthCheckManager` does. A check probes, stores the block number and runs
`checkBlockLagAndTaint`: one `Scan` step for each checker it reads, then
`Decide`. Sums are modulo `Modulus`, as `uint64` sums are modulo 2^64. `Monotone`
is an assumption on providers: none reports a lower block number than before.
`Taint` is its fast path (`Tainting`) and the store of the flag (`StoreTaint`), which for
a WebSocket checker comes only when its `UnsubscribeAll` returns; what ends the taint is
`RemoveTaint`. `lag` is a history variable: the taint in force came from the lag rule.

### Proxy

Handler goroutines (`Requests`) that serve one request after another on one path.
`ServeHTTP` is split where it reads shared state or waits: reading the body,
taking a slice from the pool, one `IsHealthy` per target, the upstream call, the
header, the stream, the dial, the upgrade, the second dial. `backing` is the array
behind each slice, which keeps old entries, and `healthyPool` hands out any
slice that was put back. `statuses`, `sources` and `failed` are history: what the
client has received and who failed the request. Targets of one name share their
checkers through `checkerMap`, so a target may have a checker and no URL of its
type: over HTTP such a target only fails, over WebSocket it is skipped. An
upgrade that fails is answered with an error (`UpgradeFails`), or, once the upgrader has
taken the connection over, closes it without an answer (`UpgradeAborts`). A stream ends
well, by a client that went away, or by a reset of the provider (`ProviderResets`), which the
next step takes for the second (`ResetTakenForDisconnect`). A failed dial taints the provider's
WebSocket checker, which first runs `UnsubscribeAll`: the request is "tainting"
meanwhile, and `TaintDone` ends that.

### RequestService

What a path promises, without slices, order or tries: a request has a set of
candidates, all providers at first. `RuleOut` takes out one that is unusable, or
becomes so in that step; `Answer` lets a candidate answer; `Refuse` needs the set
to be empty. `Proxy` maps to it by `Phase`, `Candidates` and `Usable`: while the
snapshot is taken the candidates are what is in it and what is still to be
looked at, afterwards what the loop has not passed. `ServesRequests` says that
`Proxy` implements it.

### WebSocketProxy

The `WebSocketProxy` of one provider: sessions of `ServeHTTP`, and goroutines that
call `UnsubscribeAll`.

* A session is its handler `main` (`Open`, `Receive`, then `closeAll` as `Cleanup` and
  `Close`), the two pipes `c2t` and `t2c`, and `ping`. Reading a message and
  forwarding it is one step, since a message that is not forwarded leaves no
  trace; each access of a map afterwards is a step of its own: `RecordPending`,
  `DeleteConn`, `RemoveSubscription`, `NoMatch` or `Match`, `TrackSubscription`.
* `link` says whether a peer is gone: closed, or no longer reachable. A silent peer that stays
  connected is an open link on which nothing happens. `errCh` counts errors; a goroutine needs room in it to end.
* The maps of a session have no lock. When two goroutines are at conflicting
  accesses (`Racing`), the Go runtime may notice and end the process; `MapFault` does so,
  and the process starts again from nothing, as the systemd unit
  (`contrib/systemd/rpcgateway.service:8`, `Restart=always`) asks.
* `UnsubscribeAll` is `UnsubscribeCopy`, `ClearSubscriptions` or `GetConnectionFails`,
  and `SendUnsubscribes`.
* The provider is external: it answers each request once, gives no id twice to one connection,
  but may give one id to two, and gives other string results to other calls.
* A client may unsubscribe from any id, also another session's: `Unsubscribe` has no guard on
  who holds it. A batch is forwarded and not tracked (`BatchResponse`).
* `holders`, `named`, `missed`, `dropped` and `late` are history: who was given an id, which ids
  unsubscriptions named, answers that found no entry, ids left untracked (by such an answer,
  a batch, or `UnsubscribeAll`), and ids tracked too late. The properties name them as their only exceptions.

### Gateway

The process. `main` is a program counter through loading the entries, shuffling,
probing the ports, starting managers and servers, waiting, and stopping; the two
server goroutines, the signal and other programs on the ports interleave with
it. A path named twice replaces proxy and manager, and keeps the client of the first
entry. Of the 64-bit seed of `RandomizeProviders` the two low bits are kept, which the
generator maps to each other; `j` is any index that agrees with them, so every
order the code can reach is reached, and some it cannot. An invalid timeout is 0.
A signal before `NotifyContext` ends the process; a later one cancels the context the
run loops were started with, and they end one by one (`LoopsEnd`, `ended`) while main goes on to `Stop`.

## 4. Runs

| Run | Checks | Shows |
|---|---|---|
| `checker_safety` | `TypeOK`, `TrackedTimerLive`, `TrackedDeadline`, `LostRemovalOnlyByCleanup`, `BackoffBounded`, `LatchesTaints` | overlapping taints and stale callbacks keep timer, flag and backoff consistent; only the run loop's clean-up can lose a removal; the refinement of `TaintLatch` |
| `checker_liveness` | `TaintExpires`, `EthCallRecurs`, `LoopEnds` | a taint ends unless that clean-up hit its timer; `eth_call` is not starved; the loop ends unless it stays in an `UnsubscribeAll`, its own or a sibling's |
| `manager_lag` | `TypeOK`, `ScanSound`, `LagTaintJustified`, `LagSparesOne`, `LagDecisionSound`, `LaggardTainted` | the unlocked scan taints only who is behind, never everybody, and in the end whoever stays behind, unless a run loop stays in a WebSocket checker's `UnsubscribeAll`; what it read a while ago still holds when it decides |
| `proxy_safety` | `TypeOK`, `SliceExclusive`, `AnsweredOnce`, `SingleSource`, `FailoverComplete`, `SnapshotStable` | one answer from one source, complete failover in the order of `p.targets`, no slice shared or changed while in use |
| `proxy_liveness` | `RequestEnds`, `ServesRequests` | every request is answered, becomes a session, is cut off in its upgrade, or waits for an `UnsubscribeAll`; the refinement |
| `ws_sessions` | `TypeOK`, `TrackedIsOwned`, `HeldIsTracked`, `PendingIsExpected`, `OneSpareConnection`, `ErrChHasRoom`, `SessionEnds` | the maps agree but for the named exceptions, `UnsubscribeAll` uses one connection, no goroutine blocks on `errCh`, a session with a peer gone ends |
| `gateway_process` | `TypeOK`, `ServedIsMonitored`, `OrderKeepsTargets`, `ClientIsOwn`, `ClosedStaysClosed`, `OrderFrozen`, `StartedServes`, `SignalEnds` | start-up and shutdown in any interleaving with servers, signal, run loops and other programs |

Five runs show where the code does not do what the repository says; each is a
finding in `PROJECT.json`, with the quoted line:

| Run | Property violated | What happens |
|---|---|---|
| `checker_stranded` | `TaintRemovedAfterWait` | a timer fires and leaves its token; the checker is tainted again; the run loop receives the token and stops the new timer. `Taint` returns at its fast path from then on and no probe runs: the provider is out until the gateway restarts |
| `manager_sibling` | `LagTaintJustified` | with HTTP and WebSocket configured, the lag of the HTTP connection taints the WebSocket checker |
| `proxy_reset` | `BrokenStreamTaints` | a reset by the provider is taken for a client that went away |
| `proxy_upgrade` | `UpgradedHasSession` | the second dial fails after the client was upgraded |
| `ws_unsubscribe` | `UnsubscribesAllTracked` | a subscription tracked between the copy and the clear is forgotten, and no message is sent for it |

More differences were met and have no run.

* `README.md:66` says that "a provider is marked as healthy again as soon as it
  passes a health check": the flag is cleared by `RemoveTaint`, which only the removal
  timer calls, and no check runs while it is set.
* `README.md:101` to 105 shows "loop Configurable Retries" of a call to one provider, which "is
  rerouted after failing retries": no configuration names retries, and the loop tries each
  provider once, as `FailoverComplete` says of it.
* `README.md:100` says "Routes only to healthy targets": the snapshot is not looked
  at again, so a request may go to a provider tainted since.
* `healthcheckmanager.go:172` calls the lag test equivalent to a comparison of the
  difference: only while `updatedBlockNumber+threshold` does not wrap around, as the
  lemma `TooFarBehindExact` of section 5 makes precise.
* `healthchecker.go:541` says "skip repeated taint work": two goroutines can pass the
  fast path together, run the callback twice, and double the wait.
* `websocketproxy.go:86` says "If upstream closed gracefully, forward close frame to
  client": `websocket.IsCloseError(err)` is called without codes, is always false, and
  no close frame is sent.
* `websocketproxy.go:287` says "Only track subscription IDs if this response
  corresponds to a pending subscription request": an entry left behind by a
  response that came first (`missed`) makes the string result of a later call with
  that id a tracked subscription.
* `websocketproxy.go:203` says "all tracked subscriptions", of all clients: at lines 274 to
  280 one client's unsubscription removes whatever id it names from the map all sessions share,
  also one another client holds, which `UnsubscribeAll` then does not send.
* Subscriptions made in a batch are not tracked at all, since a batch is no JSON object (lines 151 and 256).
* `websocketproxy.go:161` says "keep the connection alive": nobody checks that a pong comes, and no read has a
  deadline, so a session with silent peers that stay connected lasts.
* `websocketproxy.go:58` to 62: an upgrade that fails after the connection was taken over closes it without a status.
* `websocketproxy.go:166`: the ping goroutine of a session that ended otherwise waits
  on a stopped ticker for good.
* `rpcgateway.go:85` says `isServerClosedError` "checks if an error is
  http.ErrServerClosed": it returns true for all other errors.
* `rpcgateway.go:106` says "Stop health check managers last": their run loops end at
  the signal, whose context they were started with, while the servers still listen, so
  `ServedIsMonitored` holds until the signal only.
* `RandomizeProviders`: the low bits of the generator alternate, so two targets are
  swapped or not according to the parity of the clock, and four targets reach at most 12 of 24 orders.
* Two entries with one path: the second proxy gets the client, and so the timeout,
  of the first.

### Bounds, and why they are enough

* `checker_safety`: one caller next to the run loop, two timers, one checker of
  each kind (HTTP EVM, HTTP Solana, WebSocket EVM). The races are between two
  goroutines past the fast path, a timer that fired and the timer that replaced
  it; each occurs. The durations are scaled down, none
  changes places with another (10, 20, 30, 60, 300 and 1200 s became 1, 1, 2, 3, 3
  and 4 ticks), and doubling, the cap and the reset all occur. The theorems have no such bounds.
  `Timers` bounds the timers that exist at one time, not how many are ever armed.
* `checker_liveness` and `checker_stranded`: one-tick taints, since how long
  a taint lasts does not matter to whether it ends.
* `manager_lag`: three checkers (two can be behind a third, scans of three
  interleave), threshold 1, blocks 0 to 2, so that below the threshold, exactly at it and
  beyond it all occur. `Modulus` is 4, so that no sum wraps around: `LagTaintJustified`
  needs that. The theorems cover other thresholds, and `LagDecisionIsSound` and
  `LagTaintIsExplained` sums that wrap around.
* `proxy_safety`: two requests and two slices over two providers with both
  connections. `proxy_liveness`: one request over a provider listed twice and
  another one. Requests interact only through the pool and the flags, which
  `HealthChange` flips at any time, so more requests add no kind of step.
* `ws_sessions`: one session with one request id, used again and again, one
  subscription, one other string, two callers of `UnsubscribeAll`: all races within a
  session and with `UnsubscribeAll`. Two sessions are too many for TLC with the liveness
  property; what sessions do to each other's subscriptions, and that `HeldIsTracked` holds
  all the same, is for the theorem, which has any number of them. `ws_unsubscribe` has two subscriptions, one to be copied and one to come late.
* `gateway_process`: two paths in three entries, one path named twice, lists of
  2, 3 and 4 targets; metrics on another port, on the same port, and disabled; a file with an invalid timeout.

### Fairness

* *Go scheduler and timers*: weak fairness of a goroutine's next step, of due
  timers and of time.
* *select* picks at random among its ready cases: strong fairness of
  `CleanupTimer` and `LoopExit`. That the interval timer leads to a check is not
  assumed (`EthCallRecurs` supposes that checks recur).
* *`TaintArm`* is strongly fair because only the model waits for a free member of
  `Timers`; the program allocates.
* *`TaintCleanup` has none*: `UnsubscribeAll` writes to sockets without a write
  deadline, so it may never return. Neither has `SiblingTainted`, nor `StoreTaint` on a WebSocket
  checker of `HealthCheckManager`. `LoopEnds` and `LaggardTainted` state the exception.
* *WebSocket sessions*: goroutines that can run do run. A pipe is bound to fail only once the gateway
  has closed its connections, since until then it may be blocked in a write
  without a deadline; a ping has a deadline and is bound to fail when a peer is gone, as long as the
  session lasts, and not on an open link, where the peer may be silent for ever. Nothing is assumed of clients, providers and `UnsubscribeAll`.
* *Gateway*: main and the server goroutines run. Signals and other programs need not come, and
  run loops need not end (`LoopsEnd`): `Stop` does not wait for them.
* *Probes and requests end*: probes by their context or read deadline, a request
  by the server's read and write timeouts, the context of `forwardRequest` and
  the handshake timeout. Sessions need not end, and `TaintDone` has no fairness:
  `RequestEnds` states the exception.
* *Manager*: the interval timer fires again and again (`StartCheck`), a probe ends,
  the scan does not block. `RemoveTaint` needs no fairness.

`ws_sessions`, `ws_unsubscribe` and `gateway_process` turn off deadlock checking: sessions end, and so does the process.

## 5. Proofs

All theorems hold for any number of goroutines, timers, checkers, requests,
slices and targets, under the named assumptions of the modules.

| Theorem | States | Argument |
|---|---|---|
| `HealthCheckerProofs!TypeCorrect` | `Spec => []TypeOK` | inductive, action by action |
| `TrackedTimerIsLive` | `[]TrackedTimerLive` | inductive given `TypeOK`: whoever moves the recorded timer out of its live states also overwrites the record, in one critical section |
| `LostRemovalNeedsCleanup` | `[]LostRemovalOnlyByCleanup` | inductive given `TypeOK`: a store of the flag is followed by arming; arming stops only a timer it replaces; a callback that runs clears the flag, so a taint stored later has its own arming |
| `TrackedDeadlineExact` | `[]TrackedDeadline` | given `TypeOK`: a stale callback resets `lastRemoval`, but forgets the timer in the same section |
| `BackoffStaysBounded` | `[]BackoffBounded` | the bounds of the doubled wait time, `NextWaitBounds` |
| `ImplementsTaintLatch` | `Spec => LatchesTaints` | step simulation by `LatchStep`, given `TypeOK` |
| `HealthCheckManagerProofs!TypeCorrect` | `Spec => []TypeOK` | the locals of a scan stay in range, `ReadFacts` |
| `ScanIsSound` | `[]ScanSound` | from `Monotone` alone, by `Scans` below |
| `LagDecisionIsSound` | `LagDecisionSound` (action property) | from `Monotone` alone: by `Scans` what was read still holds at `Decide`, it holds of a checker inside the `Taint` it decided on (`Laggards`), until the store of the flag, and `TooFarBehindExact` says what the test of `uint64` sums means |
| `LagTaintIsExplained` | a checker under a lag taint is behind, or its sum wraps around | from `Monotone`, `UniqueNames`, by `Scans` and `Lags` |
| `LagTaintIsJustified` | `[]LagTaintJustified` | the same, with `NoOverflow` |
| `LagAlwaysSparesOne` | `[]LagSparesOne` | from `Monotone`, `NoOverflow`. A lag taint is only on the last checker of a name (`LagOnLast`), so a name that repeats has a spared one; otherwise a checker with the highest block number (there is one since `<` on the naturals is well founded) is not behind |
| `ProxyProofs!SlicesAreExclusive` | `[]SliceExclusive` | by `SliceInv`: a slice held or pooled is one that was allocated, held slices differ and are not pooled |
| `ClientsAreAnsweredOnce` | `[]AnsweredOnce` | by `AnswerInv` below |
| `ResponsesHaveOneSource` | `[]SingleSource` | by `AnswerInv` |
| `ProxySnapshotProofs!TypeCorrect` | `Spec => []TypeOK` | by `SnapInv` below: types alone are not inductive, `Current` has to be a target |
| `FailoverIsComplete` | `[]FailoverComplete` | by `SnapInv` |
| `ProxyRefinementProofs!ProxyServesRequests` | `Spec => ServesRequests` | under `SnapInv` every step of `Proxy` is one of `RequestService` or a stutter |
| `SnapshotIsStable` | `SnapshotStable` (action property) | by `SnapInv`: the step's own request writes beyond its length (`OwnSliceKept`), others to other slices (`SliceKept`) |
| `WebSocketProxyProofs!TypeCorrect` | `SafetySpec => []TypeOK` | with `MessageOK`: a pipe that is at a map has a message for it |
| `TrackedIsAlwaysOwned` | `[]TrackedIsOwned` | inductive given the types |
| `HeldIsAlwaysTracked` | `[]HeldIsTracked` | with `OwnIds`: a session's maps and pipe from the provider hold only ids issued to it, so the clean-up of one that does not hold an id leaves it alone |
| `PendingIsAlwaysExpected` | `[]PendingIsExpected` | with `PendingOK`: also a request about to be recorded is expected |
| `OneSpareConnectionAlways` | `[]OneSpareConnection` | by `PoolInv`: one caller is past the mutex, and the pool is empty while it sends |
| `ErrChAlwaysHasRoom` | `[]ErrChHasRoom` | by `Room`: the errors in the channel and the goroutines that have not ended are three together at most |
| `GatewayProofs!TypeCorrect` | `SafetySpec => []TypeOK` | with `ShuffleOK`: the paths still to be shuffled are registered ones |
| `ServedIsAlwaysMonitored`, `ClosedAlwaysStaysClosed` | `[]ServedIsMonitored`, `[]ClosedStaysClosed` | by `PhaseInv`: what the place of main says of managers and servers, and that no run loop ends while the context is live |
| `OrderAlwaysKeepsTargets` | `[]OrderKeepsTargets` | a swap keeps what a list contains, `SwappedKeeps` |
| `OrderIsFrozen` | `OrderFrozen` (action property) | by `EarlyInv`: until the ports are probed nothing but main runs; only `Shuffle` writes a list |
| `ClientIsAlwaysOwn` | `[]ClientIsOwn` | by `ClientInv`: a client made is that of an entry loaded before with this path |

`LatchStep` matches each step of a checker with one of `TaintLatch`, and needs no invariant but
the types: the record names one timer, `Stop` takes away a pending timer and leaves
every callback under way (`StoppedDrops`), so that arming gives up at most one removal
for the new one, and the run loop drops at most one for the token it received. Probes, ticks
and the rest of the callbacks leave the latch alone.

`LagTaintJustified` is not inductive: nothing in it says what a scan under way
may conclude. `Scans` says, for each checker that scans, that its scan is about the block
number the checker has stored, that the highest number read is at most some provider's
current number, and that the checker it found is the last one of its provider's name
among those read. `Laggards` says that a check inside the `Taint` it decided on is behind until
`Taint` stores the flag. They need block numbers that never go back, and nothing else. `Lags` adds that a checker under a lag
taint is idle and behind, or its sum wraps around. With unique names a
lag taint comes from the checker's own check, which ends with it, and a tainted
checker is not probed: its block number stays where the rule found it while the
others only grow. The hypotheses are what the code relies on:
`manager_sibling` shows what happens without unique names, which a provider with
both connections does not have. What holds for such providers too is
`LagDecisionSound`, that the decision was right about the provider's scanning
checker, and `LagSparesOne`.

`AnsweredOnce` and `SingleSource` are not inductive either: `AnswerInv` ties the
place of a request to its response. Before a request is committed (header sent,
or upgraded) nothing has been written and the header is unmarked; after
that there is one status, and at most one source, unless the upgrade broke off ("closed"): then there is none.

`FailoverComplete` depends on what the slice holds. `Snap`, for each request, says
that it holds a slice exactly in the states between get and put, that the part of the
array up to its length is increasing (so no target is in it twice) and, while the snapshot is taken,
below the next target, and that the providers passed are the ones that failed.
`SliceInv` is what keeps other requests from writing to that array. The refinement adds
no invariant of its own: `ServeRefines` goes through the steps of a handler, and
`StepApart` shows that a step of one request leaves the abstract state of the others alone.

`ErrChHasRoom` is not inductive: it says nothing of the errors still to come. `Room` counts
them: a goroutine that ends gives its place to its error, and `Open` starts three goroutines
on an empty channel with three places.

`TrackedIsOwned` and `HeldIsTracked` have the races as their exceptions, so the theorems
say that there are no others: for any number of sessions and any interleaving, an id that one session
holds is lost only by an unsubscription that names it, a response that found no entry, a batch or
`UnsubscribeAll`, and an id is left over only by tracking after its removal.

Model-checked only: the liveness properties `TaintExpires`, `EthCallRecurs`, `LoopEnds`,
`LaggardTainted`, `RequestEnds`, `SessionEnds`, `StartedServes` and `SignalEnds`, since
fairness is outside the prover's reach.

## 6. Not modelled

* What probes and requests say: bodies, headers, parsing, TLS. A probe or an
  upstream call is its outcome. `parseHex` and the JSON of the probes decide
  that outcome alone.
* Whose fault an expired `forwardRequest` context is: it also bounds streaming to
  a slow client. The model has the outcome, a failure while streaming.
* The configuration file as YAML, the log set-up, the URL rewriting of the routes
  (`rpcgateway.go:198` to 218): sequential glue without state.
* `HTTPClientManager.GetClient` and the two `Close` methods of `httpclient.go`: nothing
  calls them. The tuning of the transports is data for net/http.
* What the metrics server serves, and the recording of metrics.
* The checkers, the proxy and the WebSocket proxy in one state space: the modules
  meet at flags and at `UnsubscribeAll`, and each leaves the other's part open
  (`HealthChange`, `TaintDone`, `TaintByCaller`, `Unsubscribers`), which allows every behaviour the
  others have.
