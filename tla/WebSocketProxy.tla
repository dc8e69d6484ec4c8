---------------------------- MODULE WebSocketProxy ----------------------------
(***************************************************************************)
(* The WebSocketProxy of one provider, internal/proxy/websocketproxy.go:   *)
(* the sessions of ServeHTTP, each with its two pipes, its ping goroutine  *)
(* and the handler that waits for the first error, the tracking of         *)
(* subscriptions, and UnsubscribeAll, which Taint of the provider's        *)
(* WebSocket checker calls.                                                *)
(*                                                                         *)
(* Grain of atomicity.  A pipe reads a message and forwards it in one      *)
(* step; what it then does to the maps takes steps of its own, since the   *)
(* peer has the message by then.  A section under p.mu is one step.        *)
(* connectionSubscriptions and pendingSubscriptionRequests have no lock:   *)
(* two goroutines at conflicting accesses may also end the process, which  *)
(* is how the Go runtime reacts to such a race when it sees it.            *)
(*                                                                         *)
(* Messages without an id (notifications) change no state and are left     *)
(* out, as is the close frame that no read error ever asks for.            *)
(***************************************************************************)
EXTENDS Integers, FiniteSets

CONSTANTS
  Sessions,       \* bound: the client connections of a run
  Ids,            \* the JSON-RPC request ids a client uses
  NoId,
  Subs,           \* bound: the subscription ids the provider issues
  Words,          \* string results that are no subscription ids
  NoResult,       \* an error, or a result that is not a string
  Unsubscribers   \* the goroutines that call UnsubscribeAll

ASSUME IdAssumption == NoId \notin Ids

ASSUME ResultAssumption == Words \cap Subs = {} /\ NoResult \notin Subs \cup Words

\* The strings that can get into the maps, and all results.
Strings == Subs \cup Words

Results == Strings \cup {NoResult}

VARIABLES
  main,           \* where the handler ServeHTTP is
  link,           \* the two connections of a session
  c2t,            \* the pipe "client->target": where it is, with its message
  t2c,            \* the pipe "target->client"
  ping,           \* the ping goroutine
  errCh,          \* how many errors the channel holds
  pending,        \* pendingSubscriptionRequests
  connSubs,       \* connectionSubscriptions
  subscriptions,  \* p.subscriptions
  connPool,       \* how many connections p.connPool holds
  unsub,          \* per goroutine: where UnsubscribeAll is, with its subIDs
  inFlight,       \* the method of each request the provider has yet to answer
  holders,        \* the sessions a subscription id was issued to
  named,          \* the ids that unsubscriptions of any client have named
  missed,         \* history: request ids whose answer found no pending entry
  dropped,        \* history: ids that answers or UnsubscribeAll left untracked
  late            \* history: ids tracked when nobody was left to remove them

goroutines == <<main, link, ping, errCh>>
pipes      == <<c2t, t2c>>
maps       == <<pending, connSubs>>
shared     == <<connPool, unsub>>
peers      == <<inFlight, holders, named>>
history    == <<missed, dropped, late>>
vars == <<goroutines, pipes, maps, subscriptions, shared, peers, history>>

\* Fault: a buffer for one error only.
ErrChSizeOne == 1

\* Buffer of 3 to handle errors from 2 pipes + ping goroutine.
ErrChSize == 3

\* Pool of 5 connections.
PoolSize == 5

(***************************************************************************)
(* c2t: record   about to set pendingSubscriptionRequests[id];             *)
(*      delete   about to delete connectionSubscriptions[sub];             *)
(*      remove   about to call RemoveSubscription(sub).                    *)
(* t2c: match    about to look id up in pendingSubscriptionRequests;       *)
(*      track    about to call TrackSubscription(result).                  *)
(***************************************************************************)
C2TType == [at : {"off", "read", "record", "delete", "remove", "done"},
            id : Ids \cup {NoId}, sub : Subs \cup {NoResult}]

T2CType == [at : {"off", "read", "match", "track", "done"},
            id : Ids \cup {NoId}, method : {"subscribe", "call"}, result : Results]

UnsubType == [at : {"idle", "copied", "send"},
              subIDs : SUBSET Strings]

TypeOK ==
  /\ main \in [Sessions -> {"idle", "serving", "cleanup", "clear", "close", "done"}]
  /\ link \in [Sessions -> {"open", "gone", "closed"}]
  /\ c2t \in [Sessions -> C2TType]
  /\ t2c \in [Sessions -> T2CType]
  /\ ping \in [Sessions -> {"wait", "done"}]
  /\ errCh \in [Sessions -> 0..ErrChSize]
  /\ pending \in [Sessions -> SUBSET Ids]
  /\ connSubs \in [Sessions -> SUBSET Strings]
  /\ subscriptions \subseteq Strings
  /\ connPool \in 0..PoolSize
  /\ unsub \in [Unsubscribers -> UnsubType]
  /\ inFlight \in [Sessions -> [Ids -> {"none", "subscribe", "call"}]]
  /\ holders \in [Subs -> SUBSET Sessions]
  /\ named \subseteq Subs
  /\ missed \in [Sessions -> SUBSET Ids]
  /\ dropped \subseteq Subs
  /\ late \subseteq Strings

\* A pipe at a, with what is left of its message.
C2T(a, sub) == [at |-> a, id |-> NoId, sub |-> sub]
T2C(a, result) == [at |-> a, id |-> NoId, method |-> "call", result |-> result]

NotUnsubscribing == [at |-> "idle", subIDs |-> {}]

\* NewWebSocketProxy; no client has connected.
Init ==
  /\ main = [s \in Sessions |-> "idle"]
  /\ link = [s \in Sessions |-> "closed"]
  /\ c2t = [s \in Sessions |-> C2T("off", NoResult)]
  /\ t2c = [s \in Sessions |-> T2C("off", NoResult)]
  /\ ping = [s \in Sessions |-> "done"]
  /\ errCh = [s \in Sessions |-> 0]
  /\ pending = [s \in Sessions |-> {}]
  /\ connSubs = [s \in Sessions |-> {}]
  /\ subscriptions = {}
  /\ connPool = 0
  /\ unsub = [u \in Unsubscribers |-> NotUnsubscribing]
  /\ inFlight = [s \in Sessions |-> [r \in Ids |-> "none"]]
  /\ holders = [x \in Subs |-> {}]
  /\ named = {}
  /\ missed = [s \in Sessions |-> {}]
  /\ dropped = {}
  /\ late = {}

-----------------------------------------------------------------------------
(* ServeHTTP *)

\* Upgraded, the provider dialled, the three goroutines started.
Open(s) ==
  /\ main[s] = "idle"
  /\ main' = [main EXCEPT ![s] = "serving"]
  /\ link' = [link EXCEPT ![s] = "open"]
  /\ c2t' = [c2t EXCEPT ![s] = C2T("read", NoResult)]
  /\ t2c' = [t2c EXCEPT ![s] = T2C("read", NoResult)]
  /\ ping' = [ping EXCEPT ![s] = "wait"]
  /\ UNCHANGED <<errCh, maps, subscriptions, shared, peers, history>>

\* The upgrade fails, or createNewConnection does and the client is closed.
OpenFails(s) ==
  /\ main[s] = "idle"
  /\ main' = [main EXCEPT ![s] = "done"]
  /\ UNCHANGED <<link, ping, errCh, pipes, maps, subscriptions, shared, peers, history>>

\* The first error arrives: closeAll begins.
Receive(s) ==
  /\ main[s] = "serving"
  /\ errCh[s] > 0
  /\ errCh' = [errCh EXCEPT ![s] = @ - 1]
  /\ main' = [main EXCEPT ![s] = "cleanup"]
  /\ UNCHANGED <<link, ping, pipes, maps, subscriptions, shared, peers, history>>

\* cleanupConnectionSubscriptions up to the unlock; nothing to do returns early.
Cleanup(s) ==
  /\ main[s] = "cleanup"
  /\ main' = [main EXCEPT ![s] = IF connSubs[s] = {} THEN "close" ELSE "clear"]
  /\ subscriptions' = subscriptions \ connSubs[s]
  /\ UNCHANGED <<link, ping, errCh, pipes, maps, shared, peers, history>>

\* The session's map is cleared unless it was found empty, both connections are
\* closed, and what the provider had yet to answer is lost.
Close(s) ==
  /\ main[s] \in {"clear", "close"}
  /\ main' = [main EXCEPT ![s] = "done"]
  /\ connSubs' = IF main[s] = "clear" THEN [connSubs EXCEPT ![s] = {}] ELSE connSubs
  /\ link' = [link EXCEPT ![s] = "closed"]
  /\ inFlight' = [inFlight EXCEPT ![s] = [r \in Ids |-> "none"]]
  /\ UNCHANGED <<ping, errCh, pipes, pending, subscriptions, shared, holders, named, history>>

-----------------------------------------------------------------------------
(* The pipe client->target, and trackSubscriptionFromMessage *)

\* A message of the client is read and written to the provider.
FromClient(s) ==
  /\ c2t[s].at = "read"
  /\ link[s] # "closed"
  /\ UNCHANGED <<goroutines, t2c, maps, subscriptions, shared, holders, history>>

Request(s, r, method) ==
  /\ inFlight[s][r] = "none"
  /\ inFlight' = [inFlight EXCEPT ![s][r] = method]

Subscribe(s, r) ==
  /\ FromClient(s)
  /\ Request(s, r, "subscribe")
  /\ c2t' = [c2t EXCEPT ![s] = [at |-> "record", id |-> r, sub |-> NoResult]]
  /\ UNCHANGED named

\* Any other method is not tracked.
Call(s, r) ==
  /\ FromClient(s)
  /\ Request(s, r, "call")
  /\ UNCHANGED <<c2t, named>>

\* A client may name any id: its own, another session's, or one of nobody.
Unsubscribe(s, r, x) ==
  /\ FromClient(s)
  /\ Request(s, r, "call")
  /\ named' = named \cup {x}
  /\ c2t' = [c2t EXCEPT ![s] = C2T("delete", x)]

RecordPending(s) ==
  /\ c2t[s].at = "record"
  /\ pending' = [pending EXCEPT ![s] = @ \cup {c2t[s].id}]
  /\ c2t' = [c2t EXCEPT ![s] = C2T("read", NoResult)]
  /\ UNCHANGED <<goroutines, t2c, connSubs, subscriptions, shared, peers, history>>

DeleteConn(s) ==
  /\ c2t[s].at = "delete"
  /\ connSubs' = [connSubs EXCEPT ![s] = @ \ {c2t[s].sub}]
  /\ c2t' = [c2t EXCEPT ![s] = C2T("remove", c2t[s].sub)]
  /\ UNCHANGED <<goroutines, t2c, pending, subscriptions, shared, peers, history>>

\* Fault: only the map of the connection forgets the id.
RemoveSubscriptionSkipped(s) ==
  /\ c2t[s].at = "remove"
  /\ c2t' = [c2t EXCEPT ![s] = C2T("read", NoResult)]
  /\ UNCHANGED <<goroutines, t2c, maps, subscriptions, shared, peers, history>>

RemoveSubscription(s) ==
  /\ c2t[s].at = "remove"
  /\ subscriptions' = subscriptions \ {c2t[s].sub}
  /\ c2t' = [c2t EXCEPT ![s] = C2T("read", NoResult)]
  /\ UNCHANGED <<goroutines, t2c, maps, shared, peers, history>>

-----------------------------------------------------------------------------
(* The pipe target->client, and trackSubscriptionResponse *)

\* What the provider may answer to s: a subscription id, a string, or neither.
\* Ids are the provider's choice: it gives none twice to one connection, but two
\* connections may be given the same.
Answers(s, method) ==
  {NoResult} \cup (IF method = "subscribe" THEN {x \in Subs : s \notin holders[x]} ELSE Words)

Issue(s, x) == holders' = [holders EXCEPT ![x] = @ \cup {s}]

\* A response is read and written to the client.
Response(s, r, result) ==
  /\ t2c[s].at = "read"
  /\ link[s] # "closed"
  /\ inFlight[s][r] # "none"
  /\ result \in Answers(s, inFlight[s][r])
  /\ t2c' = [t2c EXCEPT ![s] = [at |-> "match", id |-> r,
                               method |-> inFlight[s][r], result |-> result]]
  /\ inFlight' = [inFlight EXCEPT ![s][r] = "none"]
  /\ IF result \in Subs THEN Issue(s, result) ELSE UNCHANGED holders
  /\ UNCHANGED <<goroutines, c2t, maps, subscriptions, shared, named, history>>

\* The answer to a batch that subscribes.  A batch is an array: it is forwarded,
\* but neither the requests in it nor the ids in its answer are tracked.
BatchResponse(s, x) ==
  /\ t2c[s].at = "read"
  /\ link[s] # "closed"
  /\ s \notin holders[x]
  /\ Issue(s, x)
  /\ dropped' = dropped \cup {x}
  /\ UNCHANGED <<goroutines, pipes, maps, subscriptions, shared, inFlight, named,
                 missed, late>>

\* The response is to no pending subscription request.
NoMatch(s) ==
  /\ t2c[s].at = "match"
  /\ t2c[s].id \notin pending[s]
  /\ t2c' = [t2c EXCEPT ![s] = T2C("read", NoResult)]
  /\ missed' = IF t2c[s].method = "subscribe"
               THEN [missed EXCEPT ![s] = @ \cup {t2c[s].id}]
               ELSE missed
  /\ dropped' = dropped \cup ({t2c[s].result} \cap Subs)
  /\ UNCHANGED <<goroutines, c2t, maps, subscriptions, shared, peers, late>>

\* Fault: a result of any type is kept.
KeptAnything(s) ==
  /\ t2c' = [t2c EXCEPT ![s] = T2C("track", @.result)]
  /\ connSubs' = [connSubs EXCEPT ![s] = @ \cup {t2c[s].result}]
  /\ UNCHANGED <<goroutines, c2t, subscriptions, shared, peers, history>>

\* Where the pipe goes after a match: only a string is tracked.
Kept(s) ==
  /\ t2c' = [t2c EXCEPT ![s] = T2C(IF @.result = NoResult THEN "read" ELSE "track",
                                  @.result)]
  /\ connSubs' = [connSubs EXCEPT ![s] = @ \cup ({t2c[s].result} \ {NoResult})]
  /\ UNCHANGED <<goroutines, c2t, subscriptions, shared, peers, history>>

\* Fault: the request stays pending.
MatchKeepsPending(s) ==
  /\ t2c[s].at = "match"
  /\ t2c[s].id \in pending[s]
  /\ Kept(s)
  /\ UNCHANGED pending

\* It is: the request is no longer pending and a string result is kept.
Match(s) ==
  /\ t2c[s].at = "match"
  /\ t2c[s].id \in pending[s]
  /\ pending' = [pending EXCEPT ![s] = @ \ {t2c[s].id}]
  /\ Kept(s)

\* Will the session still remove x from the shared map by itself?
WillRemove(s, x) ==
  \/ main[s] \in {"serving", "cleanup"} /\ x \in connSubs[s]
  \/ c2t[s].at = "remove" /\ c2t[s].sub = x

TrackSubscription(s) ==
  /\ t2c[s].at = "track"
  /\ subscriptions' = subscriptions \cup {t2c[s].result}
  /\ late' = IF WillRemove(s, t2c[s].result) THEN late ELSE late \cup {t2c[s].result}
  /\ t2c' = [t2c EXCEPT ![s] = T2C("read", NoResult)]
  /\ UNCHANGED <<goroutines, c2t, maps, shared, peers, missed, dropped>>

-----------------------------------------------------------------------------
(* Errors and the peers *)

\* A goroutine of s ends with an error, for which errCh has room.
SendError(s) ==
  /\ errCh[s] < ErrChSize
  /\ errCh' = [errCh EXCEPT ![s] = @ + 1]
  /\ UNCHANGED <<main, link, maps, subscriptions, shared, peers, history>>

\* A read or a write fails: the peer is gone or broke the protocol, or the
\* gateway has closed the connection.
C2TFails(s) ==
  /\ c2t[s].at = "read"
  /\ c2t' = [c2t EXCEPT ![s] = C2T("done", NoResult)]
  /\ SendError(s)
  /\ UNCHANGED <<t2c, ping>>

T2CFails(s) ==
  /\ t2c[s].at = "read"
  /\ t2c' = [t2c EXCEPT ![s] = T2C("done", NoResult)]
  /\ SendError(s)
  /\ UNCHANGED <<c2t, ping>>

\* The write of a ping fails, or its deadline passes while a pipe is blocked in
\* a write to a peer that is connected but reads nothing.  Nobody checks that a
\* pong comes.  After ticker.Stop the goroutine waits for a tick that may never
\* come.
PingFails(s) ==
  /\ ping[s] = "wait"
  /\ ping' = [ping EXCEPT ![s] = "done"]
  /\ SendError(s)
  /\ UNCHANGED pipes

\* The client or the provider closes its connection or can no longer be reached;
\* what it has sent may still be read.  A peer that stays connected and is silent
\* is an open link on which nothing happens.
PeerLeaves(s) ==
  /\ link[s] = "open"
  /\ link' = [link EXCEPT ![s] = "gone"]
  /\ UNCHANGED <<main, ping, errCh, pipes, maps, subscriptions, shared, peers, history>>

-----------------------------------------------------------------------------
(* UnsubscribeAll *)

UnsubUnchanged ==
  UNCHANGED <<goroutines, pipes, maps, peers, missed, late>>

\* Fault: without the mutex unsubscribing.
UnsubscribeCopyUnlocked(u) ==
  /\ unsub[u].at = "idle"
  /\ subscriptions # {}
  /\ unsub' = [unsub EXCEPT ![u] = [at |-> "copied", subIDs |-> subscriptions]]
  /\ UnsubUnchanged
  /\ UNCHANGED <<subscriptions, connPool, dropped>>

\* Under unsubscribing: copy the ids; with none there is nothing to do.
UnsubscribeCopy(u) ==
  /\ \A v \in Unsubscribers : unsub[v].at = "idle"
  /\ subscriptions # {}
  /\ unsub' = [unsub EXCEPT ![u] = [at |-> "copied", subIDs |-> subscriptions]]
  /\ UnsubUnchanged
  /\ UNCHANGED <<subscriptions, connPool, dropped>>

\* The pool, after a connection was taken from it if it held one.
ConnTaken == IF connPool > 0 THEN connPool - 1 ELSE connPool

\* A pooled connection that answers a ping, or a new one; then the map is cleared.
ClearSubscriptions(u) ==
  /\ unsub[u].at = "copied"
  /\ connPool' = ConnTaken
  /\ subscriptions' = {}
  /\ dropped' = dropped \cup (subscriptions \cap Subs)
  /\ unsub' = [unsub EXCEPT ![u] = [at |-> "send", subIDs |-> {}]]
  /\ UnsubUnchanged

\* Fault: the map is cleared before there is a connection.
GetConnectionFailsCleared(u) ==
  /\ unsub[u].at = "copied"
  /\ connPool' = ConnTaken
  /\ subscriptions' = {}
  /\ unsub' = [unsub EXCEPT ![u] = NotUnsubscribing]
  /\ UnsubUnchanged
  /\ UNCHANGED dropped

\* The pooled connection, if any, is dead and closed; dialling fails.
GetConnectionFails(u) ==
  /\ unsub[u].at = "copied"
  /\ connPool' = ConnTaken
  /\ unsub' = [unsub EXCEPT ![u] = NotUnsubscribing]
  /\ UnsubUnchanged
  /\ UNCHANGED <<subscriptions, dropped>>

\* returnConnection: a full pool closes it instead.
ConnReturned == IF connPool < PoolSize THEN connPool + 1 ELSE connPool

\* Messages for the copied ids are sent, or fail; the connection is returned.
SendUnsubscribes(u) ==
  /\ unsub[u].at = "send"
  /\ connPool' = ConnReturned
  /\ unsub' = [unsub EXCEPT ![u] = NotUnsubscribing]
  /\ UnsubUnchanged
  /\ UNCHANGED <<subscriptions, dropped>>

-----------------------------------------------------------------------------
(* The maps without a lock *)

UsesPending(s) == {p \in {"c2t", "t2c"} :
                    \/ p = "c2t" /\ c2t[s].at = "record"
                    \/ p = "t2c" /\ t2c[s].at = "match"}

UsesConnSubs(s) == {p \in {"c2t", "t2c", "main"} :
                     \/ p = "c2t" /\ c2t[s].at = "delete"
                     \/ p = "t2c" /\ t2c[s].at = "match" /\ t2c[s].result # NoResult
                                  /\ t2c[s].id \in pending[s]
                     \/ p = "main" /\ main[s] \in {"cleanup", "clear"}}

\* Two goroutines are at accesses of one map, and at least one writes.
Racing(s) == Cardinality(UsesPending(s)) > 1 \/ Cardinality(UsesConnSubs(s)) > 1

\* The process is started again, as its systemd unit asks: Restart=always.
Restart ==
  /\ main' = [s \in Sessions |-> "idle"]
  /\ link' = [s \in Sessions |-> "closed"]
  /\ c2t' = [s \in Sessions |-> C2T("off", NoResult)]
  /\ t2c' = [s \in Sessions |-> T2C("off", NoResult)]
  /\ ping' = [s \in Sessions |-> "done"]
  /\ errCh' = [s \in Sessions |-> 0]
  /\ pending' = [s \in Sessions |-> {}]
  /\ connSubs' = [s \in Sessions |-> {}]
  /\ subscriptions' = {}
  /\ connPool' = 0
  /\ unsub' = [u \in Unsubscribers |-> NotUnsubscribing]
  /\ inFlight' = [s \in Sessions |-> [r \in Ids |-> "none"]]
  /\ holders' = [x \in Subs |-> {}]
  /\ named' = {}
  /\ missed' = [s \in Sessions |-> {}]
  /\ dropped' = {}
  /\ late' = {}

\* fatal error: concurrent map read and map write.
MapFault(s) == Racing(s) /\ Restart

-----------------------------------------------------------------------------
MainStep(s) == Receive(s) \/ Cleanup(s) \/ Close(s)

C2TTracks(s) == RecordPending(s) \/ DeleteConn(s) \/ RemoveSubscription(s)

T2CTracks(s) == NoMatch(s) \/ Match(s) \/ TrackSubscription(s)

SessionStep(s) ==
  \/ Open(s) \/ OpenFails(s) \/ MainStep(s)
  \/ \E r \in Ids : Subscribe(s, r) \/ Call(s, r)
  \/ \E r \in Ids, x \in Subs : Unsubscribe(s, r, x)
  \/ \E r \in Ids, result \in Results : Response(s, r, result)
  \/ \E x \in Subs : BatchResponse(s, x)
  \/ C2TTracks(s) \/ T2CTracks(s)
  \/ C2TFails(s) \/ T2CFails(s) \/ PingFails(s)
  \/ PeerLeaves(s) \/ MapFault(s)

UnsubscribeStep(u) ==
  \/ UnsubscribeCopy(u) \/ GetConnectionFails(u)
  \/ ClearSubscriptions(u) \/ SendUnsubscribes(u)

Next ==
  \/ \E s \in Sessions : SessionStep(s)
  \/ \E u \in Unsubscribers : UnsubscribeStep(u)

(***************************************************************************)
(* Goroutines that can run do run.  A pipe is bound to fail only once the  *)
(* gateway has closed its connections: until then it may be blocked in a   *)
(* write, which has no deadline.  A ping has one, so it fails once a peer  *)
(* is gone, as long as its ticker runs.  To a peer that is connected but   *)
(* silent pings succeed for ever, so no failure is assumed on an open      *)
(* link.  Nothing is assumed of clients, providers, or UnsubscribeAll,     *)
(* whose writes have no deadline either.                                   *)
(***************************************************************************)
Fairness ==
  /\ \A s \in Sessions :
       /\ WF_vars(MainStep(s))
       /\ WF_vars(C2TTracks(s))
       /\ WF_vars(T2CTracks(s))
       /\ WF_vars(link[s] = "closed" /\ C2TFails(s))
       /\ WF_vars(link[s] = "closed" /\ T2CFails(s))
       /\ WF_vars(main[s] = "serving" /\ link[s] # "open" /\ PingFails(s))

SafetySpec == Init /\ [][Next]_vars

Spec == SafetySpec /\ Fairness

-----------------------------------------------------------------------------
\* A string on its way into the maps.
Tracking(s, x) == t2c[s].at \in {"match", "track"} /\ t2c[s].result = x

(***************************************************************************)
(* Every id in the shared map will be removed by a session that is still   *)
(* to run its cleanup or that is removing it now, except for the ids that  *)
(* the target pipe tracked too late: after the cleanup of its session, or  *)
(* after the unsubscription that overtook the tracking.  Sessions forget   *)
(* what they tracked although three goroutines and UnsubscribeAll change   *)
(* the two maps in turn.                                                   *)
(***************************************************************************)
TrackedIsOwned ==
  \A x \in subscriptions : x \in late \/ \E s \in Sessions : WillRemove(s, x)

(***************************************************************************)
(* A subscription that one client alone holds is in the shared map while   *)
(* its session is served, once its response is processed, unless           *)
(*   - some client, not only the holder, has asked to unsubscribe from it, *)
(*     since the map is shared and nobody checks whose id it is;           *)
(*   - it was subscribed in a batch, or the response overtook the          *)
(*     recording of its request, or UnsubscribeAll has emptied the map.    *)
(* So neither the bookkeeping of its own session nor the cleanup of        *)
(* another one (WebSocketProxyProofs, for any number of sessions) makes    *)
(* the gateway forget it.                                                  *)
(***************************************************************************)
HeldIsTracked ==
  \A s \in Sessions, x \in Subs :
    (holders[x] = {s} /\ x \notin named /\ main[s] = "serving" /\ ~Tracking(s, x))
      => x \in subscriptions \cup dropped

(***************************************************************************)
(* In a session, a request id is pending only while the provider has a     *)
(* subscription request with that id to answer or the answer is being      *)
(* processed, except for ids whose answer found no entry, because the      *)
(* client pipe had not recorded the request yet or the answer to an        *)
(* earlier request with the same id took the entry.  Such a leftover is    *)
(* how the result of another call gets tracked as a subscription.          *)
(***************************************************************************)
PendingIsExpected ==
  \A s \in Sessions : \A r \in pending[s] :
    \/ main[s] = "done"
    \/ inFlight[s][r] = "subscribe"
    \/ t2c[s].at = "match" /\ t2c[s].id = r /\ t2c[s].method = "subscribe"
    \/ r \in missed[s]

(***************************************************************************)
(* UnsubscribeAll of goroutines that taint the provider together uses one  *)
(* connection in turn: the pool of five never holds more than one, and     *)
(* none while one is in use.                                               *)
(***************************************************************************)
OneSpareConnection ==
  connPool + Cardinality({u \in Unsubscribers : unsub[u].at = "send"}) <= 1

(***************************************************************************)
(* "non-blocking - channel has sufficient buffer": a pipe or the ping that *)
(* has still to report its end always finds room in errCh, although the    *)
(* handler receives a single error and then stops listening.               *)
(***************************************************************************)
ErrChHasRoom ==
  \A s \in Sessions :
    (c2t[s].at \notin {"off", "done"} \/ t2c[s].at \notin {"off", "done"} \/ ping[s] = "wait")
      => errCh[s] < ErrChSize

(***************************************************************************)
(* Once a peer is gone or a goroutine of the session has reported an       *)
(* error, the handler returns and both pipes end, none of them stuck on    *)
(* errCh, unless a race on a map ended the process.  A session whose peers *)
(* stay connected and silent need not end: there is no read deadline.      *)
(***************************************************************************)
SessionEnds ==
  \A s \in Sessions :
    (main[s] = "serving" /\ (link[s] # "open" \/ errCh[s] > 0))
      ~> (main[s] \in {"idle", "done"} /\ c2t[s].at \in {"off", "done"}
                                    /\ t2c[s].at \in {"off", "done"})

(***************************************************************************)
(* What the comment on UnsubscribeAll says: it sends unsubscribe messages  *)
(* for all tracked subscriptions.  No id leaves the map at the clear       *)
(* without being in the copy the messages are sent for.                    *)
(***************************************************************************)
UnsubscribesAllTracked ==
  [][\A u \in Unsubscribers :
       ClearSubscriptions(u) => subscriptions \subseteq unsub[u].subIDs]_vars
====
