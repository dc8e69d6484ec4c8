------------------------- MODULE WebSocketProxyProofs -------------------------
(***************************************************************************)
(* Proofs about WebSocketProxy, for any number of sessions, request ids,   *)
(* subscriptions and goroutines in UnsubscribeAll.                         *)
(***************************************************************************)
EXTENDS WebSocketProxy, FiniteSetTheorems, TLAPS

-----------------------------------------------------------------------------
(* Types *)

\* The parts of its message a pipe still uses.
MessageOK(s) ==
  /\ main[s] = "idle" => c2t[s].at = "off" /\ t2c[s].at = "off"
  /\ c2t[s].at = "record" => c2t[s].id \in Ids
  /\ c2t[s].at \in {"delete", "remove"} => c2t[s].sub \in Subs
  /\ t2c[s].at = "match" => t2c[s].id \in Ids
  /\ t2c[s].at = "track" => t2c[s].result \in Strings

TypeInv == TypeOK /\ \A s \in Sessions : MessageOK(s)

LEMMA TypeInit == Init => TypeInv
BY IdAssumption, ResultAssumption
DEF Init, TypeInv, MessageOK, TypeOK, C2TType, T2CType, UnsubType, C2T, T2C,
    NotUnsubscribing, ErrChSize, PoolSize, Strings, Results

LEMMA SendErrorType ==
  ASSUME TypeOK, NEW s \in Sessions, SendError(s)
  PROVE  errCh' \in [Sessions -> 0..ErrChSize]
<1>1. errCh[s] \in 0..3 /\ errCh[s] < 3 /\ errCh' = [errCh EXCEPT ![s] = errCh[s] + 1]
  BY DEF TypeOK, SendError, ErrChSize
<1>2. errCh[s] + 1 \in 0..3
  BY <1>1
<1> QED BY <1>1, <1>2 DEF TypeOK, ErrChSize

\* The provider gives x to s.
LEMMA IssueGives ==
  ASSUME holders \in [Subs -> SUBSET Sessions], NEW s \in Sessions, NEW x \in Subs, Issue(s, x)
  PROVE  /\ holders' \in [Subs -> SUBSET Sessions]
         /\ holders'[x] = holders[x] \cup {s}
         /\ \A y \in Subs : y # x => holders'[y] = holders[y]
BY DEF Issue

LEMMA ResponseGives ==
  ASSUME holders \in [Subs -> SUBSET Sessions], NEW s \in Sessions, NEW r \in Ids,
         NEW result \in Results, Response(s, r, result)
  PROVE  /\ holders' \in [Subs -> SUBSET Sessions]
         /\ \A x \in Subs : IF x = result THEN holders'[x] = holders[x] \cup {s}
                                          ELSE holders'[x] = holders[x]
<1>1. CASE result \in Subs
  BY <1>1, IssueGives DEF Response
<1>2. CASE result \notin Subs
  BY <1>2 DEF Response
<1> QED BY <1>1, <1>2

LEMMA TypeSession ==
  ASSUME TypeInv, NEW s \in Sessions, SessionStep(s)
  PROVE  TypeInv'
<1> USE DEF TypeInv, MessageOK, TypeOK, C2TType, T2CType, C2T, T2C, ErrChSize, Strings,
            Results, goroutines, pipes, maps, shared, peers, history
<1>1. CASE Open(s)
  BY <1>1 DEF Open
<1>2. CASE OpenFails(s)
  BY <1>2 DEF OpenFails
<1>3. CASE Receive(s)
  BY <1>3 DEF Receive
<1>4. CASE Cleanup(s)
  BY <1>4 DEF Cleanup
<1>5. CASE Close(s)
  BY <1>5 DEF Close
<1>6. ASSUME NEW r \in Ids, Subscribe(s, r) PROVE TypeInv'
  BY <1>6 DEF Subscribe, FromClient, Request
<1>7. ASSUME NEW r \in Ids, Call(s, r) PROVE TypeInv'
  BY <1>7 DEF Call, FromClient, Request
<1>8. ASSUME NEW r \in Ids, NEW x \in Subs, Unsubscribe(s, r, x) PROVE TypeInv'
  BY <1>8 DEF Unsubscribe, FromClient, Request
<1>9. ASSUME NEW r \in Ids, NEW result \in Results, Response(s, r, result) PROVE TypeInv'
  <2>1. holders' \in [Subs -> SUBSET Sessions]
    BY <1>9, ResponseGives
  <2>2. /\ t2c' \in [Sessions -> T2CType]
        /\ inFlight' \in [Sessions -> [Ids -> {"none", "subscribe", "call"}]]
    BY <1>9 DEF Response
  <2>3. UNCHANGED <<main, link, c2t, ping, errCh, pending, connSubs, subscriptions, connPool,
                    unsub, named, missed, dropped, late>>
    BY <1>9 DEF Response
  <2>4. \A q \in Sessions : /\ t2c'[q] = t2c[q] \/ (t2c'[q].at = "match" /\ t2c'[q].id = r)
                            /\ main[q] = "idle" => t2c'[q] = t2c[q]
    BY <1>9 DEF Response
  <2>5. TypeOK'
    BY ONLY TypeOK, <2>1, <2>2, <2>3 DEF TypeOK
  <2>6. ASSUME NEW q \in Sessions PROVE MessageOK(q)'
    <3>1. MessageOK(q)
      OBVIOUS
    <3>2. CASE t2c'[q] = t2c[q]
      BY ONLY <2>3, <3>1, <3>2 DEF MessageOK
    <3>3. CASE t2c'[q].at = "match" /\ t2c'[q].id = r /\ main[q] # "idle"
      BY ONLY <2>3, <3>1, <3>3, r \in Ids DEF MessageOK
    <3> QED BY <2>4, <3>2, <3>3
  <2> QED BY <2>5, <2>6
<1>10. CASE RecordPending(s)
  BY <1>10 DEF RecordPending
<1>11. CASE DeleteConn(s)
  BY <1>11 DEF DeleteConn
<1>12. CASE RemoveSubscription(s)
  BY <1>12 DEF RemoveSubscription
<1>13. CASE NoMatch(s)
  BY <1>13 DEF NoMatch
<1>14. CASE Match(s)
  BY <1>14 DEF Match, Kept
<1>15. CASE TrackSubscription(s)
  BY <1>15 DEF TrackSubscription
<1>16. CASE C2TFails(s)
  BY <1>16, SendErrorType DEF C2TFails, SendError
<1>17. CASE T2CFails(s)
  BY <1>17, SendErrorType DEF T2CFails, SendError
<1>18. CASE PingFails(s)
  BY <1>18, SendErrorType DEF PingFails, SendError
<1>19. CASE PeerLeaves(s)
  BY <1>19 DEF PeerLeaves
<1>20. ASSUME NEW x \in Subs, BatchResponse(s, x) PROVE TypeInv'
  BY <1>20 DEF BatchResponse, Issue
<1>21. CASE MapFault(s)
  BY <1>21, IdAssumption, ResultAssumption
  DEF MapFault, Restart, UnsubType, NotUnsubscribing, PoolSize
<1> HIDE DEF TypeInv, MessageOK, TypeOK, C2TType, T2CType, C2T, T2C, ErrChSize, Strings,
             Results, goroutines, pipes, maps, shared, peers, history
<1> QED
  BY <1>1, <1>2, <1>3, <1>4, <1>5, <1>6, <1>7, <1>8, <1>9, <1>10, <1>11, <1>12, <1>13,
     <1>14, <1>15, <1>16, <1>17, <1>18, <1>19, <1>20, <1>21
  DEF SessionStep, MainStep, C2TTracks, T2CTracks

LEMMA TypeUnsubscribe ==
  ASSUME TypeInv, NEW u \in Unsubscribers, UnsubscribeStep(u)
  PROVE  TypeInv'
<1> USE DEF TypeInv, MessageOK, TypeOK, UnsubType, UnsubUnchanged, ConnTaken, PoolSize,
            Strings, NotUnsubscribing, goroutines, pipes, maps, peers
<1>1. CASE UnsubscribeCopy(u)
  BY <1>1 DEF UnsubscribeCopy
<1>2. CASE GetConnectionFails(u)
  BY <1>2 DEF GetConnectionFails
<1>3. CASE ClearSubscriptions(u)
  BY <1>3 DEF ClearSubscriptions
<1>4. CASE SendUnsubscribes(u)
  BY <1>4 DEF SendUnsubscribes, ConnReturned
<1> QED BY <1>1, <1>2, <1>3, <1>4 DEF UnsubscribeStep

LEMMA TypeStep == TypeInv /\ [Next]_vars => TypeInv'
<1> SUFFICES ASSUME TypeInv, [Next]_vars PROVE TypeInv'
  OBVIOUS
<1>1. CASE UNCHANGED vars
  BY <1>1
  DEF TypeInv, MessageOK, TypeOK, vars, goroutines, pipes, maps, shared, peers, history
<1> QED BY <1>1, TypeSession, TypeUnsubscribe DEF Next

(***************************************************************************)
(* The variables stay in their types; in particular the target pipe keeps  *)
(* strings only, and errCh never overflows.                                *)
(***************************************************************************)
THEOREM TypeCorrect == SafetySpec => []TypeOK
<1>1. TypeInv => TypeOK
  BY DEF TypeInv
<1> QED BY <1>1, TypeInit, TypeStep, PTL DEF SafetySpec

-----------------------------------------------------------------------------
(***************************************************************************)
(* Who removes a tracked id.                                               *)
(***************************************************************************)
LEMMA OwnedSession ==
  ASSUME TypeInv, TrackedIsOwned, NEW s \in Sessions, SessionStep(s)
  PROVE  TrackedIsOwned'
<1> USE DEF TypeInv, MessageOK, TypeOK, C2TType, T2CType, C2T, T2C, TrackedIsOwned,
            WillRemove, goroutines, pipes, maps, shared, peers, history
<1>1. CASE Open(s)
  BY <1>1 DEF Open
<1>2. CASE OpenFails(s)
  BY <1>2 DEF OpenFails
<1>3. CASE Receive(s)
  BY <1>3 DEF Receive
<1>4. CASE Cleanup(s)
  BY <1>4 DEF Cleanup
<1>5. CASE Close(s)
  BY <1>5 DEF Close
<1>6. ASSUME NEW r \in Ids, Subscribe(s, r) PROVE TrackedIsOwned'
  BY <1>6 DEF Subscribe, FromClient, Request
<1>7. ASSUME NEW r \in Ids, Call(s, r) PROVE TrackedIsOwned'
  BY <1>7 DEF Call, FromClient, Request
<1>8. ASSUME NEW r \in Ids, NEW x \in Subs, Unsubscribe(s, r, x) PROVE TrackedIsOwned'
  BY <1>8 DEF Unsubscribe, FromClient, Request
<1>9. ASSUME NEW r \in Ids, NEW result \in Results, Response(s, r, result)
      PROVE  TrackedIsOwned'
  BY <1>9 DEF Response, Answers, Issue
<1>10. CASE RecordPending(s)
  BY <1>10 DEF RecordPending
<1>11. CASE DeleteConn(s)
  BY <1>11 DEF DeleteConn
<1>12. CASE RemoveSubscription(s)
  BY <1>12 DEF RemoveSubscription
<1>13. CASE NoMatch(s)
  BY <1>13 DEF NoMatch
<1>14. CASE Match(s)
  BY <1>14 DEF Match, Kept
<1>15. CASE TrackSubscription(s)
  BY <1>15 DEF TrackSubscription
<1>16. CASE C2TFails(s)
  BY <1>16 DEF C2TFails, SendError
<1>17. CASE T2CFails(s)
  BY <1>17 DEF T2CFails, SendError
<1>18. CASE PingFails(s)
  BY <1>18 DEF PingFails, SendError
<1>19. CASE PeerLeaves(s)
  BY <1>19 DEF PeerLeaves
<1>20. ASSUME NEW x \in Subs, BatchResponse(s, x) PROVE TrackedIsOwned'
  BY <1>20 DEF BatchResponse, Issue
<1>21. CASE MapFault(s)
  BY <1>21 DEF MapFault, Restart
<1> HIDE DEF TypeInv, MessageOK, TypeOK, C2TType, T2CType, C2T, T2C, TrackedIsOwned,
             WillRemove, goroutines, pipes, maps, shared, peers, history
<1> QED
  BY <1>1, <1>2, <1>3, <1>4, <1>5, <1>6, <1>7, <1>8, <1>9, <1>10, <1>11, <1>12, <1>13,
     <1>14, <1>15, <1>16, <1>17, <1>18, <1>19, <1>20, <1>21
  DEF SessionStep, MainStep, C2TTracks, T2CTracks

LEMMA OwnedUnsubscribe ==
  ASSUME TypeInv, TrackedIsOwned, NEW u \in Unsubscribers, UnsubscribeStep(u)
  PROVE  TrackedIsOwned'
<1> USE DEF TrackedIsOwned, WillRemove, UnsubUnchanged, goroutines, pipes, maps
<1>1. CASE UnsubscribeCopy(u)
  BY <1>1 DEF UnsubscribeCopy
<1>2. CASE GetConnectionFails(u)
  BY <1>2 DEF GetConnectionFails
<1>3. CASE ClearSubscriptions(u)
  BY <1>3 DEF ClearSubscriptions
<1>4. CASE SendUnsubscribes(u)
  BY <1>4 DEF SendUnsubscribes
<1> QED BY <1>1, <1>2, <1>3, <1>4 DEF UnsubscribeStep

(***************************************************************************)
(* What is in the shared map is removed by a session, or was tracked late. *)
(***************************************************************************)
THEOREM TrackedIsAlwaysOwned == SafetySpec => []TrackedIsOwned
<1> DEFINE Inv == TypeInv /\ TrackedIsOwned
<1>1. Init => Inv
  BY TypeInit DEF Init, TrackedIsOwned
<1>2. Inv /\ [Next]_vars => Inv'
  <2> SUFFICES ASSUME Inv, [Next]_vars PROVE TrackedIsOwned'
    BY TypeStep
  <2>1. CASE UNCHANGED vars
    BY <2>1 DEF TrackedIsOwned, WillRemove, vars, goroutines, pipes, maps, history
  <2> QED BY <2>1, OwnedSession, OwnedUnsubscribe DEF Next
<1> QED BY <1>1, <1>2, PTL DEF SafetySpec

-----------------------------------------------------------------------------
(***************************************************************************)
(* The ids a session has in its map were issued to it, so its cleanup      *)
(* removes nothing that only another session holds; whatever else it       *)
(* removes from the shared map, its client has named.                      *)
(***************************************************************************)
OwnIds(s) ==
  /\ main[s] = "idle" => link[s] = "closed" /\ \A x \in Subs : s \notin holders[x]
  /\ \A x \in connSubs[s] \cap Subs : s \in holders[x]
  /\ c2t[s].at \in {"delete", "remove"} => c2t[s].sub \in named
  /\ (t2c[s].at \in {"match", "track"} /\ t2c[s].result \in Subs) => s \in holders[t2c[s].result]

HeldInv == TypeInv /\ HeldIsTracked /\ \A s \in Sessions : OwnIds(s)

LEMMA HeldSession ==
  ASSUME HeldInv, NEW s \in Sessions, SessionStep(s), TypeInv'
  PROVE  HeldInv'
<1> USE DEF HeldInv, OwnIds, HeldIsTracked, Tracking, TypeInv, MessageOK, TypeOK, C2TType,
            T2CType, C2T, T2C, goroutines, pipes, maps, shared, peers, history
<1>1. CASE Open(s)
  BY <1>1 DEF Open
<1>2. CASE OpenFails(s)
  BY <1>2 DEF OpenFails
<1>3. CASE Receive(s)
  BY <1>3 DEF Receive
<1>4. CASE Cleanup(s)
  BY <1>4 DEF Cleanup
<1>5. CASE Close(s)
  BY <1>5 DEF Close
<1>6. ASSUME NEW r \in Ids, Subscribe(s, r) PROVE HeldInv'
  BY <1>6 DEF Subscribe, FromClient, Request
<1>7. ASSUME NEW r \in Ids, Call(s, r) PROVE HeldInv'
  BY <1>7 DEF Call, FromClient, Request
<1>8. ASSUME NEW r \in Ids, NEW x \in Subs, Unsubscribe(s, r, x) PROVE HeldInv'
  BY <1>8 DEF Unsubscribe, FromClient, Request
<1>9. ASSUME NEW r \in Ids, NEW result \in Results, Response(s, r, result)
      PROVE  HeldInv'
  <2>1. \A x \in Subs : IF x = result THEN holders'[x] = holders[x] \cup {s}
                                     ELSE holders'[x] = holders[x]
    BY <1>9, ResponseGives
  <2>2. /\ t2c[s].at = "read" /\ t2c'[s].at = "match" /\ t2c'[s].result = result
        /\ \A q \in Sessions : q # s => t2c'[q] = t2c[q]
    BY <1>9 DEF Response
  <2>3. link[s] # "closed" /\ UNCHANGED <<main, link, c2t, connSubs, subscriptions, named, dropped>>
    BY <1>9 DEF Response
  <2>4. HeldIsTracked'
    <3> SUFFICES ASSUME NEW q \in Sessions, NEW x \in Subs, holders'[x] = {q}, x \notin named',
                        main'[q] = "serving", ~Tracking(q, x)'
                 PROVE  x \in subscriptions' \cup dropped'
      BY DEF HeldIsTracked
    <3>1. x # result
      BY ONLY <2>1, <2>2, holders'[x] = {q}, ~Tracking(q, x)' DEF Tracking
    <3>2. holders[x] = {q} /\ ~Tracking(q, x)
      BY ONLY <2>1, <2>2, <3>1, holders'[x] = {q}, ~Tracking(q, x)' DEF Tracking
    <3>3. HeldIsTracked /\ x \notin named /\ main[q] = "serving"
      BY <2>3 DEF HeldInv
    <3> QED BY ONLY <2>3, <3>2, <3>3 DEF HeldIsTracked
  <2>5. ASSUME NEW q \in Sessions PROVE OwnIds(q)'
    <3>1. OwnIds(q)
      BY DEF HeldInv
    <3>2. \A x \in Subs : q \in holders[x] => q \in holders'[x]
      BY ONLY <2>1
    <3>3. main[s] # "idle"
      BY <2>3 DEF HeldInv, OwnIds
    <3>4. \A x \in Subs : q # s => (q \in holders'[x] => q \in holders[x])
      BY ONLY <2>1
    <3> QED BY ONLY <2>1, <2>2, <2>3, <3>1, <3>2, <3>3, <3>4 DEF OwnIds
  <2> QED BY ONLY TypeInv', <2>4, <2>5 DEF HeldInv
<1>10. CASE RecordPending(s)
  BY <1>10 DEF RecordPending
<1>11. CASE DeleteConn(s)
  BY <1>11 DEF DeleteConn
<1>12. CASE RemoveSubscription(s)
  BY <1>12 DEF RemoveSubscription
<1>13. CASE NoMatch(s)
  BY <1>13 DEF NoMatch
<1>14. CASE Match(s)
  BY <1>14, ResultAssumption DEF Match, Kept
<1>15. CASE TrackSubscription(s)
  BY <1>15 DEF TrackSubscription
<1>16. CASE C2TFails(s)
  BY <1>16 DEF C2TFails, SendError
<1>17. CASE T2CFails(s)
  BY <1>17 DEF T2CFails, SendError
<1>18. CASE PingFails(s)
  BY <1>18 DEF PingFails, SendError
<1>19. CASE PeerLeaves(s)
  BY <1>19 DEF PeerLeaves
<1>20. ASSUME NEW x \in Subs, BatchResponse(s, x) PROVE HeldInv'
  <2>1. /\ holders'[x] = holders[x] \cup {s}
        /\ \A y \in Subs : y # x => holders'[y] = holders[y]
    BY <1>20, IssueGives DEF BatchResponse
  <2>2. /\ link[s] # "closed" /\ dropped' = dropped \cup {x}
        /\ UNCHANGED <<main, link, c2t, t2c, connSubs, subscriptions, named>>
    BY <1>20 DEF BatchResponse
  <2>3. HeldIsTracked'
    <3> SUFFICES ASSUME NEW q \in Sessions, NEW y \in Subs, holders'[y] = {q}, y \notin named',
                        main'[q] = "serving", ~Tracking(q, y)'
                 PROVE  y \in subscriptions' \cup dropped'
      BY DEF HeldIsTracked
    <3>1. CASE y = x
      BY ONLY <2>2, <3>1
    <3>2. CASE y # x
      <4>1. HeldIsTracked /\ y \notin named /\ main[q] = "serving" /\ ~Tracking(q, y)
        BY <2>2 DEF HeldInv, Tracking
      <4> QED BY ONLY <2>1, <2>2, <3>2, <4>1, holders'[y] = {q} DEF HeldIsTracked
    <3> QED BY <3>1, <3>2
  <2>4. ASSUME NEW q \in Sessions PROVE OwnIds(q)'
    <3>1. OwnIds(q)
      BY DEF HeldInv
    <3>2. \A y \in Subs : q \in holders[y] => q \in holders'[y]
      BY ONLY <2>1
    <3>3. main[s] # "idle"
      BY <2>2 DEF HeldInv, OwnIds
    <3>4. \A y \in Subs : q # s => (q \in holders'[y] => q \in holders[y])
      BY ONLY <2>1
    <3> QED BY ONLY <2>2, <3>1, <3>2, <3>3, <3>4 DEF OwnIds
  <2> QED BY ONLY TypeInv', <2>3, <2>4 DEF HeldInv
<1>21. CASE MapFault(s)
  BY <1>21, ResultAssumption DEF MapFault, Restart
<1> HIDE DEF HeldInv, OwnIds, HeldIsTracked, Tracking, TypeInv, MessageOK, TypeOK, C2TType,
             T2CType, C2T, T2C, goroutines, pipes, maps, shared, peers, history
<1> QED
  BY <1>1, <1>2, <1>3, <1>4, <1>5, <1>6, <1>7, <1>8, <1>9, <1>10, <1>11, <1>12, <1>13,
     <1>14, <1>15, <1>16, <1>17, <1>18, <1>19, <1>20, <1>21
  DEF SessionStep, MainStep, C2TTracks, T2CTracks

LEMMA HeldUnsubscribe ==
  ASSUME HeldInv, NEW u \in Unsubscribers, UnsubscribeStep(u), TypeInv'
  PROVE  HeldInv'
<1> USE DEF HeldInv, OwnIds, HeldIsTracked, Tracking, TypeInv, TypeOK, UnsubUnchanged,
            goroutines, pipes, maps, peers
<1>1. CASE UnsubscribeCopy(u)
  BY <1>1 DEF UnsubscribeCopy
<1>2. CASE GetConnectionFails(u)
  BY <1>2 DEF GetConnectionFails
<1>3. CASE ClearSubscriptions(u)
  BY <1>3 DEF ClearSubscriptions
<1>4. CASE SendUnsubscribes(u)
  BY <1>4 DEF SendUnsubscribes
<1> QED BY <1>1, <1>2, <1>3, <1>4 DEF UnsubscribeStep

(***************************************************************************)
(* A subscription held by one session alone is tracked while the session   *)
(* is served, unless some client has named it in an unsubscription, or an  *)
(* answer or UnsubscribeAll left it untracked.  For any number of          *)
(* sessions: the cleanup of one takes nothing from another.                *)
(***************************************************************************)
THEOREM HeldIsAlwaysTracked == SafetySpec => []HeldIsTracked
<1>1. Init => HeldInv
  BY TypeInit
  DEF Init, HeldInv, HeldIsTracked, OwnIds, C2T, T2C
<1>2. HeldInv /\ [Next]_vars => HeldInv'
  <2> SUFFICES ASSUME HeldInv, [Next]_vars PROVE HeldInv'
    OBVIOUS
  <2>1. TypeInv'
    BY TypeStep DEF HeldInv
  <2>2. CASE UNCHANGED vars
    BY <2>1, <2>2
    DEF HeldInv, HeldIsTracked, OwnIds, Tracking, vars, goroutines, pipes, maps, peers, history
  <2> QED BY <2>1, <2>2, HeldSession, HeldUnsubscribe DEF Next
<1>3. HeldInv => HeldIsTracked
  BY DEF HeldInv
<1> QED BY <1>1, <1>2, <1>3, PTL DEF SafetySpec

-----------------------------------------------------------------------------
(***************************************************************************)
(* Pending requests.  While the client pipe is about to record a request   *)
(* its answer may already be processed.  An entry it then finds is not its *)
(* own: either the answer to the previous request with that id is still    *)
(* being matched, or that answer missed its entry.                         *)
(***************************************************************************)
Answering(s, r) == t2c[s].at = "match" /\ t2c[s].id = r /\ t2c[s].method = "subscribe"

PendingOK(s) ==
  main[s] # "done" =>
    /\ \A r \in pending[s] :
         inFlight[s][r] = "subscribe" \/ Answering(s, r) \/ r \in missed[s]
    /\ c2t[s].at = "record" =>
         LET r == c2t[s].id
         IN  /\ inFlight[s][r] = "subscribe" \/ Answering(s, r) \/ r \in missed[s]
             /\ r \in pending[s] =>
                  (inFlight[s][r] = "subscribe" /\ Answering(s, r)) \/ r \in missed[s]

PendInv == TypeInv /\ \A s \in Sessions : PendingOK(s)

LEMMA PendingSession ==
  ASSUME PendInv, NEW s \in Sessions, SessionStep(s), TypeInv'
  PROVE  PendInv'
<1> USE DEF PendInv, PendingOK, Answering, TypeInv, MessageOK, TypeOK, C2TType, T2CType,
            C2T, T2C, goroutines, pipes, maps, shared, peers, history
<1>1. CASE Open(s)
  BY <1>1 DEF Open
<1>2. CASE OpenFails(s)
  BY <1>2 DEF OpenFails
<1>3. CASE Receive(s)
  BY <1>3 DEF Receive
<1>4. CASE Cleanup(s)
  BY <1>4 DEF Cleanup
<1>5. CASE Close(s)
  BY <1>5 DEF Close
<1>6. ASSUME NEW r \in Ids, Subscribe(s, r) PROVE PendInv'
  BY <1>6 DEF Subscribe, FromClient, Request
<1>7. ASSUME NEW r \in Ids, Call(s, r) PROVE PendInv'
  BY <1>7 DEF Call, FromClient, Request
<1>8. ASSUME NEW r \in Ids, NEW x \in Subs, Unsubscribe(s, r, x) PROVE PendInv'
  BY <1>8 DEF Unsubscribe, FromClient, Request
<1>9. ASSUME NEW r \in Ids, NEW result \in Results, Response(s, r, result)
      PROVE  PendInv'
  BY <1>9 DEF Response, Answers, Issue
<1>10. CASE RecordPending(s)
  BY <1>10 DEF RecordPending
<1>11. CASE DeleteConn(s)
  BY <1>11 DEF DeleteConn
<1>12. CASE RemoveSubscription(s)
  BY <1>12 DEF RemoveSubscription
<1>13. CASE NoMatch(s)
  BY <1>13 DEF NoMatch
<1>14. CASE Match(s)
  BY <1>14 DEF Match, Kept
<1>15. CASE TrackSubscription(s)
  BY <1>15 DEF TrackSubscription
<1>16. CASE C2TFails(s)
  BY <1>16 DEF C2TFails, SendError
<1>17. CASE T2CFails(s)
  BY <1>17 DEF T2CFails, SendError
<1>18. CASE PingFails(s)
  BY <1>18 DEF PingFails, SendError
<1>19. CASE PeerLeaves(s)
  BY <1>19 DEF PeerLeaves
<1>20. ASSUME NEW x \in Subs, BatchResponse(s, x) PROVE PendInv'
  BY <1>20 DEF BatchResponse, Issue
<1>21. CASE MapFault(s)
  BY <1>21 DEF MapFault, Restart
<1> HIDE DEF PendInv, PendingOK, Answering, TypeInv, MessageOK, TypeOK, C2TType, T2CType,
             C2T, T2C, goroutines, pipes, maps, shared, peers, history
<1> QED
  BY <1>1, <1>2, <1>3, <1>4, <1>5, <1>6, <1>7, <1>8, <1>9, <1>10, <1>11, <1>12, <1>13,
     <1>14, <1>15, <1>16, <1>17, <1>18, <1>19, <1>20, <1>21
  DEF SessionStep, MainStep, C2TTracks, T2CTracks

(***************************************************************************)
(* Nothing is pending in a session without a reason, or a miss.            *)
(***************************************************************************)
THEOREM PendingIsAlwaysExpected == SafetySpec => []PendingIsExpected
<1>1. Init => PendInv
  BY TypeInit DEF Init, PendInv, PendingOK, C2T
<1>2. PendInv /\ [Next]_vars => PendInv'
  <2> SUFFICES ASSUME PendInv, [Next]_vars PROVE PendInv'
    OBVIOUS
  <2>1. TypeInv'
    BY TypeStep DEF PendInv
  <2>2. CASE UNCHANGED vars
    BY <2>1, <2>2
    DEF PendInv, PendingOK, Answering, vars, goroutines, pipes, maps, peers, history
  <2>3. ASSUME NEW u \in Unsubscribers, UnsubscribeStep(u)
        PROVE  UNCHANGED <<main, c2t, t2c, pending, inFlight, missed>>
    BY <2>3
    DEF UnsubscribeStep, UnsubscribeCopy, GetConnectionFails, ClearSubscriptions,
        SendUnsubscribes, UnsubUnchanged, goroutines, pipes, maps, peers
  <2>4. CASE UNCHANGED <<main, c2t, t2c, pending, inFlight, missed>>
    BY <2>1, <2>4 DEF PendInv, PendingOK, Answering
  <2> QED BY <2>1, <2>2, <2>3, <2>4, PendingSession DEF Next
<1>3. PendInv => PendingIsExpected
  BY DEF PendInv, PendingOK, Answering, PendingIsExpected
<1> QED BY <1>1, <1>2, <1>3, PTL DEF SafetySpec

-----------------------------------------------------------------------------
(***************************************************************************)
(* The mutex unsubscribing: one goroutine is in UnsubscribeAll, and while  *)
(* it uses a connection the pool is empty.                                 *)
(***************************************************************************)
PoolInv ==
  /\ connPool \in 0..1
  /\ \A u \in Unsubscribers : unsub[u].at = "send" => connPool = 0
  /\ \A u, v \in Unsubscribers : unsub[u].at # "idle" /\ unsub[v].at # "idle" => u = v

LEMMA PoolStep == TypeInv /\ PoolInv /\ [Next]_vars => PoolInv'
<1> SUFFICES ASSUME TypeInv, PoolInv, [Next]_vars PROVE PoolInv'
  OBVIOUS
<1> USE DEF PoolInv, TypeInv, TypeOK, UnsubType
<1>1. ASSUME NEW u \in Unsubscribers, UnsubscribeCopy(u) PROVE PoolInv'
  BY <1>1 DEF UnsubscribeCopy
<1>2. ASSUME NEW u \in Unsubscribers, GetConnectionFails(u) PROVE PoolInv'
  BY <1>2 DEF GetConnectionFails, ConnTaken, NotUnsubscribing
<1>3. ASSUME NEW u \in Unsubscribers, ClearSubscriptions(u) PROVE PoolInv'
  BY <1>3 DEF ClearSubscriptions, ConnTaken
<1>4. ASSUME NEW u \in Unsubscribers, SendUnsubscribes(u) PROVE PoolInv'
  BY <1>4 DEF SendUnsubscribes, ConnReturned, NotUnsubscribing, PoolSize
<1>5. ASSUME NEW s \in Sessions, SessionStep(s), ~MapFault(s)
      PROVE  UNCHANGED <<connPool, unsub>>
  BY <1>5
  DEF SessionStep, MainStep, C2TTracks, T2CTracks, Open, OpenFails, Receive, Cleanup, Close,
      Subscribe, Call, Unsubscribe, FromClient, Response, BatchResponse,
      RecordPending, DeleteConn, RemoveSubscription, NoMatch, Match, Kept, TrackSubscription, C2TFails, T2CFails,
      PingFails, SendError, PeerLeaves, shared
<1>6. ASSUME NEW s \in Sessions, MapFault(s) PROVE PoolInv'
  BY <1>6 DEF MapFault, Restart, NotUnsubscribing
<1>7. CASE UNCHANGED <<connPool, unsub>>
  BY <1>7
<1>8. CASE UNCHANGED vars
  BY <1>8 DEF vars, shared
<1> QED BY <1>1, <1>2, <1>3, <1>4, <1>5, <1>6, <1>7, <1>8 DEF Next, UnsubscribeStep

(***************************************************************************)
(* There is at most one spare connection, however many goroutines taint    *)
(* the provider at a time.                                                 *)
(***************************************************************************)
THEOREM OneSpareConnectionAlways == SafetySpec => []OneSpareConnection
<1> DEFINE Inv == TypeInv /\ PoolInv
<1>1. Init => Inv
  BY TypeInit DEF Init, PoolInv, NotUnsubscribing
<1>2. Inv /\ [Next]_vars => Inv'
  BY TypeStep, PoolStep
<1>3. Inv => OneSpareConnection
  <2> SUFFICES ASSUME PoolInv PROVE OneSpareConnection
    OBVIOUS
  <2> DEFINE Senders == {u \in Unsubscribers : unsub[u].at = "send"}
  <2>1. CASE Senders = {}
    BY <2>1, FS_EmptySet DEF PoolInv, OneSpareConnection
  <2>2. ASSUME NEW u \in Senders PROVE OneSpareConnection
    <3>1. Senders = {u} /\ connPool = 0
      BY DEF PoolInv
    <3>2. Cardinality({u}) = 1
      BY FS_Singleton
    <3> QED BY <3>1, <3>2 DEF OneSpareConnection
  <2> QED BY <2>1, <2>2
<1> QED BY <1>1, <1>2, <1>3, PTL DEF SafetySpec

-----------------------------------------------------------------------------
(***************************************************************************)
(* Room in errCh: each goroutine of a session sends one error, when it     *)
(* ends, so what the channel holds and what may still come is three at     *)
(* most.                                                                   *)
(***************************************************************************)
Unended(at) == IF at \in {"off", "done"} THEN 0 ELSE 1

Room(s) ==
  /\ errCh[s] + Unended(c2t[s].at) + Unended(t2c[s].at) + Unended(ping[s]) <= ErrChSize
  /\ main[s] = "idle" => errCh[s] = 0 /\ ping[s] = "done"

LEMMA RoomSame ==
  ASSUME NEW s \in Sessions, Room(s),
         errCh'[s] = errCh[s], ping'[s] = ping[s], main'[s] = "idle" => main[s] = "idle",
         Unended(c2t'[s].at) = Unended(c2t[s].at), Unended(t2c'[s].at) = Unended(t2c[s].at)
  PROVE  Room(s)'
BY DEF Room

\* A goroutine that ends gives its place to its error.
LEMMA RoomEnds ==
  ASSUME TypeInv, TypeInv', NEW s \in Sessions, Room(s), SendError(s),
         \/ C2TFails(s) \/ T2CFails(s) \/ PingFails(s)
  PROVE  Room(s)'
<1>1. errCh[s] \in Int /\ errCh'[s] = errCh[s] + 1 /\ main'[s] = main[s]
  BY DEF TypeInv, TypeOK, SendError
<1>2. main[s] # "idle"
  BY DEF TypeInv, MessageOK, C2TFails, T2CFails, PingFails, Room
<1>3. \A at : Unended(at) \in 0..1
  BY DEF Unended
<1>4. Unended("read") = 1 /\ Unended("wait") = 1 /\ Unended("done") = 0
  BY DEF Unended
<1>5. CASE C2TFails(s)
  <2>1. c2t[s].at = "read" /\ c2t'[s].at = "done" /\ t2c'[s] = t2c[s] /\ ping'[s] = ping[s]
    BY <1>5 DEF C2TFails, C2T, TypeInv, TypeOK
  <2> QED BY <1>1, <1>2, <1>3, <1>4, <2>1 DEF Room, ErrChSize
<1>6. CASE T2CFails(s)
  <2>1. t2c[s].at = "read" /\ t2c'[s].at = "done" /\ c2t'[s] = c2t[s] /\ ping'[s] = ping[s]
    BY <1>6 DEF T2CFails, T2C, TypeInv, TypeOK
  <2> QED BY <1>1, <1>2, <1>3, <1>4, <2>1 DEF Room, ErrChSize
<1>7. CASE PingFails(s)
  <2>1. ping[s] = "wait" /\ ping'[s] = "done" /\ c2t'[s] = c2t[s] /\ t2c'[s] = t2c[s]
    BY <1>7 DEF PingFails, pipes, TypeInv, TypeOK
  <2> QED BY <1>1, <1>2, <1>3, <1>4, <2>1 DEF Room, ErrChSize
<1> QED BY <1>5, <1>6, <1>7

LEMMA RoomSession ==
  ASSUME TypeInv, TypeInv', \A q \in Sessions : Room(q), NEW s \in Sessions, SessionStep(s),
         NEW q \in Sessions
  PROVE  Room(q)'
<1>0. /\ main = [p \in Sessions |-> main[p]] /\ errCh = [p \in Sessions |-> errCh[p]]
      /\ ping = [p \in Sessions |-> ping[p]]
      /\ c2t = [p \in Sessions |-> c2t[p]] /\ t2c = [p \in Sessions |-> t2c[p]]
  BY DEF TypeInv, TypeOK
<1>t. /\ c2t \in [Sessions -> C2TType] /\ t2c \in [Sessions -> T2CType]
  BY DEF TypeInv, TypeOK
<1> USE DEF goroutines, pipes, maps, shared, peers, history
<1>1. CASE MapFault(s)
  <2>1. errCh'[q] = 0 /\ c2t'[q].at = "off" /\ t2c'[q].at = "off" /\ ping'[q] = "done"
    BY <1>1 DEF MapFault, Restart, C2T, T2C
  <2> QED BY <2>1 DEF Room, Unended, ErrChSize
<1>2. CASE s # q /\ ~MapFault(s)
  <2>1. /\ errCh'[q] = errCh[q] /\ ping'[q] = ping[q] /\ main'[q] = main[q]
        /\ c2t'[q] = c2t[q] /\ t2c'[q] = t2c[q]
    BY <1>0, <1>2
    DEF SessionStep, MainStep, C2TTracks, T2CTracks, Open, OpenFails, Receive, Cleanup, Close,
        Subscribe, Call, Unsubscribe, FromClient, Response, BatchResponse,
        RecordPending, DeleteConn, RemoveSubscription, NoMatch, Match, Kept, TrackSubscription, C2TFails, T2CFails,
        PingFails, SendError, PeerLeaves
  <2> QED BY <2>1, RoomSame
<1>3. CASE s = q /\ Open(s)
  <2>1. /\ main[s] = "idle" /\ errCh'[s] = errCh[s] /\ main'[s] = "serving"
    BY <1>0, <1>3 DEF Open
  <2> QED BY <1>3, <2>1 DEF Room, Unended, ErrChSize
<1>4. CASE s = q /\ Receive(s)
  <2>1. /\ errCh'[s] = errCh[s] - 1 /\ main'[s] = "cleanup"
        /\ ping'[s] = ping[s] /\ c2t'[s] = c2t[s] /\ t2c'[s] = t2c[s]
    BY <1>0, <1>4 DEF Receive
  <2>2. errCh[s] \in Int
    BY DEF TypeInv, TypeOK
  <2> QED BY <1>4, <2>1, <2>2 DEF Room, Unended, ErrChSize
<1>5. CASE s = q /\ (OpenFails(s) \/ Cleanup(s) \/ Close(s) \/ PeerLeaves(s))
  <2>1. /\ errCh'[s] = errCh[s] /\ ping'[s] = ping[s]
        /\ main'[s] = "idle" => main[s] = "idle"
        /\ c2t'[s] = c2t[s] /\ t2c'[s] = t2c[s]
    BY <1>0, <1>5 DEF OpenFails, Cleanup, Close, PeerLeaves
  <2> QED BY <1>5, <2>1, RoomSame
<1>6. CASE s = q /\ (C2TTracks(s) \/ T2CTracks(s)
                      \/ (\E r \in Ids : Subscribe(s, r) \/ Call(s, r))
                      \/ (\E r \in Ids, x \in Subs : Unsubscribe(s, r, x))
                      \/ (\E r \in Ids, result \in Results : Response(s, r, result))
                      \/ \E x \in Subs : BatchResponse(s, x))
  <2>1. errCh'[s] = errCh[s] /\ ping'[s] = ping[s] /\ main'[s] = main[s]
    BY <1>6
    DEF C2TTracks, T2CTracks, Subscribe, Call, Unsubscribe, FromClient, Response, BatchResponse,
        RecordPending, DeleteConn, RemoveSubscription, NoMatch, Match, Kept, TrackSubscription
  <2>2. Unended(c2t'[s].at) = Unended(c2t[s].at)
    BY <1>0, <1>6
    DEF C2TTracks, T2CTracks, Subscribe, Call, Unsubscribe, FromClient, Response, BatchResponse,
        RecordPending, DeleteConn, RemoveSubscription, NoMatch, Match, Kept, TrackSubscription,
        C2T, Unended
  <2>3. Unended(t2c'[s].at) = Unended(t2c[s].at)
    BY <1>0, <1>6
    DEF C2TTracks, T2CTracks, Subscribe, Call, Unsubscribe, FromClient, Response, BatchResponse,
        RecordPending, DeleteConn, RemoveSubscription, NoMatch, Match, Kept, TrackSubscription,
        T2C, Unended
  <2> QED BY <1>6, <2>1, <2>2, <2>3, RoomSame
<1>7. CASE s = q /\ (C2TFails(s) \/ T2CFails(s) \/ PingFails(s))
  BY <1>7, RoomEnds DEF C2TFails, T2CFails, PingFails
<1> QED BY <1>1, <1>2, <1>3, <1>4, <1>5, <1>6, <1>7 DEF SessionStep, MainStep

(***************************************************************************)
(* No goroutine of a session ever blocks on errCh, for any number of       *)
(* sessions: the handler may stop listening after the first error.         *)
(***************************************************************************)
THEOREM ErrChAlwaysHasRoom == SafetySpec => []ErrChHasRoom
<1> DEFINE Inv == TypeInv /\ \A s \in Sessions : Room(s)
<1>1. Init => Inv
  BY TypeInit DEF Init, Room, Unended, ErrChSize, C2T, T2C
<1>2. Inv /\ [Next]_vars => Inv'
  <2> SUFFICES ASSUME Inv, [Next]_vars PROVE Inv'
    OBVIOUS
  <2>1. TypeInv'
    BY TypeStep
  <2>2. CASE UNCHANGED <<main, c2t, t2c, ping, errCh>>
    BY <2>1, <2>2 DEF Room
  <2>3. ASSUME NEW u \in Unsubscribers, UnsubscribeStep(u)
        PROVE  UNCHANGED <<main, c2t, t2c, ping, errCh>>
    BY <2>3
    DEF UnsubscribeStep, UnsubscribeCopy, GetConnectionFails, ClearSubscriptions,
        SendUnsubscribes, UnsubUnchanged, goroutines, pipes
  <2>4. CASE UNCHANGED vars
    BY <2>2, <2>4 DEF vars, goroutines, pipes
  <2> QED BY <2>1, <2>2, <2>3, <2>4, RoomSession DEF Next
<1>3. Inv => ErrChHasRoom
  <2> SUFFICES ASSUME Inv, NEW s \in Sessions,
                      c2t[s].at \notin {"off", "done"} \/ t2c[s].at \notin {"off", "done"}
                      \/ ping[s] = "wait"
               PROVE  errCh[s] < ErrChSize
    BY DEF ErrChHasRoom
  <2>1. errCh[s] \in Int /\ \A at : Unended(at) \in 0..1
    BY DEF TypeInv, TypeOK, Unended
  <2>2. Unended(c2t[s].at) = 1 \/ Unended(t2c[s].at) = 1 \/ Unended(ping[s]) = 1
    BY DEF Unended
  <2> QED BY <2>1, <2>2 DEF Room, ErrChSize
<1> QED BY <1>1, <1>2, <1>3, PTL DEF SafetySpec
====
