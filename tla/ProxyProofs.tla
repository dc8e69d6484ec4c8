----------------------------- MODULE ProxyProofs -----------------------------
(***************************************************************************)
(* Proofs about Proxy, for any number of concurrent requests, slices and   *)
(* providers.                                                              *)
(***************************************************************************)
EXTENDS Proxy, TLAPS

-----------------------------------------------------------------------------
(***************************************************************************)
(* The slice pool.  Get and the deferred Put are the only steps that move  *)
(* slices; a slice New makes is neither pooled nor in use.                 *)
(***************************************************************************)
SliceInv ==
  /\ slice = [r \in Requests |-> slice[r]]
  /\ NoSlice \notin allocated
  /\ pool \subseteq allocated
  /\ \A r \in Requests : Holding(r) => slice[r] \in allocated
  /\ SliceExclusive

LEMMA SliceCases ==
  ASSUME [Next]_vars
  PROVE  \/ \E r \in Requests : GetSlice(r)
         \/ \E r \in Requests : Release(r)
         \/ UNCHANGED <<slice, pool, allocated>>
<1> USE DEF position, slices, Return
<1>1. ASSUME NEW r \in Requests, ServeStep(r), ~GetSlice(r), ~Release(r)
      PROVE  UNCHANGED <<slice, pool, allocated>>
  <2>1. CASE ReadBodyOk(r) \/ ReadBodyFails(r) \/ ScanTarget(r) \/ NoHealthyProviders(r)
             \/ StartFailover(r) \/ AllProvidersFailed(r)
    BY <1>1, <2>1
    DEF ReadBodyOk, ReadBodyFails, ScanTarget, NoHealthyProviders, StartFailover,
        AllProvidersFailed
  <2>2. CASE Forward(r) \/ ProviderFails(r) \/ CopyResponse(r) \/ StreamDone(r)
             \/ ClientDisconnects(r) \/ ProviderResets(r) \/ ResetTakenForDisconnect(r)
    BY <1>1, <2>2
    DEF Forward, ProviderFails, CopyResponse, StreamDone, ClientDisconnects, ProviderResets,
        ResetTakenForDisconnect
  <2>3. CASE SkipTarget(r) \/ Dial(r) \/ DialFails(r) \/ DialOk(r)
             \/ UpgradeFails(r) \/ UpgradeAborts(r) \/ UpgradeOk(r)
             \/ RedialFails(r) \/ RedialOk(r)
    BY <1>1, <2>3
    DEF SkipTarget, Dial, DialFails, DialOk, UpgradeFails, UpgradeAborts, UpgradeOk,
        RedialFails, RedialOk
  <2> QED BY <1>1, <2>1, <2>2, <2>3 DEF ServeStep
<1>2. ASSUME NEW r \in Requests, SessionEnds(r) PROVE Release(r)
  BY <1>2 DEF SessionEnds
<1>3. ASSUME NEW r \in Requests, TaintDone(r) \/ NextRequest(r)
      PROVE  UNCHANGED <<slice, pool, allocated>>
  BY <1>3 DEF TaintDone, NextRequest
<1>4. ASSUME NEW r \in Requests, NEW type \in ConnectionTypes, Arrive(r, type)
      PROVE  UNCHANGED <<slice, pool, allocated>>
  BY <1>4 DEF Arrive
<1>5. ASSUME NEW k \in Checkers, HealthChange(k) PROVE UNCHANGED <<slice, pool, allocated>>
  BY <1>5 DEF HealthChange
<1>6. CASE UNCHANGED vars
  BY <1>6 DEF vars
<1> QED BY <1>1, <1>2, <1>3, <1>4, <1>5, <1>6 DEF Next

LEMMA SliceStep == SliceInv /\ [Next]_vars => SliceInv'
<1> SUFFICES ASSUME SliceInv, [Next]_vars PROVE SliceInv'
  OBVIOUS
<1>1. ASSUME NEW r \in Requests, GetSlice(r) PROVE SliceInv'
  <2>1. PICK s \in pool \cup (Slices \ allocated) :
          /\ slice' = [slice EXCEPT ![r] = s]
          /\ pool' = pool \ {s}
          /\ allocated' = allocated \cup {s}
    BY <1>1 DEF GetSlice
  <2>2. s # NoSlice
    BY <2>1, SlicesAssumption DEF SliceInv
  <2>3. \A q \in Requests : Holding(q) => slice[q] # s
    BY <2>1 DEF SliceInv, SliceExclusive
  <2>4. slice'[r] = s /\ \A q \in Requests \ {r} : slice'[q] = slice[q]
    BY <2>1 DEF SliceInv
  <2>5. SliceExclusive'
    BY <2>1, <2>2, <2>3, <2>4 DEF SliceInv, SliceExclusive, Holding
  <2>6. /\ slice' = [q \in Requests |-> slice'[q]]
        /\ NoSlice \notin allocated'
        /\ pool' \subseteq allocated'
        /\ \A q \in Requests : Holding(q)' => slice'[q] \in allocated'
    BY <2>1, <2>2, <2>4 DEF SliceInv, Holding
  <2> QED BY <2>5, <2>6 DEF SliceInv
<1>2. ASSUME NEW r \in Requests, Release(r) PROVE SliceInv'
  <2>1. /\ pool' = pool \cup ({slice[r]} \ {NoSlice})
        /\ slice' = [slice EXCEPT ![r] = NoSlice]
        /\ UNCHANGED allocated
    BY <1>2 DEF Release
  <2>2. slice'[r] = NoSlice /\ \A q \in Requests \ {r} : slice'[q] = slice[q]
    BY <2>1 DEF SliceInv
  <2>3. SliceExclusive'
    BY <2>1, <2>2 DEF SliceInv, SliceExclusive, Holding
  <2>4. /\ slice' = [q \in Requests |-> slice'[q]]
        /\ pool' \subseteq allocated'
        /\ \A q \in Requests : Holding(q)' => slice'[q] \in allocated'
    BY <2>1, <2>2 DEF SliceInv, Holding
  <2> QED BY <2>1, <2>3, <2>4 DEF SliceInv
<1>3. CASE UNCHANGED <<slice, pool, allocated>>
  BY <1>3 DEF SliceInv, SliceExclusive, Holding
<1> QED BY <1>1, <1>2, <1>3, SliceCases

(***************************************************************************)
(* A slice of healthyPool is never used by two requests at a time.         *)
(***************************************************************************)
THEOREM SlicesAreExclusive == Spec => []SliceExclusive
<1>1. Init => SliceInv
  BY DEF Init, SliceInv, SliceExclusive, Holding
<1>2. SliceInv => SliceExclusive
  BY DEF SliceInv
<1> QED BY <1>1, <1>2, SliceStep, PTL DEF Spec

-----------------------------------------------------------------------------
(***************************************************************************)
(* The response.  Nothing has been written before the request commits to   *)
(* an answer, and from then on X-Status-Set keeps a provider's failure     *)
(* from starting another one.                                              *)
(***************************************************************************)
Committed == {"streaming", "reset", "redial", "session", "done"}

AnswerFunctions ==
  /\ at = [r \in Requests |-> at[r]]
  /\ statusSet = [r \in Requests |-> statusSet[r]]
  /\ statuses = [r \in Requests |-> statuses[r]]
  /\ sources = [r \in Requests |-> sources[r]]

\* The part of the invariant about request r.
Answer(r) ==
  /\ at[r] \notin Committed => ~statusSet[r] /\ statuses[r] = <<>> /\ sources[r] = {}
  /\ at[r] \in Committed => Len(statuses[r]) = 1
  /\ at[r] \in {"streaming", "reset"} => statusSet[r]
  /\ at[r] = "redial" => sources[r] = {}
  /\ \A x, y \in sources[r] : x = y

AnswerInv == AnswerFunctions /\ \A r \in Requests : Answer(r)

\* A step of request r touches no other request.
OnlyRequest(r) ==
  /\ AnswerFunctions'
  /\ \A q \in Requests \ {r} :
       /\ at'[q] = at[q]
       /\ statusSet'[q] = statusSet[q]
       /\ statuses'[q] = statuses[q]
       /\ sources'[q] = sources[q]

LEMMA OneRequestStep ==
  ASSUME AnswerInv, NEW r \in Requests, OnlyRequest(r), Answer(r)'
  PROVE  AnswerInv'
  BY DEF AnswerInv, OnlyRequest, Answer

\* An answer of the gateway, or the start of a provider's.
LEMMA WriteFacts ==
  ASSUME AnswerInv, NEW r \in Requests, at[r] \notin Committed,
         NEW code \in Nat, NEW source, Write(r, code, source)
  PROVE  /\ statusSet'[r]
         /\ Len(statuses'[r]) = 1
         /\ sources'[r] = {source}
<1>1. statuses[r] = <<>> /\ ~statusSet[r] /\ sources[r] = {}
  BY DEF AnswerInv, Answer
<1>2. statuses'[r] = Append(<<>>, code)
  BY <1>1 DEF Write, AnswerInv, AnswerFunctions
<1> QED BY <1>1, <1>2 DEF Write, AnswerInv, AnswerFunctions

LEMMA ServeAnswer ==
  ASSUME AnswerInv, NEW r \in Requests,
         ServeStep(r) \/ TaintDone(r) \/ SessionEnds(r) \/ NextRequest(r)
  PROVE  AnswerInv'
<1>0. AnswerFunctions /\ Answer(r)
  BY DEF AnswerInv
<1> USE DEF Goto, response
\* Gateway errors.
<1>1. CASE ReadBodyFails(r) \/ NoHealthyProviders(r) \/ AllProvidersFailed(r)
  <2>1. PICK code \in {400, 503} : Write(r, code, 0)
    BY <1>1 DEF ReadBodyFails, NoHealthyProviders, AllProvidersFailed
  <2>2. at[r] \notin Committed /\ Return(r)
    BY <1>1 DEF ReadBodyFails, NoHealthyProviders, AllProvidersFailed, Committed
  <2>3. Len(statuses'[r]) = 1 /\ sources'[r] = {0}
    BY <2>1, <2>2, WriteFacts
  <2>4. at'[r] = "done"
    BY <1>0, <2>2 DEF Return, AnswerFunctions
  <2>5. Answer(r)'
    BY <2>3, <2>4 DEF Answer, Committed
  <2>6. OnlyRequest(r)
    BY ZenonT(60), <1>0, <2>1, <2>2 DEF Write, Return, AnswerFunctions, OnlyRequest
  <2> QED BY <2>5, <2>6, OneRequestStep
\* Steps before the answer.
<1>2. CASE ReadBodyOk(r) \/ GetSlice(r) \/ StartFailover(r) \/ Forward(r)
           \/ Dial(r) \/ DialFails(r) \/ TaintDone(r) \/ DialOk(r)
  <2>1. at[r] \notin Committed /\ UNCHANGED <<statusSet, statuses, sources>>
    BY <1>2
    DEF ReadBodyOk, GetSlice, StartFailover, Forward, Dial, DialFails, TaintDone, DialOk,
        Committed
  <2>2. PICK a \in {"get", "scan", "try", "inflight", "dialing", "tainting", "upgrading"} :
          at' = [at EXCEPT ![r] = a]
    BY <1>2
    DEF ReadBodyOk, GetSlice, StartFailover, Forward, Dial, DialFails, TaintDone, DialOk
  <2>3. at'[r] = a /\ a \notin Committed
    BY <1>0, <2>2 DEF AnswerFunctions, Committed
  <2>4. Answer(r)'
    BY <1>0, <2>1, <2>3 DEF Answer, Committed
  <2>5. OnlyRequest(r)
    BY <1>0, <2>1, <2>2 DEF AnswerFunctions, OnlyRequest
  <2> QED BY <2>4, <2>5, OneRequestStep
<1>3. CASE ScanTarget(r) \/ SkipTarget(r)
  BY <1>3 DEF ScanTarget, SkipTarget, AnswerInv, AnswerFunctions, Answer
<1>4. CASE ProviderFails(r)
  <2>1. UNCHANGED <<statusSet, statuses, sources>>
    BY <1>4 DEF ProviderFails
  <2>2. CASE statusSet[r]
    <3>1. at[r] = "streaming" /\ at' = [at EXCEPT ![r] = "done"]
      BY <1>0, <1>4, <2>2 DEF ProviderFails, Return, Answer, Committed
    <3>2. at'[r] = "done"
      BY <1>0, <3>1 DEF AnswerFunctions
    <3>3. Answer(r)' /\ OnlyRequest(r)
      BY <1>0, <2>1, <3>1, <3>2 DEF Answer, AnswerFunctions, OnlyRequest, Committed
    <3> QED BY <3>3, OneRequestStep
  <2>3. CASE ~statusSet[r]
    <3>1. at[r] = "inflight" /\ at' = [at EXCEPT ![r] = "try"]
      BY <1>0, <1>4, <2>3 DEF ProviderFails, Answer
    <3>2. at'[r] = "try"
      BY <1>0, <3>1 DEF AnswerFunctions
    <3>3. Answer(r)' /\ OnlyRequest(r)
      BY <1>0, <2>1, <3>1, <3>2 DEF Answer, AnswerFunctions, OnlyRequest, Committed
    <3> QED BY <3>3, OneRequestStep
  <2> QED BY <2>2, <2>3
<1>5. CASE CopyResponse(r)
  <2>1. at[r] \notin Committed /\ Write(r, 200, Current(r))
    BY <1>5 DEF CopyResponse, Committed
  <2>2. statusSet'[r] /\ Len(statuses'[r]) = 1 /\ sources'[r] = {Current(r)}
    BY <2>1, WriteFacts
  <2>3. at'[r] = "streaming"
    BY <1>0, <1>5 DEF CopyResponse, AnswerFunctions
  <2>4. Answer(r)'
    BY <2>2, <2>3 DEF Answer, Committed
  <2>5. OnlyRequest(r)
    BY ZenonT(60), <1>0, <1>5, <2>1 DEF CopyResponse, Write, AnswerFunctions, OnlyRequest
  <2> QED BY <2>4, <2>5, OneRequestStep
\* The answer is complete.
<1>6. CASE StreamDone(r) \/ ClientDisconnects(r) \/ ResetTakenForDisconnect(r)
           \/ RedialFails(r) \/ SessionEnds(r)
  <2>1. at[r] \in Committed /\ UNCHANGED <<statusSet, statuses, sources>>
    BY <1>6
    DEF StreamDone, ClientDisconnects, ResetTakenForDisconnect, RedialFails, SessionEnds,
        Committed
  <2>2. at' = [at EXCEPT ![r] = "done"]
    BY <1>6
    DEF StreamDone, ClientDisconnects, ResetTakenForDisconnect, RedialFails, SessionEnds, Return
  <2>3. at'[r] = "done"
    BY <1>0, <2>2 DEF AnswerFunctions
  <2>4. Answer(r)' /\ OnlyRequest(r)
    BY <1>0, <2>1, <2>2, <2>3 DEF Answer, AnswerFunctions, OnlyRequest, Committed
  <2> QED BY <2>4, OneRequestStep
\* The answer breaks off: in the middle, or before it began.
<1>10. CASE ProviderResets(r) \/ UpgradeAborts(r)
  <2>1. UNCHANGED <<statusSet, statuses, sources>>
    BY <1>10 DEF ProviderResets, UpgradeAborts
  <2>2. CASE ProviderResets(r)
    <3>1. at[r] = "streaming" /\ at' = [at EXCEPT ![r] = "reset"]
      BY <2>2 DEF ProviderResets
    <3>2. at'[r] = "reset"
      BY <1>0, <3>1 DEF AnswerFunctions
    <3>3. Answer(r)' /\ OnlyRequest(r)
      BY <1>0, <2>1, <3>1, <3>2 DEF Answer, AnswerFunctions, OnlyRequest, Committed
    <3> QED BY <3>3, OneRequestStep
  <2>3. CASE UpgradeAborts(r)
    <3>1. at[r] = "upgrading" /\ at' = [at EXCEPT ![r] = "closed"]
      BY <2>3 DEF UpgradeAborts
    <3>2. at'[r] = "closed"
      BY <1>0, <3>1 DEF AnswerFunctions
    <3>3. Answer(r)' /\ OnlyRequest(r)
      BY <1>0, <2>1, <3>1, <3>2 DEF Answer, AnswerFunctions, OnlyRequest, Committed
    <3> QED BY <3>3, OneRequestStep
  <2> QED BY <1>10, <2>2, <2>3
\* The upgrade.
<1>7. CASE UpgradeFails(r) \/ UpgradeOk(r)
  <2>1. statuses[r] = <<>> /\ sources[r] = {}
    BY <1>0, <1>7 DEF UpgradeFails, UpgradeOk, Answer, Committed
  <2>2. PICK code \in {400, 101} : statuses' = [statuses EXCEPT ![r] = Append(@, code)]
    BY <1>7 DEF UpgradeFails, UpgradeOk
  <2>3. statuses'[r] = Append(<<>>, code)
    BY <1>0, <2>1, <2>2 DEF AnswerFunctions
  <2>4. Len(statuses'[r]) = 1
    BY <2>3
  <2>5. PICK a \in {"done", "redial"} : at' = [at EXCEPT ![r] = a]
    BY <1>7 DEF UpgradeFails, UpgradeOk, Return
  <2>6. at'[r] = a
    BY <1>0, <2>5 DEF AnswerFunctions
  <2>7. UNCHANGED <<statusSet, sources>>
    BY <1>7 DEF UpgradeFails, UpgradeOk
  <2>8. Answer(r)'
    BY <2>1, <2>4, <2>6, <2>7 DEF Answer, Committed
  <2>9. OnlyRequest(r)
    BY <1>0, <2>2, <2>5, <2>7 DEF AnswerFunctions, OnlyRequest
  <2> QED BY <2>8, <2>9, OneRequestStep
<1>8. CASE RedialOk(r)
  <2>1. at'[r] = "session" /\ sources'[r] = {Current(r)}
    BY <1>0, <1>8 DEF RedialOk, Answer, AnswerFunctions
  <2>2. Answer(r)'
    BY <1>0, <1>8, <2>1 DEF RedialOk, Answer, Committed
  <2>3. OnlyRequest(r)
    BY <1>0, <1>8 DEF RedialOk, AnswerFunctions, OnlyRequest
  <2> QED BY <2>2, <2>3, OneRequestStep
<1>9. CASE NextRequest(r)
  <2>1. /\ at'[r] = "new"
        /\ ~statusSet'[r]
        /\ statuses'[r] = <<>>
        /\ sources'[r] = {}
    BY <1>0, <1>9 DEF NextRequest, AnswerFunctions
  <2>2. Answer(r)'
    BY <2>1 DEF Answer, Committed
  <2>3. OnlyRequest(r)
    BY <1>0, <1>9 DEF NextRequest, AnswerFunctions, OnlyRequest
  <2> QED BY <2>2, <2>3, OneRequestStep
<1> QED
  BY <1>1, <1>2, <1>3, <1>4, <1>5, <1>6, <1>7, <1>8, <1>9, <1>10 DEF ServeStep

LEMMA AnswerStep == AnswerInv /\ [Next]_vars => AnswerInv'
<1> SUFFICES ASSUME AnswerInv, [Next]_vars PROVE AnswerInv'
  OBVIOUS
<1> USE DEF response
<1>1. ASSUME NEW r \in Requests, NEW type \in ConnectionTypes, Arrive(r, type)
      PROVE  AnswerInv'
  <2>0. AnswerFunctions /\ Answer(r)
    BY DEF AnswerInv
  <2>1. at[r] = "new" /\ UNCHANGED <<statusSet, statuses, sources>>
    BY <1>1 DEF Arrive
  <2>2. PICK a \in {"get", "readBody"} : at' = [at EXCEPT ![r] = a]
    BY <1>1 DEF Arrive, Goto
  <2>3. at'[r] = a
    BY <2>0, <2>2 DEF AnswerFunctions
  <2>4. Answer(r)' /\ OnlyRequest(r)
    BY <2>0, <2>1, <2>2, <2>3 DEF Answer, AnswerFunctions, OnlyRequest, Committed
  <2> QED BY <2>4, OneRequestStep
<1>2. ASSUME NEW k \in Checkers, HealthChange(k) PROVE AnswerInv'
  BY <1>2 DEF HealthChange, AnswerInv, AnswerFunctions, Answer
<1>3. CASE UNCHANGED vars
  BY <1>3 DEF vars, AnswerInv, AnswerFunctions, Answer
<1> QED BY <1>1, <1>2, <1>3, ServeAnswer DEF Next

LEMMA InitAnswer == Init => AnswerInv
  BY DEF Init, AnswerInv, AnswerFunctions, Answer, Committed

(***************************************************************************)
(* A client gets one status at most, however many providers fail, and      *)
(* exactly one when the handler returns, unless the upgrade of its         *)
(* connection broke off after the upgrader had taken it over.              *)
(***************************************************************************)
THEOREM ClientsAreAnsweredOnce == Spec => []AnsweredOnce
<1>1. AnswerInv => AnsweredOnce
  <2> SUFFICES ASSUME AnswerInv, NEW r \in Requests
               PROVE  Len(statuses[r]) <= 1 /\ (at[r] = "done" => Len(statuses[r]) = 1)
    BY DEF AnsweredOnce
  <2>1. CASE at[r] \in Committed
    <3>1. Len(statuses[r]) = 1
      BY <2>1 DEF AnswerInv, Answer
    <3> QED BY <3>1
  <2>2. CASE at[r] \notin Committed
    <3>1. Len(statuses[r]) = 0
      BY <2>2 DEF AnswerInv, Answer
    <3> QED BY <2>2, <3>1 DEF Committed
  <2> QED BY <2>1, <2>2
<1> QED BY <1>1, InitAnswer, AnswerStep, PTL DEF Spec

(***************************************************************************)
(* The body of a response has one author: no stream is spliced from two    *)
(* providers, or from a provider and an error message.                     *)
(***************************************************************************)
THEOREM ResponsesHaveOneSource == Spec => []SingleSource
<1>1. AnswerInv => SingleSource
  BY DEF AnswerInv, Answer, SingleSource
<1> QED BY <1>1, InitAnswer, AnswerStep, PTL DEF Spec

=============================================================================
