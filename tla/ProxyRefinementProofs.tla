------------------------ MODULE ProxyRefinementProofs ------------------------
(***************************************************************************)
(* Proxy implements RequestService, for any number of requests, slices and *)
(* providers.                                                              *)
(***************************************************************************)
EXTENDS ProxySnapshotProofs

absPhase == [r \in Requests |-> Phase(r)]

absCandidates == [r \in Requests |-> Candidates(r)]

absUsable == [type \in ConnectionTypes |-> Usable(type)]

LEMMA RefineInit == Init => Service!Init
<1> SUFFICES ASSUME Init PROVE Service!Init
  OBVIOUS
<1>1. \A r \in Requests : Phase(r) = "idle" /\ Candidates(r) = {}
  BY DEF Init, Phase, Candidates
<1>2. \A type \in ConnectionTypes : Usable(type) \in SUBSET Targets
  BY DEF Usable
<1>3. conn \in [Requests -> ConnectionTypes]
  BY DEF Init, ConnectionTypes
<1> QED BY <1>1, <1>2, <1>3 DEF Init, Service!Init

-----------------------------------------------------------------------------
(* What a step of one request leaves alone *)

Handles(r) ==
  \/ \E type \in ConnectionTypes : Arrive(r, type)
  \/ ServeStep(r) \/ TaintDone(r) \/ SessionEnds(r) \/ NextRequest(r)

LEMMA StepApart ==
  ASSUME SnapInv, NEW r \in Requests, Handles(r)
  PROVE  Apart(r)
<1>0. /\ at = [q \in Requests |-> at[q]] /\ slice = [q \in Requests |-> slice[q]]
      /\ len = [q \in Requests |-> len[q]] /\ next = [q \in Requests |-> next[q]]
      /\ failed = [q \in Requests |-> failed[q]]
      /\ backing = [s \in Slices |-> backing[s]]
  BY DEF SnapInv, TypeOK
<1> USE <1>0 DEF Apart, Goto, position, slices, response, Return, Release, TaintCurrent
<1>1. CASE (\E type \in ConnectionTypes : Arrive(r, type)) \/ NextRequest(r)
  BY <1>1 DEF Arrive, NextRequest
<1>2. CASE ReadBodyOk(r) \/ ReadBodyFails(r) \/ GetSlice(r) \/ NoHealthyProviders(r)
           \/ StartFailover(r) \/ AllProvidersFailed(r)
  BY <1>2
  DEF ReadBodyOk, ReadBodyFails, GetSlice, NoHealthyProviders, StartFailover, AllProvidersFailed
<1>3. CASE ScanTarget(r)
  BY <1>3 DEF ScanTarget
<1>4. CASE Forward(r) \/ ProviderFails(r) \/ CopyResponse(r) \/ StreamDone(r)
           \/ ClientDisconnects(r) \/ ProviderResets(r) \/ ResetTakenForDisconnect(r)
           \/ SessionEnds(r)
  BY <1>4
  DEF Forward, ProviderFails, CopyResponse, StreamDone, ClientDisconnects, ProviderResets,
      ResetTakenForDisconnect, SessionEnds
<1>5. CASE SkipTarget(r) \/ Dial(r) \/ DialFails(r) \/ DialOk(r) \/ TaintDone(r)
  BY <1>5 DEF SkipTarget, Dial, DialFails, DialOk, TaintDone
<1>6. CASE UpgradeFails(r) \/ UpgradeAborts(r) \/ UpgradeOk(r)
           \/ RedialFails(r) \/ RedialOk(r)
  BY <1>6 DEF UpgradeFails, UpgradeAborts, UpgradeOk, RedialFails, RedialOk
<1> QED BY <1>1, <1>2, <1>3, <1>4, <1>5, <1>6 DEF Handles, ServeStep

\* The abstract state changes for request r only.
LEMMA AbstractExcept ==
  ASSUME SnapInv, NEW r \in Requests, Apart(r)
  PROVE  /\ absPhase' = [absPhase EXCEPT ![r] = Phase(r)']
         /\ absCandidates' = [absCandidates EXCEPT ![r] = Candidates(r)']
<1>1. ASSUME NEW q \in Requests, q # r
      PROVE  Phase(q)' = Phase(q) /\ Candidates(q)' = Candidates(q)
  <2>1. /\ at'[q] = at[q] /\ slice'[q] = slice[q] /\ len'[q] = len[q] /\ next'[q] = next[q]
    BY <1>1 DEF Apart
  <2>2. Phase(q)' = Phase(q)
    BY <2>1 DEF Phase
  <2>3. CASE at[q] \in HoldStates
    <3>1. slice[q] \in Slices
      BY <2>3 DEF SnapInv, Snap
    <3>2. slice[q] # slice[r]
      BY <1>1, <3>1, SlicesAssumption DEF SnapInv, SliceInv, SliceExclusive, Holding
    <3>3. backing'[slice'[q]] = backing[slice[q]]
      BY <2>1, <3>1, <3>2 DEF Apart
    <3>4. Snapshot(q, 1)' = Snapshot(q, 1) /\ Snapshot(q, next[q])' = Snapshot(q, next[q])
      BY <2>1, <3>3 DEF Snapshot
    <3> QED BY <2>1, <2>2, <3>4 DEF Candidates, Snapshot
  <2>4. CASE at[q] \notin HoldStates
    <3>1. Phase(q) = "serving" => at[q] \in {"readBody", "get"}
      BY <2>4 DEF Phase, HoldStates, SnapInv, TypeOK, States
    <3> QED BY <2>1, <2>2, <2>4, <3>1 DEF Candidates, HoldStates
  <2> QED BY <2>2, <2>3, <2>4
<1> QED BY <1>1 DEF absPhase, absCandidates

LEMMA UsableSame == ASSUME UNCHANGED tainted PROVE absUsable' = absUsable
BY DEF absUsable, Usable, IsHealthy

LEMMA UsableTainted ==
  ASSUME TypeOK, NEW r \in Requests, TaintCurrent(r)
  PROVE  /\ \A type \in ConnectionTypes : absUsable'[type] \subseteq absUsable[type]
         /\ Current(r) \notin absUsable'[conn[r]]
<1>1. tainted' = [tainted EXCEPT ![CurrentChecker(r)] = TRUE] /\ DOMAIN tainted = Checkers
  BY DEF TaintCurrent, TypeOK
<1>2. ASSUME NEW t, NEW type, IsHealthy(t, type)' PROVE IsHealthy(t, type)
  BY <1>1, <1>2 DEF IsHealthy, HasChecker
<1>3. ASSUME NEW t, NEW type, t = Current(r), type = conn[r] PROVE ~IsHealthy(t, type)'
  BY <1>1, <1>3 DEF IsHealthy, HasChecker, CurrentChecker
<1>4. \A type \in ConnectionTypes : Usable(type)' \subseteq Usable(type)
  BY <1>2 DEF Usable
<1>5. ASSUME NEW t, NEW type, t = Current(r), type = conn[r] PROVE t \notin Usable(type)'
  BY <1>3, <1>5 DEF Usable
<1>6. conn[r] \in ConnectionTypes
  BY DEF TypeOK
<1> QED BY <1>4, <1>5, <1>6 DEF absUsable

-----------------------------------------------------------------------------
(* The snapshot when the loop advances *)

LEMMA SnapshotTail ==
  ASSUME SnapInv, NEW r \in Requests, at[r] \in HoldStates, next[r] \in 1..len[r]
  PROVE  /\ Current(r) \in Snapshot(r, next[r])
         /\ Snapshot(r, next[r] + 1) = Snapshot(r, next[r]) \ {Current(r)}
<1> DEFINE b == backing[slice[r]]
           n == next[r]
<1>1. n \in Nat /\ n >= 1 /\ len[r] \in Nat /\ n <= len[r]
  BY TargetsFacts DEF SnapInv, TypeOK
<1>2. \A k \in 1..len[r] : b[k] \in Int /\ \A j \in 1..(k - 1) : b[j] < b[k]
  BY TargetsFacts DEF SnapInv, Snap, Increasing
<1>3. \A k \in (n + 1)..len[r] : b[k] # b[n]
  <2> SUFFICES ASSUME NEW k \in (n + 1)..len[r] PROVE b[k] # b[n]
    OBVIOUS
  <2>1. k \in 1..len[r] /\ n \in 1..(k - 1) /\ n \in 1..len[r]
    BY ONLY <1>1, k \in (n + 1)..len[r]
  <2> QED BY ONLY <1>2, <2>1
<1>4. n..len[r] = {n} \cup (n + 1)..len[r]
  BY ONLY <1>1
<1> QED BY ONLY <1>3, <1>4 DEF Snapshot, Current

-----------------------------------------------------------------------------
(* Steps of RequestService, from what happens to one request *)

\* Nothing happens.
LEMMA Stutters ==
  ASSUME SnapInv, NEW r \in Requests, Apart(r), UNCHANGED <<tainted, conn, sources>>,
         Phase(r)' = Phase(r), Candidates(r)' = Candidates(r)
  PROVE  UNCHANGED Service!vars
<1>1. absPhase' = absPhase /\ absCandidates' = absCandidates
  BY AbstractExcept DEF absPhase, absCandidates
<1> QED BY <1>1, UsableSame DEF Service!vars, absPhase, absCandidates, absUsable

LEMMA RulesOut ==
  ASSUME SnapInv, NEW r \in Requests, Apart(r), NEW t, UNCHANGED <<conn, sources>>,
         Phase(r) = "serving", Phase(r)' = "serving",
         t \in Candidates(r), Candidates(r)' = Candidates(r) \ {t},
         \A type \in ConnectionTypes : absUsable'[type] \subseteq absUsable[type],
         t \notin absUsable'[conn[r]]
  PROVE  Service!RuleOut(r, t)
<1>1. /\ absPhase[r] = "serving" /\ absCandidates[r] = Candidates(r)
  BY DEF absPhase, absCandidates
<1>2. /\ absPhase' = absPhase
      /\ absCandidates' = [absCandidates EXCEPT ![r] = absCandidates[r] \ {t}]
  BY ZenonT(60), <1>1, AbstractExcept DEF absPhase, absCandidates
<1>3. absPhase[r] = "serving" /\ t \in absCandidates[r]
  BY <1>1
<1> QED
  BY ONLY <1>2, <1>3, UNCHANGED <<conn, sources>>, t \notin absUsable'[conn[r]],
     \A type \in ConnectionTypes : absUsable'[type] \subseteq absUsable[type]
  DEF Service!RuleOut, Service!Failures, absPhase, absCandidates, absUsable

\* The request is settled, as said by author a.
LEMMA Settles ==
  ASSUME SnapInv, NEW r \in Requests, Apart(r), NEW a, NEW p, UNCHANGED <<conn, tainted>>,
         Phase(r) = "serving", Phase(r)' = p, Candidates(r)' = {},
         sources' = [sources EXCEPT ![r] = a]
  PROVE  Service!Settle(r, p, a)
<1>1. absPhase[r] = "serving"
  BY DEF absPhase
<1>2. /\ absPhase' = [absPhase EXCEPT ![r] = p]
      /\ absCandidates' = [absCandidates EXCEPT ![r] = {}]
  BY AbstractExcept
<1>3. absUsable' = absUsable
  BY UsableSame
<1> QED
  BY ONLY <1>1, <1>2, <1>3, UNCHANGED conn, sources' = [sources EXCEPT ![r] = a]
  DEF Service!Settle, absPhase, absCandidates, absUsable

LEMMA Finishes ==
  ASSUME SnapInv, NEW r \in Requests, Apart(r), UNCHANGED <<conn, sources>>,
         Phase(r) = "answered", Phase(r)' = "over",
         Candidates(r)' = Candidates(r),
         \A type \in ConnectionTypes : absUsable'[type] \subseteq absUsable[type]
  PROVE  Service!Finish(r)
<1>1. absPhase[r] = "answered"
  BY DEF absPhase
<1>2. absPhase' = [absPhase EXCEPT ![r] = "over"] /\ absCandidates' = absCandidates
  BY AbstractExcept DEF absCandidates
<1> QED
  BY ONLY <1>1, <1>2, UNCHANGED <<conn, sources>>,
     \A type \in ConnectionTypes : absUsable'[type] \subseteq absUsable[type]
  DEF Service!Finish, Service!Failures, absPhase, absCandidates, absUsable

-----------------------------------------------------------------------------
(* Every step of a request *)

\* The request rules out the provider it is at.
LEMMA Advances ==
  ASSUME SnapInv, NEW r \in Requests, Apart(r), UNCHANGED <<conn, sources>>,
         at[r] \in LoopStates, next[r] \in 1..len[r], at'[r] = "try",
         next'[r] = next[r] + 1, UNCHANGED <<slice, len, backing>>,
         \A type \in ConnectionTypes : absUsable'[type] \subseteq absUsable[type],
         Current(r) \notin absUsable'[conn[r]]
  PROVE  Service!RuleOut(r, Current(r))
<1>1. Phase(r) = "serving" /\ Phase(r)' = "serving"
  BY DEF Phase, LoopStates
<1>2. at[r] \in HoldStates
  BY DEF LoopStates, HoldStates
<1>3. Candidates(r) = Snapshot(r, next[r])
  BY <1>1 DEF Candidates, LoopStates
<1>4. Candidates(r)' = Snapshot(r, next[r] + 1)
  BY <1>1 DEF Candidates, Snapshot
<1>5. Current(r) \in Candidates(r) /\ Candidates(r)' = Candidates(r) \ {Current(r)}
  BY <1>2, <1>3, <1>4, SnapshotTail
<1> DEFINE t == Current(r)
<1>6. t \in Candidates(r) /\ Candidates(r)' = Candidates(r) \ {t} /\ t \notin absUsable'[conn[r]]
  BY <1>5
<1> HIDE DEF t
<1>7. Service!RuleOut(r, t)
  BY <1>1, <1>6, RulesOut
<1> QED BY <1>7 DEF t

LEMMA ServeRefines ==
  ASSUME SnapInv, NEW r \in Requests, Handles(r)
  PROVE  UNCHANGED Service!vars \/ Service!Step(r)
<1>0. TypeOK /\ Snap(r) /\ Answer(r) /\ Apart(r)
  BY StepApart DEF SnapInv, AnswerInv
<1>n. next[r] \in Nat /\ next[r] >= 1 /\ len[r] \in Nat /\ conn[r] \in ConnectionTypes
  BY <1>0, TargetsFacts DEF TypeOK
<1> USE DEF Goto, position, slices, response
<1>1. ASSUME NEW type \in ConnectionTypes, Arrive(r, type) PROVE Service!Step(r)
  <2>1. /\ at[r] = "new" /\ at'[r] \in {"get", "readBody"}
        /\ conn' = [conn EXCEPT ![r] = type]
        /\ UNCHANGED <<tainted, sources>>
    BY <1>0, <1>1 DEF Arrive, TypeOK
  <2>2. Phase(r) = "idle" /\ Phase(r)' = "serving" /\ Candidates(r)' = Targets
    BY <2>1 DEF Phase, Candidates
  <2>3. /\ absPhase[r] = "idle"
        /\ absPhase' = [absPhase EXCEPT ![r] = "serving"]
        /\ absCandidates' = [absCandidates EXCEPT ![r] = Targets]
        /\ absUsable' = absUsable
    BY <1>0, <2>1, <2>2, AbstractExcept, UsableSame DEF absPhase
  <2>4. Service!Accept(r, type)
    BY ONLY <2>1, <2>3 DEF Service!Accept, absPhase, absCandidates, absUsable
  <2> QED BY <2>4 DEF Service!Step
\* Nothing that the service tells apart.
<1>2. CASE ReadBodyOk(r) \/ Forward(r) \/ Dial(r) \/ DialOk(r) \/ UpgradeOk(r)
           \/ (DialFails(r) /\ ~tainted[CurrentChecker(r)])
  <2>1. UNCHANGED <<tainted, conn, slice, len, next, backing, sources>>
    BY <1>2 DEF ReadBodyOk, Forward, Dial, DialOk, UpgradeOk, DialFails
  <2>2. \/ at[r] = "readBody" /\ at'[r] = "get"
        \/ /\ at[r] \in {"try", "dialing", "upgrading"}
           /\ at'[r] \in {"inflight", "dialing", "tainting", "upgrading", "redial"}
    BY <1>0, <1>2 DEF ReadBodyOk, Forward, Dial, DialOk, UpgradeOk, DialFails, TypeOK
  <2>3. Phase(r) = "serving" /\ Phase(r)' = "serving"
    BY <2>2 DEF Phase
  <2>4. Candidates(r)' = Candidates(r)
    BY ONLY <2>1, <2>2, <2>3 DEF Candidates, Snapshot
  <2> QED BY <1>0, <2>1, <2>3, <2>4, Stutters
<1>13. CASE ProviderResets(r)
  <2>1. /\ UNCHANGED <<tainted, conn, slice, len, next, backing, sources>>
        /\ at[r] = "streaming" /\ at'[r] = "reset"
    BY <1>0, <1>13 DEF ProviderResets, TypeOK
  <2>2. /\ Phase(r)' = Phase(r)
        /\ Candidates(r)' = Candidates(r)
    BY <2>1 DEF Phase, Candidates
  <2> QED BY <1>0, <2>1, <2>2, Stutters
<1>3. CASE GetSlice(r)
  <2>1. /\ at[r] = "get" /\ at'[r] = "scan" /\ len'[r] = 0 /\ next'[r] = 1
        /\ UNCHANGED <<tainted, conn, sources>>
    BY <1>0, <1>3 DEF GetSlice, TypeOK
  <2>2. Phase(r)' = Phase(r)
    BY <2>1 DEF Phase
  <2>3. Snapshot(r, 1)' = {}
    BY <2>1 DEF Snapshot
  <2>4. {t \in Targets : t >= 1} = Targets
    BY TargetsFacts
  <2>5. Candidates(r)' = Candidates(r)
    BY <2>1, <2>3, <2>4 DEF Candidates
  <2> QED BY <1>0, <2>1, <2>2, <2>5, Stutters
<1>4. CASE StartFailover(r)
  <2>1. /\ at[r] = "scan" /\ at'[r] = "try" /\ next'[r] = 1 /\ next[r] > Len(targets)
        /\ UNCHANGED <<tainted, conn, slice, len, backing, sources>>
    BY <1>0, <1>4 DEF StartFailover, TypeOK
  <2>2. Phase(r) = "serving" /\ Phase(r)' = "serving"
    BY <2>1 DEF Phase
  <2>3. {t \in Targets : t >= next[r]} = {}
    BY <1>n, <2>1, TargetsFacts
  <2>4. Candidates(r)' = Candidates(r)
    BY <2>1, <2>2, <2>3 DEF Candidates, Snapshot
  <2> QED BY <1>0, <2>1, <2>2, <2>4, Stutters
<1>5. CASE ScanTarget(r)
  <2>1. /\ at[r] = "scan" /\ at'[r] = "scan" /\ next'[r] = next[r] + 1
        /\ UNCHANGED <<tainted, conn, slice, sources>>
    BY <1>0, <1>5 DEF ScanTarget, TypeOK
  <2>2. Phase(r) = "serving" /\ Phase(r)' = "serving"
    BY <2>1 DEF Phase
  <2>3. next[r] \in Targets /\ slice[r] \in Slices /\ len[r] < next[r] /\ Scanned(r) /\ Increasing(r)
    BY <1>0, <1>n, <1>5, <2>1, TargetsFacts DEF ScanTarget, Snap, Scanned, HoldStates
  <2>4. {t \in Targets : t >= next[r]} = {next[r]} \cup {t \in Targets : t >= next[r] + 1}
    BY <1>n, <2>3, TargetsFacts
  <2>5. /\ Candidates(r) = Snapshot(r, 1) \cup {t \in Targets : t >= next[r]}
        /\ Candidates(r)' = Snapshot(r, 1)' \cup {t \in Targets : t >= next[r] + 1}
    BY <2>1 DEF Candidates
  <2>6. CASE IsHealthy(next[r], conn[r])
    <3>1. /\ backing' = [backing EXCEPT ![slice[r]][len[r] + 1] = next[r]]
          /\ len'[r] = len[r] + 1
      BY <1>0, <1>5, <2>6 DEF ScanTarget, TypeOK
    <3> DEFINE b == backing[slice[r]]
               c == backing'[slice[r]]
    <3>2. len[r] + 1 \in Targets
      BY <1>n, <2>3, TargetsFacts
    <3>3. c[len[r] + 1] = next[r] /\ \A k \in 1..len[r] : c[k] = b[k]
      <4>1. backing \in [Slices -> [Targets -> {0} \cup Targets]]
        BY <1>0 DEF TypeOK
      <4>2. c = [b EXCEPT ![len[r] + 1] = next[r]]
        BY ONLY <2>3, <3>1, <4>1
      <4>3. DOMAIN b = Targets /\ 1..len[r] \subseteq Targets
        BY <1>n, <2>3, <3>2, <4>1, TargetsFacts
      <4> QED BY ONLY <1>n, <3>2, <4>2, <4>3
    <3>4. 1..len'[r] = 1..len[r] \cup {len[r] + 1}
      BY ONLY <1>n, <3>1
    <3>5. Snapshot(r, 1)' = Snapshot(r, 1) \cup {next[r]}
      BY ONLY <2>1, <3>3, <3>4 DEF Snapshot
    <3>6. Candidates(r)' = Candidates(r)
      BY ONLY <2>4, <2>5, <3>5
    <3> QED BY <1>0, <2>1, <2>2, <3>6, Stutters
  <2>7. CASE ~IsHealthy(next[r], conn[r])
    <3>1. UNCHANGED <<backing, len>>
      BY <1>5, <2>7 DEF ScanTarget
    <3>2. Snapshot(r, 1)' = Snapshot(r, 1)
      BY ONLY <2>1, <3>1 DEF Snapshot
    <3>3. next[r] \notin Snapshot(r, 1)
      <4>1. \A k \in 1..len[r] : backing[slice[r]][k] \in Int /\ backing[slice[r]][k] < next[r]
        BY <2>3, TargetsFacts DEF Scanned, Increasing
      <4> QED BY ONLY <1>n, <4>1 DEF Snapshot
    <3>4. next[r] \notin {t \in Targets : t >= next[r] + 1}
      BY ONLY <1>n
    <3> DEFINE t == next[r]
    <3>5. t \in Candidates(r) /\ Candidates(r)' = Candidates(r) \ {t}
      BY ONLY <2>4, <2>5, <3>2, <3>3, <3>4
    <3>6. absUsable' = absUsable
      BY <2>1, UsableSame
    <3>7. t \notin absUsable'[conn[r]]
      BY <1>n, <2>7, <3>6 DEF absUsable, Usable
    <3>8. \A type \in ConnectionTypes : absUsable'[type] \subseteq absUsable[type]
      BY <3>6
    <3> HIDE DEF t
    <3>9. Service!RuleOut(r, t)
      BY <1>0, <2>1, <2>2, <3>5, <3>7, <3>8, RulesOut
    <3>10. t \in Targets
      BY <2>3 DEF t
    <3> QED BY <3>9, <3>10 DEF Service!Step
  <2> QED BY <2>6, <2>7
\* Answers of the gateway.
<1>6. CASE ReadBodyFails(r) \/ NoHealthyProviders(r) \/ AllProvidersFailed(r)
  <2>1. /\ at[r] \in {"readBody", "scan", "try"} /\ at'[r] = "done"
        /\ UNCHANGED <<tainted, conn>>
    BY <1>0, <1>6 DEF ReadBodyFails, NoHealthyProviders, AllProvidersFailed, Return, Release, TypeOK
  <2>2. sources[r] = {}
    BY <1>0, <2>1 DEF Answer, Committed
  <2>3. sources' = [sources EXCEPT ![r] = {0}]
    BY <1>0, <1>6, <2>2
    DEF ReadBodyFails, NoHealthyProviders, AllProvidersFailed, Write, TypeOK
  <2>4. Phase(r) = "serving" /\ Phase(r)' = "over" /\ Candidates(r)' = {}
    BY <2>1 DEF Phase, Candidates
  <2>5. Service!Settle(r, "over", {0})
    BY <1>0, <2>1, <2>3, <2>4, Settles
  <2>6. CASE ReadBodyFails(r)
    <3>1. Candidates(r) = Targets
      BY <2>6 DEF ReadBodyFails, Candidates
    <3>2. absCandidates[r] = Targets
      BY <3>1 DEF absCandidates
    <3>3. Service!Reject(r)
      BY ONLY <2>5, <3>2 DEF Service!Reject, absCandidates
    <3> QED BY <3>3 DEF Service!Step
  <2>7. CASE NoHealthyProviders(r) \/ AllProvidersFailed(r)
    <3>1. Candidates(r) = {}
      <4>1. CASE NoHealthyProviders(r)
        <5>1. at[r] = "scan" /\ len[r] = 0 /\ next[r] > Len(targets)
          BY <4>1 DEF NoHealthyProviders
        <5>2. Snapshot(r, 1) = {}
          BY <5>1 DEF Snapshot
        <5>3. {t \in Targets : t >= next[r]} = {}
          BY <1>n, <5>1, TargetsFacts
        <5> QED BY <5>1, <5>2, <5>3 DEF Candidates
      <4>2. CASE AllProvidersFailed(r)
        <5>1. at[r] = "try" /\ next[r] > len[r]
          BY <4>2 DEF AllProvidersFailed
        <5>2. Snapshot(r, next[r]) = {}
          BY <1>n, <5>1 DEF Snapshot
        <5> QED BY <2>4, <5>1, <5>2 DEF Candidates
      <4> QED BY <2>7, <4>1, <4>2
    <3>2. absCandidates[r] = {}
      BY <3>1 DEF absCandidates
    <3>3. Service!Refuse(r)
      BY ONLY <2>5, <3>2 DEF Service!Refuse, absCandidates
    <3> QED BY <3>3 DEF Service!Step
  <2> QED BY <1>6, <2>6, <2>7
\* Answers of a provider, and the WebSocket requests nobody serves.
<1>7. CASE CopyResponse(r) \/ RedialOk(r) \/ UpgradeFails(r) \/ UpgradeAborts(r)
           \/ RedialFails(r)
  <2>1. at[r] \in {"inflight", "redial", "upgrading"} /\ UNCHANGED <<tainted, conn>>
    BY <1>7 DEF CopyResponse, RedialOk, UpgradeFails, UpgradeAborts, RedialFails, Return, Release
  <2>2. sources[r] = {}
    BY <1>0, <2>1 DEF Answer, Committed
  <2>3. Current(r) \in Targets /\ next[r] \in 1..len[r] /\ at[r] \in HoldStates
    BY <2>1, CurrentIsTarget DEF OnProvider, HoldStates
  <2>4. Phase(r) = "serving"
    BY <2>1 DEF Phase
  <2>5. Candidates(r) = Snapshot(r, next[r])
    BY <2>1, <2>4 DEF Candidates
  <2>6. Current(r) \in absCandidates[r]
    BY <2>3, <2>5, SnapshotTail DEF absCandidates
  <2>7. CASE CopyResponse(r) \/ RedialOk(r)
    <3>1. at'[r] \in {"streaming", "session"} /\ sources' = [sources EXCEPT ![r] = {Current(r)}]
      BY <1>0, <2>2, <2>7 DEF CopyResponse, RedialOk, Write, TypeOK
    <3>2. Phase(r)' = "answered" /\ Candidates(r)' = {}
      BY <3>1 DEF Phase, Candidates
    <3> DEFINE t == Current(r)
    <3>3. sources' = [sources EXCEPT ![r] = {t}] /\ t \in Targets /\ t \in absCandidates[r]
      BY <2>3, <2>6, <3>1
    <3> HIDE DEF t
    <3>4. Service!Settle(r, "answered", {t})
      BY <1>0, <2>1, <2>4, <3>2, <3>3, Settles
    <3>5. Service!Answer(r, t)
      BY ONLY <3>3, <3>4 DEF Service!Answer, absCandidates
    <3> QED BY <3>3, <3>5 DEF Service!Step
  <2>8. CASE UpgradeFails(r) \/ UpgradeAborts(r) \/ RedialFails(r)
    <3>1. at'[r] \in {"done", "closed"} /\ sources' = sources
      BY <1>0, <2>8 DEF UpgradeFails, UpgradeAborts, RedialFails, Return, TypeOK
    <3>2. Phase(r)' = "over" /\ Candidates(r)' = {}
      BY <3>1 DEF Phase, Candidates
    <3>3. sources' = [sources EXCEPT ![r] = {}]
      BY <1>0, <2>2, <3>1 DEF TypeOK
    <3>4. Service!Settle(r, "over", {})
      BY <1>0, <2>1, <2>4, <3>2, <3>3, Settles
    <3>5. Service!Abandon(r)
      BY ONLY <2>6, <3>4 DEF Service!Abandon, absCandidates
    <3> QED BY <3>5 DEF Service!Step
  <2> QED BY <1>7, <2>7, <2>8
\* The answer is complete.
<1>8. CASE StreamDone(r) \/ ClientDisconnects(r) \/ ResetTakenForDisconnect(r)
           \/ SessionEnds(r) \/ (ProviderFails(r) /\ statusSet[r])
  <2>1. /\ at[r] \in {"streaming", "reset", "session"} /\ at'[r] = "done"
        /\ UNCHANGED <<conn, sources>>
    BY <1>0, <1>8
    DEF StreamDone, ClientDisconnects, ResetTakenForDisconnect, SessionEnds, ProviderFails, Return,
        Release, TypeOK, Answer, Committed
  <2>2. /\ Phase(r) = "answered" /\ Phase(r)' = "over"
        /\ Candidates(r)' = Candidates(r)
    BY <2>1 DEF Phase, Candidates
  <2>3. UNCHANGED tainted \/ TaintCurrent(r)
    BY <1>8
    DEF StreamDone, ClientDisconnects, ResetTakenForDisconnect, SessionEnds, ProviderFails
  <2>4. \A type \in ConnectionTypes : absUsable'[type] \subseteq absUsable[type]
    BY <1>0, <2>3, UsableSame, UsableTainted
  <2>5. Service!Finish(r)
    BY <1>0, <2>1, <2>2, <2>4, Finishes
  <2> QED BY <2>5 DEF Service!Step
\* The loop goes on.
<1>9. CASE \/ ProviderFails(r) /\ ~statusSet[r]
           \/ DialFails(r) /\ tainted[CurrentChecker(r)]
           \/ TaintDone(r) \/ SkipTarget(r)
  <2>1. /\ at'[r] = "try" /\ next'[r] = next[r] + 1
        /\ UNCHANGED <<conn, slice, len, backing, sources>>
    BY <1>0, <1>9 DEF ProviderFails, DialFails, TaintDone, SkipTarget, TypeOK
  <2>2. at[r] \in LoopStates
    BY <1>0, <1>9 DEF ProviderFails, DialFails, TaintDone, SkipTarget, LoopStates, Answer
  <2>3. Current(r) \in Targets /\ next[r] \in 1..len[r]
    <3>1. at[r] \in OnProvider \/ (at[r] = "try" /\ next[r] <= len[r])
      BY <1>9, <2>2
      DEF ProviderFails, DialFails, TaintDone, SkipTarget, LoopStates, OnProvider, HoldStates
    <3> QED BY <3>1, CurrentIsTarget
  <2>4. /\ \A type \in ConnectionTypes : absUsable'[type] \subseteq absUsable[type]
        /\ Current(r) \notin absUsable'[conn[r]]
    <3>1. CASE ProviderFails(r) \/ TaintDone(r)
      <4>1. TaintCurrent(r)
        BY <3>1 DEF ProviderFails, TaintDone
      <4> QED BY <1>0, <4>1, UsableTainted
    <3>2. CASE DialFails(r) /\ tainted[CurrentChecker(r)]
      <4>1. absUsable' = absUsable
        BY <3>2, UsableSame DEF DialFails
      <4>2. ~IsHealthy(Current(r), conn[r])
        BY <3>2 DEF IsHealthy, CurrentChecker
      <4> QED BY <1>n, <4>1, <4>2 DEF absUsable, Usable
    <3>3. CASE SkipTarget(r)
      <4>1. absUsable' = absUsable
        BY <3>3, UsableSame DEF SkipTarget
      <4>2. ~Configured(Current(r), conn[r])
        BY <3>3 DEF SkipTarget, Configured
      <4> QED BY <1>n, <4>1, <4>2 DEF absUsable, Usable
    <3> QED BY <1>9, <3>1, <3>2, <3>3
  <2>5. Service!RuleOut(r, Current(r))
    BY <1>0, <2>1, <2>2, <2>3, <2>4, Advances
  <2> QED BY <2>3, <2>5 DEF Service!Step
<1>10. CASE NextRequest(r)
  <2>1. /\ at[r] \in {"done", "closed"} /\ at'[r] = "new" /\ sources' = [sources EXCEPT ![r] = {}]
        /\ UNCHANGED <<tainted, conn>>
    BY <1>0, <1>10 DEF NextRequest, TypeOK
  <2>2. /\ Phase(r) = "over" /\ Phase(r)' = "idle"
        /\ Candidates(r)' = Candidates(r)
    BY <2>1 DEF Phase, Candidates
  <2>3. /\ absPhase[r] = "over" /\ absPhase' = [absPhase EXCEPT ![r] = "idle"]
        /\ absCandidates' = absCandidates /\ absUsable' = absUsable
    BY <1>0, <2>1, <2>2, AbstractExcept, UsableSame DEF absPhase, absCandidates
  <2>4. Service!Reset(r)
    BY ONLY <2>1, <2>3 DEF Service!Reset, absPhase, absCandidates, absUsable
  <2> QED BY <2>4 DEF Service!Step
<1>11. CASE DialFails(r)
  BY ONLY <1>2, <1>9, <1>11
<1>12. CASE ProviderFails(r)
  BY ONLY <1>8, <1>9, <1>12
<1> QED
  BY ONLY Handles(r), <1>1, <1>2, <1>3, <1>4, <1>5, <1>6, <1>7, <1>8, <1>9, <1>10, <1>11, <1>12,
     <1>13
  DEF Handles, ServeStep

LEMMA RefineStep == SnapInv /\ [Next]_vars => [Service!Next]_(Service!vars)
<1> SUFFICES ASSUME SnapInv, [Next]_vars PROVE [Service!Next]_(Service!vars)
  OBVIOUS
<1>1. ASSUME NEW r \in Requests, Handles(r) PROVE [Service!Next]_(Service!vars)
  BY <1>1, ServeRefines DEF Service!Next
<1>2. ASSUME UNCHANGED <<at, conn, slice, len, next, backing, sources>>
      PROVE  /\ absPhase' = absPhase /\ absCandidates' = absCandidates
  BY <1>2 DEF absPhase, absCandidates, Phase, Candidates, Snapshot
<1>3. ASSUME NEW k \in Checkers, HealthChange(k) PROVE Service!HealthChange
  <2>1. UNCHANGED <<at, conn, slice, len, next, backing, sources>>
    BY <1>3 DEF HealthChange, position, slices, response
  <2>2. absUsable' \in [ConnectionTypes -> SUBSET Targets]
    BY DEF absUsable, Usable
  <2>3. absPhase' = absPhase /\ absCandidates' = absCandidates
    BY <1>2, <2>1
  <2> QED BY ONLY <2>1, <2>2, <2>3 DEF Service!HealthChange, absPhase, absCandidates, absUsable
<1>4. CASE UNCHANGED vars
  <2>1. UNCHANGED <<tainted, at, conn, slice, len, next, backing, sources>>
    BY <1>4 DEF vars, position, slices, response
  <2>2. absPhase' = absPhase /\ absCandidates' = absCandidates /\ absUsable' = absUsable
    BY <1>2, <2>1, UsableSame
  <2>3. UNCHANGED Service!vars
    BY ONLY <2>1, <2>2 DEF Service!vars, absPhase, absCandidates, absUsable
  <2> QED BY <2>3
<1> QED BY <1>1, <1>3, <1>4 DEF Next, Handles, Service!Next

(***************************************************************************)
(* ServeHTTP implements RequestService: a request is refused only when     *)
(* every provider was unusable when it was looked at, or has failed it.    *)
(***************************************************************************)
THEOREM ProxyServesRequests == Spec => ServesRequests
BY RefineInit, RefineStep, SnapInit, SnapInvStep, PTL DEF Spec, ServesRequests, Service!Spec

-----------------------------------------------------------------------------
(* The slice of a request between Get and Put *)

Kept(q) ==
  Holding(q) /\ slice'[q] = slice[q] =>
    \A k \in 1..len[q] : backing'[slice[q]][k] = backing[slice[q]][k]

\* The handler of r adds to its own slice, behind what is there.
LEMMA OwnSliceKept ==
  ASSUME SnapInv, NEW r \in Requests, Handles(r)
  PROVE  Kept(r)
<1> USE DEF Kept, slices, Return, Release
<1>1. CASE ScanTarget(r)
  <2>1. slice[r] \in Slices /\ len[r] \in Nat
    BY <1>1 DEF ScanTarget, SnapInv, Snap, HoldStates, TypeOK
  <2>2. backing \in [Slices -> [Targets -> {0} \cup Targets]]
    BY DEF SnapInv, TypeOK
  <2>3. \/ backing' = backing
        \/ backing' = [backing EXCEPT ![slice[r]][len[r] + 1] = next[r]]
    BY <1>1 DEF ScanTarget
  <2>4. \A k \in 1..len[r] : k # len[r] + 1
    BY <2>1
  <2>5. ASSUME NEW k \in 1..len[r] PROVE backing'[slice[r]][k] = backing[slice[r]][k]
    <3> DEFINE m == len[r] + 1
    <3>1. k # m
      BY <2>4
    <3>2. CASE backing' = backing
      BY <3>2
    <3>3. CASE backing' = [backing EXCEPT ![slice[r]][m] = next[r]]
      <4> HIDE DEF m
      <4>1. backing'[slice[r]] = [backing[slice[r]] EXCEPT ![m] = next[r]]
        BY ONLY <2>1, <2>2, <3>3
      <4>2. backing[slice[r]] = [t \in Targets |-> backing[slice[r]][t]]
        BY ONLY <2>1, <2>2
      <4>3. k \in Targets
        BY TargetsFacts DEF SnapInv, TypeOK
      <4> QED BY ONLY <3>1, <4>1, <4>2, <4>3
    <3> QED BY <2>3, <3>2, <3>3
  <2> QED BY <2>5
<1>2. CASE (\E type \in ConnectionTypes : Arrive(r, type)) \/ NextRequest(r)
  BY <1>2 DEF Arrive, NextRequest
<1>3. CASE ReadBodyOk(r) \/ ReadBodyFails(r) \/ GetSlice(r) \/ NoHealthyProviders(r)
           \/ StartFailover(r) \/ AllProvidersFailed(r)
  BY <1>3
  DEF ReadBodyOk, ReadBodyFails, GetSlice, NoHealthyProviders, StartFailover, AllProvidersFailed
<1>4. CASE Forward(r) \/ ProviderFails(r) \/ CopyResponse(r) \/ StreamDone(r)
           \/ ClientDisconnects(r) \/ ProviderResets(r) \/ ResetTakenForDisconnect(r)
           \/ SessionEnds(r)
  BY <1>4
  DEF Forward, ProviderFails, CopyResponse, StreamDone, ClientDisconnects, ProviderResets,
      ResetTakenForDisconnect, SessionEnds
<1>5. CASE SkipTarget(r) \/ Dial(r) \/ DialFails(r) \/ DialOk(r) \/ TaintDone(r)
  BY <1>5 DEF SkipTarget, Dial, DialFails, DialOk, TaintDone
<1>6. CASE UpgradeFails(r) \/ UpgradeAborts(r) \/ UpgradeOk(r)
           \/ RedialFails(r) \/ RedialOk(r)
  BY <1>6 DEF UpgradeFails, UpgradeAborts, UpgradeOk, RedialFails, RedialOk
<1> QED BY <1>1, <1>2, <1>3, <1>4, <1>5, <1>6 DEF Handles, ServeStep

LEMMA SliceKept ==
  ASSUME SnapInv, [Next]_vars, NEW q \in Requests
  PROVE  Kept(q)
<1>1. ASSUME NEW r \in Requests, Handles(r) PROVE Kept(q)
  <2>1. CASE q = r
    BY <1>1, <2>1, OwnSliceKept
  <2>2. CASE q # r
    <3> SUFFICES ASSUME Holding(q)
                 PROVE  backing'[slice[q]] = backing[slice[q]]
      BY DEF Kept
    <3>1. slice[q] \in Slices
      BY DEF SnapInv, TypeOK, Holding
    <3>2. slice[q] # slice[r]
      BY <2>2 DEF SnapInv, SliceInv, SliceExclusive
    <3> QED BY <1>1, <3>1, <3>2, StepApart DEF Apart
  <2> QED BY <2>1, <2>2
<1>2. ASSUME UNCHANGED backing PROVE Kept(q)
  BY <1>2 DEF Kept
<1>3. ASSUME NEW k \in Checkers, HealthChange(k) PROVE Kept(q)
  BY <1>2, <1>3 DEF HealthChange, slices
<1>4. CASE UNCHANGED vars
  BY <1>2, <1>4 DEF vars, slices
<1> QED BY <1>1, <1>3, <1>4 DEF Next, Handles

(***************************************************************************)
(* What a request has recorded in a pooled slice stays as it is until the  *)
(* request puts the slice back, for any number of requests and slices.     *)
(***************************************************************************)
THEOREM SnapshotIsStable == Spec => SnapshotStable
<1>1. SnapInv /\ [Next]_vars => [\A r \in Requests : Kept(r)]_vars
  BY SliceKept
<1> QED BY <1>1, SnapInit, SnapInvStep, PTL DEF Spec, SnapshotStable, Kept
====
