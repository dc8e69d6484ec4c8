------------------------- MODULE ProxySnapshotProofs -------------------------
(***************************************************************************)
(* The snapshot of healthy providers a request fails over along, and that  *)
(* Proxy implements RequestService, for any number of requests, slices and *)
(* providers.                                                              *)
(***************************************************************************)
EXTENDS ProxyProofs

-----------------------------------------------------------------------------
(***************************************************************************)
(* A request holds a slice from Get to Put.  What it has put in is a       *)
(* strictly increasing sequence of targets, and what the loop has passed   *)
(* of it is what failed.                                                   *)
(***************************************************************************)
HoldStates ==
  {"scan", "try", "inflight", "streaming", "reset", "dialing", "tainting", "upgrading",
   "redial", "session"}

OnProvider == HoldStates \ {"scan", "try"}

LoopStates == {"try", "inflight", "dialing", "tainting"}

Increasing(r) ==
  \A k \in 1..len[r] :
    /\ backing[slice[r]][k] \in Targets
    /\ \A j \in 1..(k - 1) : backing[slice[r]][j] < backing[slice[r]][k]

Scanned(r) ==
  /\ len[r] < next[r]
  /\ \A k \in 1..len[r] : backing[slice[r]][k] < next[r]

Snap(r) ==
  /\ at[r] \in HoldStates => slice[r] \in Slices
  /\ at[r] \notin HoldStates => slice[r] = NoSlice
  /\ at[r] \in {"new", "readBody", "get", "scan"} => failed[r] = {}
  /\ at[r] \in HoldStates => Increasing(r)
  /\ at[r] = "scan" => Scanned(r)
  /\ at[r] \in OnProvider => next[r] <= len[r]
  /\ at[r] \in LoopStates =>
       /\ next[r] <= len[r] + 1
       /\ failed[r] = {backing[slice[r]][k] : k \in 1..(next[r] - 1)}

SnapInv == TypeOK /\ SliceInv /\ AnswerInv /\ \A r \in Requests : Snap(r)

LEMMA TargetsFacts ==
  /\ Len(targets) \in Nat
  /\ Targets = 1..Len(targets)
BY TargetsAssumption DEF Targets

LEMMA SnapInit == Init => SnapInv
<1> SUFFICES ASSUME Init PROVE SnapInv
  OBVIOUS
<1>1. TypeOK
  BY TargetsFacts DEF Init, TypeOK, States, ConnectionTypes
<1>2. SliceInv
  BY DEF Init, SliceInv, SliceExclusive, Holding
<1>3. \A r \in Requests : Snap(r)
  BY DEF Init, Snap, HoldStates, OnProvider, LoopStates
<1> QED BY <1>1, <1>2, <1>3, InitAnswer DEF SnapInv

\* The provider a request is at is one of the targets.
LEMMA CurrentIsTarget ==
  ASSUME SnapInv, NEW r \in Requests, at[r] \in OnProvider \/ (at[r] = "try" /\ next[r] <= len[r])
  PROVE  Current(r) \in Targets /\ slice[r] \in Slices /\ next[r] \in 1..len[r]
<1>1. at[r] \in HoldStates /\ next[r] <= len[r]
  BY DEF SnapInv, Snap, OnProvider, HoldStates
<1>2. next[r] \in 1..len[r]
  BY <1>1 DEF SnapInv, TypeOK
<1> QED BY <1>1, <1>2 DEF SnapInv, Snap, Increasing, Current

-----------------------------------------------------------------------------
(* Types *)

LEMMA WriteTypes ==
  ASSUME TypeOK, NEW r \in Requests, NEW code \in {101, 200, 400, 503},
         NEW source \in {0} \cup Targets, Write(r, code, source)
  PROVE  /\ statusSet' \in [Requests -> BOOLEAN]
         /\ statuses' \in [Requests -> Seq({101, 200, 400, 503})]
         /\ sources' \in [Requests -> SUBSET ({0} \cup Targets)]
BY DEF TypeOK, Write

LEMMA ReleaseTypes ==
  ASSUME TypeOK, NEW r \in Requests, Release(r)
  PROVE  /\ slice' \in [Requests -> Slices \cup {NoSlice}]
         /\ pool' \subseteq Slices
         /\ UNCHANGED <<conn, len, next, backing, allocated>>
BY DEF TypeOK, Release

LEMMA ReturnTypes ==
  ASSUME TypeOK, NEW r \in Requests, Return(r)
  PROVE  /\ at' \in [Requests -> States]
         /\ slice' \in [Requests -> Slices \cup {NoSlice}]
         /\ pool' \subseteq Slices
         /\ UNCHANGED <<conn, len, next, backing, allocated>>
BY ReleaseTypes DEF TypeOK, Return, Goto, States

LEMMA TaintTypes ==
  ASSUME TypeOK, NEW r \in Requests, TaintCurrent(r), Current(r) \in Targets
  PROVE  /\ tainted' \in [Checkers -> BOOLEAN]
         /\ failed' \in [Requests -> SUBSET Targets]
BY ZenonT(60) DEF TypeOK, TaintCurrent

LEMMA TypeStep == SnapInv /\ [Next]_vars => TypeOK'
<1> SUFFICES ASSUME SnapInv, [Next]_vars PROVE TypeOK'
  OBVIOUS
<1>0. TypeOK
  BY DEF SnapInv
<1> USE <1>0 DEF position, slices, response
<1>1. ASSUME NEW r \in Requests, NEW type \in ConnectionTypes, Arrive(r, type) PROVE TypeOK'
  BY <1>1 DEF Arrive, TypeOK, Goto, States
<1>2. ASSUME NEW r \in Requests,
             ReadBodyOk(r) \/ Forward(r) \/ Dial(r) \/ DialOk(r)
      PROVE  TypeOK'
  <2>1. PICK a \in States : at' = [at EXCEPT ![r] = a]
    BY <1>2 DEF ReadBodyOk, Forward, Dial, DialOk, Goto, States
  <2>2. UNCHANGED <<tainted, conn, slice, len, next, backing, pool, allocated, statusSet,
                    statuses, sources, failed>>
    BY <1>2 DEF ReadBodyOk, Forward, Dial, DialOk
  <2> QED BY <2>1, <2>2 DEF TypeOK
<1>16. ASSUME NEW r \in Requests, NextRequest(r) PROVE TypeOK'
  BY <1>16 DEF NextRequest, TypeOK, Goto, States
<1>3. ASSUME NEW r \in Requests,
             ReadBodyFails(r) \/ NoHealthyProviders(r) \/ AllProvidersFailed(r)
      PROVE  TypeOK'
  <2>1. Return(r) /\ UNCHANGED <<tainted, failed>>
    BY <1>3 DEF ReadBodyFails, NoHealthyProviders, AllProvidersFailed
  <2>2. PICK code \in {400, 503} : Write(r, code, 0)
    BY <1>3 DEF ReadBodyFails, NoHealthyProviders, AllProvidersFailed
  <2> QED BY SMTT(30), <2>1, <2>2, WriteTypes, ReturnTypes DEF TypeOK
<1>4. ASSUME NEW r \in Requests, GetSlice(r) PROVE TypeOK'
  BY <1>4, TargetsFacts DEF GetSlice, TypeOK, Goto, States
<1>5. ASSUME NEW r \in Requests, ScanTarget(r) PROVE TypeOK'
  <2>1. /\ len[r] \in Nat /\ next[r] \in Nat /\ next[r] \in Targets /\ len[r] < next[r]
        /\ slice[r] \in Slices
    BY <1>5, TargetsFacts DEF ScanTarget, TypeOK, SnapInv, Snap, Scanned, HoldStates
  <2>2. len[r] + 1 \in Targets
    BY <2>1, TargetsFacts
  <2>3. /\ backing' \in [Slices -> [Targets -> {0} \cup Targets]]
        /\ len' \in [Requests -> 0..Len(targets)]
    <3>0. /\ backing \in [Slices -> [Targets -> {0} \cup Targets]]
          /\ len \in [Requests -> 0..Len(targets)]
      BY DEF TypeOK
    <3>1. CASE UNCHANGED <<backing, len>>
      BY <3>0, <3>1
    <3>2. CASE /\ backing' = [backing EXCEPT ![slice[r]][len[r] + 1] = next[r]]
               /\ len' = [len EXCEPT ![r] = len[r] + 1]
      <4>1. [backing[slice[r]] EXCEPT ![len[r] + 1] = next[r]] \in [Targets -> {0} \cup Targets]
        BY <2>1, <2>2, <3>0
      <4>2. backing' \in [Slices -> [Targets -> {0} \cup Targets]]
        BY ONLY <2>1, <3>0, <3>2, <4>1
      <4>3. len[r] + 1 \in 0..Len(targets)
        BY <2>2, TargetsFacts
      <4>4. len' \in [Requests -> 0..Len(targets)]
        BY ONLY <3>0, <3>2, <4>3
      <4> QED BY <4>2, <4>4
    <3> QED BY <1>5, <3>1, <3>2 DEF ScanTarget
  <2>4. next' \in [Requests -> 1..(Len(targets) + 1)]
    <3>1. next[r] + 1 \in 1..(Len(targets) + 1)
      BY <2>1, TargetsFacts
    <3> QED BY <1>5, <3>1 DEF ScanTarget, TypeOK
  <2> QED BY <1>5, <2>3, <2>4 DEF ScanTarget, TypeOK
<1>6. ASSUME NEW r \in Requests, StartFailover(r) PROVE TypeOK'
  BY <1>6, TargetsFacts DEF StartFailover, TypeOK, Goto, States
<1>7. ASSUME NEW r \in Requests, ProviderFails(r) PROVE TypeOK'
  <2>1. Current(r) \in Targets /\ next[r] \in 1..len[r]
    BY <1>7, CurrentIsTarget DEF ProviderFails, OnProvider, HoldStates
  <2>2. TaintCurrent(r)
    BY <1>7 DEF ProviderFails
  <2>3. CASE statusSet[r]
    BY <1>7, <2>1, <2>2, <2>3, TaintTypes, ReturnTypes DEF ProviderFails, TypeOK
  <2>4. CASE ~statusSet[r]
    <3>1. next[r] + 1 \in 1..(Len(targets) + 1)
      BY <2>1, TargetsFacts DEF TypeOK
    <3>2. /\ next' = [next EXCEPT ![r] = next[r] + 1]
          /\ at' = [at EXCEPT ![r] = "try"]
          /\ UNCHANGED <<conn, slice, len, backing, pool, allocated, statusSet, statuses,
                         sources>>
      BY <1>7, <2>4 DEF ProviderFails, Goto
    <3> QED BY <2>1, <2>2, <3>1, <3>2, TaintTypes DEF TypeOK, States
  <2> QED BY <2>3, <2>4
<1>8. ASSUME NEW r \in Requests, CopyResponse(r) PROVE TypeOK'
  <2>1. Current(r) \in Targets
    BY <1>8, CurrentIsTarget DEF CopyResponse, OnProvider, HoldStates
  <2>2. Write(r, 200, Current(r))
    BY <1>8 DEF CopyResponse
  <2>3. /\ at' = [at EXCEPT ![r] = "streaming"]
        /\ UNCHANGED <<tainted, conn, slice, len, next, backing, pool, allocated, failed>>
    BY <1>8 DEF CopyResponse, Goto
  <2>4. /\ statusSet' \in [Requests -> BOOLEAN]
        /\ statuses' \in [Requests -> Seq({101, 200, 400, 503})]
        /\ sources' \in [Requests -> SUBSET ({0} \cup Targets)]
    <3> DEFINE code == 200
               source == Current(r)
    <3>1. code \in {101, 200, 400, 503} /\ source \in {0} \cup Targets
          /\ Write(r, code, source)
      BY <2>1, <2>2
    <3> HIDE DEF code, source
    <3> QED BY <3>1, WriteTypes
  <2> QED BY <2>3, <2>4 DEF TypeOK, States
<1>9. ASSUME NEW r \in Requests,
             \/ StreamDone(r) \/ ClientDisconnects(r) \/ ResetTakenForDisconnect(r)
             \/ RedialFails(r) \/ SessionEnds(r)
      PROVE  TypeOK'
  <2>1. Return(r) /\ UNCHANGED <<tainted, statusSet, statuses, sources, failed>>
    BY <1>9
    DEF StreamDone, ClientDisconnects, ResetTakenForDisconnect, RedialFails, SessionEnds
  <2> QED BY <2>1, ReturnTypes DEF TypeOK
<1>10. ASSUME NEW r \in Requests, SkipTarget(r) PROVE TypeOK'
  <2>1. Current(r) \in Targets /\ next[r] \in 1..len[r]
    BY <1>10, CurrentIsTarget DEF SkipTarget
  <2>2. next' \in [Requests -> 1..(Len(targets) + 1)]
    <3>1. next[r] + 1 \in 1..(Len(targets) + 1)
      BY <2>1, TargetsFacts DEF TypeOK
    <3> QED BY <1>10, <3>1 DEF SkipTarget, TypeOK
  <2> QED BY <1>10, <2>1, <2>2 DEF SkipTarget, TypeOK
<1>11. ASSUME NEW r \in Requests, DialFails(r) \/ TaintDone(r) PROVE TypeOK'
  <2>1. Current(r) \in Targets /\ next[r] \in 1..len[r]
    BY <1>11, CurrentIsTarget DEF DialFails, TaintDone, OnProvider, HoldStates
  <2>2. next[r] + 1 \in 1..(Len(targets) + 1)
    BY <2>1, TargetsFacts DEF TypeOK
  <2>3. UNCHANGED <<conn, slice, len, backing, pool, allocated, statusSet, statuses, sources>>
    BY <1>11 DEF DialFails, TaintDone
  <2>4. \/ next' = next
        \/ next' = [next EXCEPT ![r] = next[r] + 1]
    BY <1>11 DEF DialFails, TaintDone
  <2>5. PICK a \in States : at' = [at EXCEPT ![r] = a]
    BY <1>11 DEF DialFails, TaintDone, Goto, States
  <2>6. \/ UNCHANGED tainted
        \/ TaintCurrent(r)
    BY <1>11 DEF DialFails, TaintDone
  <2>7. \/ UNCHANGED failed
        \/ failed' = [failed EXCEPT ![r] = failed[r] \cup {Current(r)}]
    BY <1>11 DEF DialFails, TaintDone, TaintCurrent
  <2>8. tainted' \in [Checkers -> BOOLEAN]
    BY <2>1, <2>6, TaintTypes DEF TypeOK
  <2>9. failed' \in [Requests -> SUBSET Targets]
    <3>1. failed \in [Requests -> SUBSET Targets]
      BY DEF TypeOK
    <3> QED BY ONLY <2>1, <2>7, <3>1
  <2>10. next' \in [Requests -> 1..(Len(targets) + 1)] /\ at' \in [Requests -> States]
    <3>1. next \in [Requests -> 1..(Len(targets) + 1)] /\ at \in [Requests -> States]
      BY DEF TypeOK
    <3> QED BY ONLY <2>2, <2>4, <2>5, <3>1
  <2> QED BY <2>3, <2>8, <2>9, <2>10 DEF TypeOK
<1>12. ASSUME NEW r \in Requests, UpgradeFails(r) \/ UpgradeOk(r) PROVE TypeOK'
  <2>1. statuses' \in [Requests -> Seq({101, 200, 400, 503})]
    <3>1. statuses \in [Requests -> Seq({101, 200, 400, 503})]
      BY DEF TypeOK
    <3>2. PICK code \in {101, 400} : statuses' = [statuses EXCEPT ![r] = Append(statuses[r], code)]
      BY <1>12 DEF UpgradeFails, UpgradeOk
    <3>3. Append(statuses[r], code) \in Seq({101, 200, 400, 503})
      BY <3>1
    <3> QED BY ONLY <3>1, <3>2, <3>3
  <2>2. CASE UpgradeFails(r)
    BY <2>1, <2>2, ReturnTypes DEF UpgradeFails, TypeOK
  <2>3. CASE UpgradeOk(r)
    BY <2>1, <2>3 DEF UpgradeOk, TypeOK, Goto, States
  <2> QED BY <1>12, <2>2, <2>3
<1>13. ASSUME NEW r \in Requests, RedialOk(r) PROVE TypeOK'
  <2>1. Current(r) \in Targets
    BY <1>13, CurrentIsTarget DEF RedialOk, OnProvider, HoldStates
  <2> QED BY <1>13, <2>1 DEF RedialOk, TypeOK, Goto, States
<1>17. ASSUME NEW r \in Requests, ProviderResets(r) PROVE TypeOK'
  BY <1>17 DEF ProviderResets, TypeOK, Goto, States
<1>18. ASSUME NEW r \in Requests, UpgradeAborts(r) PROVE TypeOK'
  <2>1. UNCHANGED <<tainted, statusSet, statuses, sources, failed>>
    BY <1>18 DEF UpgradeAborts
  <2>2. at' \in [Requests -> States]
    BY <1>18 DEF UpgradeAborts, TypeOK, Goto, States
  <2> QED BY <1>18, <2>1, <2>2, ReleaseTypes DEF UpgradeAborts, TypeOK
<1>14. ASSUME NEW k \in Checkers, HealthChange(k) PROVE TypeOK'
  BY <1>14 DEF HealthChange, TypeOK
<1>15. CASE UNCHANGED vars
  BY <1>15 DEF vars, TypeOK
<1> QED
  BY <1>1, <1>2, <1>3, <1>4, <1>5, <1>6, <1>7, <1>8, <1>9, <1>10, <1>11, <1>12, <1>13, <1>14,
     <1>15, <1>16, <1>17, <1>18
  DEF Next, ServeStep

-----------------------------------------------------------------------------
(* The snapshot *)

\* A step of request r keeps away from the slices and the state of the others.
Apart(r) ==
  /\ \A q \in Requests \ {r} :
       /\ at'[q] = at[q] /\ slice'[q] = slice[q] /\ len'[q] = len[q] /\ next'[q] = next[q]
       /\ failed'[q] = failed[q]
  /\ \A s \in Slices : s # slice[r] => backing'[s] = backing[s]

LEMMA OneSnapStep ==
  ASSUME SnapInv, NEW r \in Requests, Apart(r), Snap(r)'
  PROVE  \A q \in Requests : Snap(q)'
<1> SUFFICES ASSUME NEW q \in Requests, q # r PROVE Snap(q)'
  OBVIOUS
<1>1. Snap(q)
  BY DEF SnapInv
<1>2. /\ at'[q] = at[q] /\ slice'[q] = slice[q] /\ len'[q] = len[q] /\ next'[q] = next[q]
      /\ failed'[q] = failed[q]
  BY DEF Apart
<1>3. CASE at[q] \notin HoldStates
  BY <1>1, <1>2, <1>3 DEF Snap, HoldStates, OnProvider, LoopStates
<1>4. CASE at[q] \in HoldStates
  <2>1. slice[q] \in Slices
    BY <1>1, <1>4 DEF Snap
  <2>2. slice[q] # slice[r]
    BY <2>1, SlicesAssumption DEF SnapInv, SliceInv, SliceExclusive, Holding
  <2>3. backing'[slice'[q]] = backing[slice[q]]
    BY <1>2, <2>1, <2>2 DEF Apart
  <2> QED BY ONLY <1>1, <1>2, <2>3 DEF Snap, Increasing, Scanned
<1> QED BY <1>3, <1>4

\* A step that only moves request r within the states of a snapshot in use.
LEMMA MoveSnap ==
  ASSUME SnapInv, NEW r \in Requests, NEW a, at' = [at EXCEPT ![r] = a],
         UNCHANGED <<slice, len, next, backing, failed>>,
         \/ at[r] \in {"new", "readBody"} /\ a \in {"readBody", "get"}
         \/ at[r] = "try" /\ next[r] <= len[r] /\ a \in {"inflight", "dialing"}
         \/ at[r] = "dialing" /\ a = "tainting"
         \/ at[r] \in OnProvider /\ a \in OnProvider \ LoopStates
  PROVE  \A q \in Requests : Snap(q)'
<1>1. at'[r] = a /\ Snap(r)
  BY DEF SnapInv, TypeOK
<1>2. Apart(r)
  BY DEF Apart, SnapInv, TypeOK
<1>3. Increasing(r)' = Increasing(r)
  BY DEF Increasing
<1>4. Snap(r)'
  BY <1>1, <1>3 DEF Snap, HoldStates, OnProvider, LoopStates
<1> QED BY <1>2, <1>4, OneSnapStep

\* The slice is put back.
LEMMA ReleaseSnap ==
  ASSUME SnapInv, NEW r \in Requests, Release(r),
         NEW a \in {"done", "closed"}, at' = [at EXCEPT ![r] = a],
         \A q \in Requests \ {r} : failed'[q] = failed[q]
  PROVE  \A q \in Requests : Snap(q)'
<1>1. /\ slice' = [slice EXCEPT ![r] = NoSlice]
      /\ UNCHANGED <<len, next, backing>>
  BY DEF Release
<1>2. at'[r] = a /\ slice'[r] = NoSlice
  BY <1>1 DEF SnapInv, TypeOK
<1>3. Apart(r)
  BY <1>1 DEF Apart, SnapInv, TypeOK
<1>4. Snap(r)'
  BY <1>2 DEF Snap, HoldStates, OnProvider, LoopStates
<1> QED BY <1>3, <1>4, OneSnapStep

\* The loop goes on to the next provider.
LEMMA AdvanceSnap ==
  ASSUME SnapInv, NEW r \in Requests, at[r] \in LoopStates, next[r] <= len[r],
         at' = [at EXCEPT ![r] = "try"],
         next' = [next EXCEPT ![r] = @ + 1],
         failed' = [failed EXCEPT ![r] = @ \cup {Current(r)}],
         UNCHANGED <<slice, len, backing>>
  PROVE  \A q \in Requests : Snap(q)'
<1>1. /\ at'[r] = "try" /\ next'[r] = next[r] + 1 /\ failed'[r] = failed[r] \cup {Current(r)}
      /\ next[r] \in Nat /\ next[r] >= 1 /\ len[r] \in Nat
  BY TargetsFacts DEF SnapInv, TypeOK
<1>2. Apart(r)
  BY DEF Apart, SnapInv, TypeOK
<1>3. Snap(r) /\ at[r] \in HoldStates
  BY DEF SnapInv, LoopStates, HoldStates
<1>4. Increasing(r)' = Increasing(r)
  BY DEF Increasing
<1>5. failed'[r] = {backing'[slice'[r]][k] : k \in 1..(next'[r] - 1)}
  <2>1. 1..(next'[r] - 1) = 1..(next[r] - 1) \cup {next[r]}
    BY <1>1
  <2>2. failed[r] = {backing[slice[r]][k] : k \in 1..(next[r] - 1)}
    BY <1>3 DEF Snap
  <2> QED BY ONLY <1>1, <2>1, <2>2, UNCHANGED <<slice, backing>> DEF Current
<1>6. Snap(r)'
  BY <1>1, <1>3, <1>4, <1>5 DEF Snap, HoldStates, OnProvider, LoopStates
<1> QED BY <1>2, <1>6, OneSnapStep

LEMMA ScanSnap ==
  ASSUME SnapInv, NEW r \in Requests, ScanTarget(r)
  PROVE  \A q \in Requests : Snap(q)'
<1>1. /\ at[r] = "scan" /\ Snap(r)
      /\ next[r] \in Nat /\ len[r] \in Nat /\ len[r] < next[r] /\ next[r] \in Targets
      /\ slice[r] \in Slices
  BY TargetsFacts DEF SnapInv, TypeOK, ScanTarget, Snap, Scanned, HoldStates
<1>2. next'[r] = next[r] + 1 /\ UNCHANGED <<at, slice, failed>>
  BY DEF ScanTarget, SnapInv, TypeOK
<1>3. Increasing(r) /\ Scanned(r)
  BY <1>1 DEF Snap, HoldStates
<1>4. CASE UNCHANGED <<backing, len>>
  <2>1. Apart(r)
    BY <1>4 DEF Apart, ScanTarget, SnapInv, TypeOK
  <2>2. Increasing(r)'
    BY ONLY <1>2, <1>3, <1>4 DEF Increasing
  <2>3. \A k \in 1..len[r] : backing[slice[r]][k] \in Int
    BY <1>3, TargetsFacts DEF Increasing
  <2>4. Scanned(r)'
    BY ONLY <1>1, <1>2, <1>3, <1>4, <2>3 DEF Scanned
  <2>5. Snap(r)'
    BY <1>1, <1>2, <2>2, <2>4 DEF Snap, HoldStates, OnProvider, LoopStates
  <2> QED BY <2>1, <2>5, OneSnapStep
<1>5. CASE /\ backing' = [backing EXCEPT ![slice[r]][len[r] + 1] = next[r]]
           /\ len' = [len EXCEPT ![r] = @ + 1]
  <2> DEFINE b == backing[slice[r]]
             c == backing'[slice[r]]
             n == len[r]
  <2>1. Apart(r) /\ len'[r] = n + 1
    BY <1>1, <1>5 DEF Apart, ScanTarget, SnapInv, TypeOK
  <2>2. n + 1 \in Targets
    BY <1>1, TargetsFacts
  <2>3. c[n + 1] = next[r] /\ \A k \in 1..n : c[k] = b[k]
    <3>1. backing \in [Slices -> [Targets -> {0} \cup Targets]]
      BY DEF SnapInv, TypeOK
    <3>2. c = [b EXCEPT ![n + 1] = next[r]]
      BY ONLY <1>1, <1>5, <3>1
    <3>3. DOMAIN b = Targets /\ 1..n \subseteq Targets
      BY <1>1, <3>1, <2>2, TargetsFacts
    <3> QED BY ONLY <1>1, <2>2, <3>2, <3>3
  <2>4. \A k \in 1..n : b[k] \in Targets /\ b[k] < next[r] /\ \A j \in 1..(k - 1) : b[j] < b[k]
    BY <1>3 DEF Increasing, Scanned
  <2>5. Increasing(r)'
    <3> SUFFICES ASSUME NEW k \in 1..(n + 1)
                 PROVE  c[k] \in Targets /\ \A j \in 1..(k - 1) : c[j] < c[k]
      BY <1>2, <2>1 DEF Increasing
    <3>1. CASE k = n + 1
      BY ONLY <1>1, <2>3, <2>4, <3>1
    <3>2. CASE k \in 1..n
      <4>1. \A j \in 1..(k - 1) : j \in 1..n
        BY ONLY <1>1, <3>2
      <4> QED BY ONLY <2>3, <2>4, <3>2, <4>1
    <3> QED BY ONLY <1>1, <3>1, <3>2, k \in 1..(n + 1)
  <2>6. Scanned(r)'
    <3>1. \A k \in 1..(n + 1) : c[k] < next[r] + 1
      <4> SUFFICES ASSUME NEW k \in 1..(n + 1) PROVE c[k] < next[r] + 1
        OBVIOUS
      <4>1. CASE k = n + 1
        BY ONLY <1>1, <2>3, <4>1
      <4>2. CASE k \in 1..n
        <5>1. b[k] \in Int
          BY <2>4, <4>2, TargetsFacts
        <5> QED BY ONLY <1>1, <2>3, <2>4, <4>2, <5>1
      <4> QED BY ONLY <1>1, <4>1, <4>2, k \in 1..(n + 1)
    <3> QED BY ONLY <1>1, <1>2, <2>1, <3>1 DEF Scanned
  <2>7. Snap(r)'
    BY <1>1, <1>2, <2>5, <2>6 DEF Snap, HoldStates, OnProvider, LoopStates
  <2> QED BY <2>1, <2>7, OneSnapStep
<1> QED BY <1>4, <1>5 DEF ScanTarget

LEMMA SnapStep == SnapInv /\ [Next]_vars => \A q \in Requests : Snap(q)'
<1> SUFFICES ASSUME SnapInv, [Next]_vars PROVE \A q \in Requests : Snap(q)'
  OBVIOUS
<1>0. TypeOK
  BY DEF SnapInv
<1> USE DEF position, slices, response, Goto
\* The request moves on with its snapshot, or without one.
<1>1. ASSUME NEW r \in Requests,
             \/ \E type \in ConnectionTypes : Arrive(r, type)
             \/ ReadBodyOk(r) \/ Forward(r) \/ Dial(r) \/ DialOk(r) \/ CopyResponse(r)
             \/ UpgradeOk(r) \/ RedialOk(r) \/ ProviderResets(r)
             \/ DialFails(r) /\ ~tainted[CurrentChecker(r)]
      PROVE  \A q \in Requests : Snap(q)'
  <2>1. UNCHANGED <<slice, len, next, backing, failed>>
    BY <1>1
    DEF Arrive, ReadBodyOk, Forward, Dial, DialOk, CopyResponse, UpgradeOk, RedialOk,
        ProviderResets, DialFails
  <2>2. PICK a :
          /\ at' = [at EXCEPT ![r] = a]
          /\ \/ at[r] \in {"new", "readBody"} /\ a \in {"readBody", "get"}
             \/ at[r] = "try" /\ next[r] <= len[r] /\ a \in {"inflight", "dialing"}
             \/ at[r] = "dialing" /\ a = "tainting"
             \/ at[r] \in OnProvider /\ a \in OnProvider \ LoopStates
    <3>1. CASE \E type \in ConnectionTypes : Arrive(r, type)
      BY <3>1 DEF Arrive
    <3>2. CASE ReadBodyOk(r) \/ Forward(r) \/ Dial(r)
      BY <3>2 DEF ReadBodyOk, Forward, Dial
    <3>3. CASE DialOk(r) \/ CopyResponse(r) \/ UpgradeOk(r) \/ RedialOk(r) \/ ProviderResets(r)
      <4>1. PICK a \in {"upgrading", "streaming", "redial", "session", "reset"} :
              at' = [at EXCEPT ![r] = a]
        BY <3>3 DEF DialOk, CopyResponse, UpgradeOk, RedialOk, ProviderResets
      <4>2. at[r] \in {"dialing", "inflight", "upgrading", "redial", "streaming"}
        BY <3>3 DEF DialOk, CopyResponse, UpgradeOk, RedialOk, ProviderResets
      <4> QED BY ONLY <4>1, <4>2 DEF OnProvider, LoopStates, HoldStates
    <3>4. CASE DialFails(r) /\ ~tainted[CurrentChecker(r)]
      BY <3>4 DEF DialFails
    <3> QED BY <1>1, <3>1, <3>2, <3>3, <3>4
  <2> QED BY <2>1, <2>2, MoveSnap
\* The handler returns.
<1>2. ASSUME NEW r \in Requests,
             \/ ReadBodyFails(r) \/ NoHealthyProviders(r) \/ AllProvidersFailed(r)
             \/ StreamDone(r) \/ ClientDisconnects(r) \/ ResetTakenForDisconnect(r)
             \/ UpgradeFails(r) \/ UpgradeAborts(r) \/ RedialFails(r) \/ SessionEnds(r)
      PROVE  \A q \in Requests : Snap(q)'
  <2>1. Release(r) /\ UNCHANGED failed
    BY <1>2
    DEF ReadBodyFails, NoHealthyProviders, AllProvidersFailed, StreamDone, ClientDisconnects,
        ResetTakenForDisconnect, UpgradeFails, UpgradeAborts, RedialFails, SessionEnds, Return
  <2>2. PICK a \in {"done", "closed"} : at' = [at EXCEPT ![r] = a]
    BY <1>2
    DEF ReadBodyFails, NoHealthyProviders, AllProvidersFailed, StreamDone, ClientDisconnects,
        ResetTakenForDisconnect, UpgradeFails, UpgradeAborts, RedialFails, SessionEnds, Return,
        Goto
  <2> QED BY <2>1, <2>2, ReleaseSnap
<1>3. ASSUME NEW r \in Requests, GetSlice(r) PROVE \A q \in Requests : Snap(q)'
  <2>1. PICK s \in pool \cup (Slices \ allocated) : slice' = [slice EXCEPT ![r] = s]
    BY <1>3 DEF GetSlice
  <2>2. /\ at'[r] = "scan" /\ slice'[r] = s /\ len'[r] = 0 /\ next'[r] = 1
        /\ failed'[r] = failed[r] /\ s \in Slices
    BY <1>0, <1>3, <2>1 DEF GetSlice, TypeOK
  <2>3. failed[r] = {}
    BY <1>3 DEF GetSlice, SnapInv, Snap
  <2>4. Apart(r)
    BY <1>0, <1>3, <2>1 DEF GetSlice, Apart, TypeOK
  <2>5. Snap(r)'
    BY <2>2, <2>3 DEF Snap, Increasing, Scanned, HoldStates, OnProvider, LoopStates
  <2> QED BY <2>4, <2>5, OneSnapStep
<1>4. ASSUME NEW r \in Requests, ScanTarget(r) PROVE \A q \in Requests : Snap(q)'
  BY <1>4, ScanSnap
<1>5. ASSUME NEW r \in Requests, StartFailover(r) PROVE \A q \in Requests : Snap(q)'
  <2>1. /\ at'[r] = "try" /\ next'[r] = 1 /\ at[r] = "scan" /\ len[r] \in Nat
        /\ UNCHANGED <<slice, len, backing, failed>>
    BY <1>0, <1>5 DEF StartFailover, TypeOK
  <2>2. Apart(r)
    BY <1>0, <1>5 DEF StartFailover, Apart, TypeOK
  <2>3. Increasing(r)' = Increasing(r)
    BY <2>1 DEF Increasing
  <2>4. Snap(r)
    BY DEF SnapInv
  <2>5. Snap(r)'
    BY <2>1, <2>3, <2>4 DEF Snap, HoldStates, OnProvider, LoopStates
  <2> QED BY <2>2, <2>5, OneSnapStep
\* A provider failed.
<1>6. ASSUME NEW r \in Requests,
             \/ ProviderFails(r) /\ ~statusSet[r]
             \/ DialFails(r) /\ tainted[CurrentChecker(r)]
             \/ TaintDone(r) \/ SkipTarget(r)
      PROVE  \A q \in Requests : Snap(q)'
  <2>1. /\ at' = [at EXCEPT ![r] = "try"]
        /\ next' = [next EXCEPT ![r] = @ + 1]
        /\ failed' = [failed EXCEPT ![r] = @ \cup {Current(r)}]
        /\ UNCHANGED <<slice, len, backing>>
    BY <1>0, <1>6 DEF ProviderFails, DialFails, TaintDone, SkipTarget, TaintCurrent, TypeOK
  <2>2. at[r] \in LoopStates
    <3>1. Answer(r)
      BY DEF SnapInv, AnswerInv
    <3> QED BY <1>6, <3>1 DEF ProviderFails, DialFails, TaintDone, SkipTarget, LoopStates, Answer
  <2>3. next[r] <= len[r]
    <3>1. Snap(r)
      BY DEF SnapInv
    <3>2. SkipTarget(r) \/ at[r] # "try"
      BY <1>6 DEF ProviderFails, DialFails, TaintDone
    <3>3. at[r] = "try" => next[r] <= len[r]
      BY <3>2 DEF SkipTarget
    <3> QED BY ONLY <2>2, <3>1, <3>3 DEF Snap, LoopStates, OnProvider, HoldStates
  <2> QED BY <2>1, <2>2, <2>3, AdvanceSnap
<1>7. ASSUME NEW r \in Requests, ProviderFails(r), statusSet[r]
      PROVE  \A q \in Requests : Snap(q)'
  <2>1. /\ Release(r) /\ at' = [at EXCEPT ![r] = "done"]
        /\ \A q \in Requests \ {r} : failed'[q] = failed[q]
    BY <1>0, <1>7 DEF ProviderFails, TaintCurrent, TypeOK, Return, Goto
  <2> QED BY <2>1, ReleaseSnap
<1>8. ASSUME NEW r \in Requests, NextRequest(r) PROVE \A q \in Requests : Snap(q)'
  <2>1. /\ at[r] \in {"done", "closed"} /\ at'[r] = "new"
        /\ failed'[r] = {} /\ slice'[r] = slice[r]
    BY <1>0, <1>8 DEF NextRequest, TypeOK
  <2>2. Apart(r)
    BY <1>0, <1>8 DEF NextRequest, Apart, TypeOK
  <2>3. Snap(r)
    BY DEF SnapInv
  <2>4. Snap(r)'
    BY <2>1, <2>3 DEF Snap, HoldStates, OnProvider, LoopStates
  <2> QED BY <2>2, <2>4, OneSnapStep
<1>9. ASSUME UNCHANGED <<at, slice, len, next, backing, failed>>
      PROVE  \A q \in Requests : Snap(q)'
  BY <1>9 DEF SnapInv, Snap, Increasing, Scanned
<1>10. ASSUME NEW k \in Checkers, HealthChange(k) PROVE \A q \in Requests : Snap(q)'
  BY <1>9, <1>10 DEF HealthChange
<1>11. CASE UNCHANGED vars
  BY <1>9, <1>11 DEF vars
<1> QED
  BY <1>1, <1>2, <1>3, <1>4, <1>5, <1>6, <1>7, <1>8, <1>10, <1>11 DEF Next, ServeStep

LEMMA SnapInvStep == SnapInv /\ [Next]_vars => SnapInv'
BY SliceStep, AnswerStep, TypeStep, SnapStep DEF SnapInv

(***************************************************************************)
(* The variables of the proxy stay in their types: the loops index the     *)
(* targets and the pooled slices within bounds.                            *)
(***************************************************************************)
THEOREM TypeCorrect == Spec => []TypeOK
<1>1. SnapInv => TypeOK
  BY DEF SnapInv
<1> QED BY <1>1, SnapInit, SnapInvStep, PTL DEF Spec

(***************************************************************************)
(* Failover skips nobody, repeats nobody and keeps the order of p.targets, *)
(* however the requests share the pool and however often the health of the *)
(* providers changes.                                                      *)
(***************************************************************************)
THEOREM FailoverIsComplete == Spec => []FailoverComplete
<1>1. SnapInv => FailoverComplete
  <2> SUFFICES ASSUME SnapInv, NEW r \in Requests, at[r] \in LoopStates
               PROVE  /\ failed[r] = {backing[slice[r]][k] : k \in 1..(next[r] - 1)}
                      /\ next[r] <= len[r] => \A t \in failed[r] : t < Current(r)
    BY DEF FailoverComplete, LoopStates
  <2>1. Snap(r) /\ next[r] \in Nat /\ next[r] >= 1 /\ len[r] \in Nat /\ at[r] \in HoldStates
    BY TargetsFacts DEF SnapInv, TypeOK, LoopStates, HoldStates
  <2>2. failed[r] = {backing[slice[r]][k] : k \in 1..(next[r] - 1)}
    BY <2>1 DEF Snap
  <2>3. ASSUME next[r] <= len[r] PROVE \A t \in failed[r] : t < Current(r)
    <3>1. next[r] \in 1..len[r]
      BY <2>1, <2>3
    <3>2. /\ Current(r) \in Targets
          /\ \A j \in 1..(next[r] - 1) : backing[slice[r]][j] < Current(r)
      BY <2>1, <3>1 DEF Snap, Increasing, Current
    <3> QED BY ONLY <2>2, <3>2
  <2> QED BY <2>2, <2>3
<1> QED BY <1>1, SnapInit, SnapInvStep, PTL DEF Spec
====
