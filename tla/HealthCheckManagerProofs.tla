----------------------- MODULE HealthCheckManagerProofs -----------------------
(***************************************************************************)
(* Proofs about HealthCheckManager, for any number of checkers, any        *)
(* threshold and any range of block numbers.                               *)
(***************************************************************************)
EXTENDS HealthCheckManager, TLAPS, WellFoundedInduction

\* No two checkers have the same provider name.
UniqueNames ==
  \A i, j \in Checkers : checkers[i].Name = checkers[j].Name => i = j

\* updatedBlockNumber + threshold does not wrap around.
NoOverflow == MaxBlock + BlockDiffThreshold < Modulus

LEMMA CheckersFacts ==
  /\ Len(checkers) \in Nat
  /\ Checkers = 1..Len(checkers)
  BY CheckersAssumption DEF Checkers

LEMMA NoCheckTypes ==
  /\ NoCheck \in CheckType
  /\ Probing \in CheckType
  /\ \A b \in 0..MaxBlock : [NoCheck EXCEPT !.at = "scanning", !.reported = b] \in CheckType
  /\ \A i, k \in Checkers, l \in {"failing", "lagging"} : Tainting(i, k, l) \in CheckType
<1> USE DEF CheckStates
<1>1. 0 \in 0..MaxBlock /\ 1 \in 1..(Len(checkers) + 1)
  BY CheckersFacts, BlockAssumption
<1>2. NoCheck \in CheckType
  BY <1>1 DEF NoCheck, CheckType
<1>3. Probing \in CheckType
  BY <1>1 DEF Probing, NoCheck, CheckType
<1>4. ASSUME NEW b \in 0..MaxBlock
      PROVE  [NoCheck EXCEPT !.at = "scanning", !.reported = b] \in CheckType
  BY <1>1 DEF NoCheck, CheckType
<1>5. ASSUME NEW i \in Checkers, NEW k \in Checkers, NEW l \in {"failing", "lagging"}
      PROVE  Tainting(i, k, l) \in CheckType
  BY <1>1, <1>2 DEF Tainting, NoCheck, CheckType
<1> QED BY <1>2, <1>3, <1>4, <1>5

\* A call of Taint by a check: it begins at once or is not worth it.
LEMMA TaintingFacts ==
  ASSUME NEW i, NEW k, NEW l
  PROVE  \/ Tainting(i, k, l).at = "idle"
         \/ Tainting(i, k, l).at = l /\ Tainting(i, k, l).target = k
  BY DEF Tainting, NoCheck

\* The locals after an iteration of the scan.
LEMMA ReadFacts ==
  ASSUME NEW c \in CheckType, NEW name, NEW j \in Checkers,
         block \in [Checkers -> 0..MaxBlock]
  PROVE  /\ Read(c, name, j) \in CheckType
         /\ Read(c, name, j).at = c.at
         /\ Read(c, name, j).reported = c.reported
         /\ Read(c, name, j).maxBlock \in {c.maxBlock, block[j]}
         /\ Read(c, name, j).maxBlock >= c.maxBlock
         /\ Read(c, name, j).maxBlock >= block[j]
         /\ Read(c, name, j).next = j + 1
         /\ Read(c, name, j).target = IF checkers[j].Name = name THEN j ELSE c.target
<1>1. j + 1 \in 1..(Len(checkers) + 1)
  BY CheckersFacts
<1>2. (IF block[j] > c.maxBlock THEN block[j] ELSE c.maxBlock) \in 0..MaxBlock
  BY DEF CheckType
<1>3. (IF checkers[j].Name = name THEN j ELSE c.target) \in {0} \cup Checkers
  BY DEF CheckType
<1>4. block[j] \in Int /\ c.maxBlock \in Int
  BY DEF CheckType
<1> QED BY <1>1, <1>2, <1>3, <1>4 DEF CheckType, Read

-----------------------------------------------------------------------------
(* Type correctness *)

LEMMA ScanTypes ==
  ASSUME TypeOK, NEW i \in Checkers, Scan(i)
  PROVE  /\ check' \in [Checkers -> CheckType]
         /\ check[i].next \in Checkers
<1>1. check \in [Checkers -> CheckType] /\ block \in [Checkers -> 0..MaxBlock]
  BY DEF TypeOK
<1>2. check[i].next \in Checkers
  BY <1>1, CheckersFacts DEF Scan, CheckType
<1> QED BY <1>1, <1>2, ReadFacts DEF Scan

LEMMA InitTypeOK == Init => TypeOK
<1>1. 0 \in 0..MaxBlock
  BY BlockAssumption
<1> QED BY <1>1, NoCheckTypes DEF Init, TypeOK

LEMMA NextTypeOK == TypeOK /\ [Next]_vars => TypeOK'
<1> SUFFICES ASSUME TypeOK, [Next]_vars PROVE TypeOK'
  OBVIOUS
<1> USE DEF TypeOK
<1>1. ASSUME NEW i \in Checkers, StartCheck(i) PROVE TypeOK'
  BY <1>1, NoCheckTypes DEF StartCheck
<1>2. ASSUME NEW i \in Checkers, ProbeFails(i) PROVE TypeOK'
  BY <1>2, NoCheckTypes DEF ProbeFails
<1>3. ASSUME NEW i \in Checkers, NEW b \in 0..MaxBlock, ProbeAnswers(i, b) PROVE TypeOK'
  BY <1>3, NoCheckTypes DEF ProbeAnswers
<1>4. ASSUME NEW i \in Checkers, Scan(i) PROVE TypeOK'
  BY <1>4, ScanTypes DEF Scan
<1>5. ASSUME NEW i \in Checkers, Decide(i) PROVE TypeOK'
  <2>1. check[i].target # 0 => check[i].target \in Checkers
    BY DEF CheckType
  <2>2. check' \in [Checkers -> CheckType]
    BY <1>5, <2>1, NoCheckTypes DEF Decide
  <2> QED BY <1>5, <2>2 DEF Decide
<1>8. ASSUME NEW i \in Checkers, StoreTaint(i) PROVE TypeOK'
  <2>1. check' \in [Checkers -> CheckType] /\ block' \in [Checkers -> 0..MaxBlock]
    BY <1>8, NoCheckTypes DEF StoreTaint
  <2>2. isTainted' \in [Checkers -> BOOLEAN] /\ lag' \in [Checkers -> BOOLEAN]
    BY <1>8 DEF StoreTaint
  <2> QED BY <2>1, <2>2
<1>6. ASSUME NEW i \in Checkers, TaintForOtherReason(i) \/ RemoveTaint(i) PROVE TypeOK'
  BY <1>6 DEF TaintForOtherReason, RemoveTaint
<1>7. CASE UNCHANGED vars
  BY <1>7 DEF vars
<1> QED BY <1>1, <1>2, <1>3, <1>4, <1>5, <1>6, <1>7, <1>8 DEF Next, CheckStep

(***************************************************************************)
(* Every reachable state of the manager is well typed.                     *)
(***************************************************************************)
THEOREM TypeCorrect == Spec => []TypeOK
  BY InitTypeOK, NextTypeOK, PTL DEF Spec

-----------------------------------------------------------------------------
(***************************************************************************)
(* The test the comment of checkBlockLagAndTaint describes, without uint64 *)
(* arithmetic: the distance to the highest block is above the threshold.   *)
(***************************************************************************)
FarBehind(c) == c.maxBlock > c.reported + BlockDiffThreshold

\* Where the sum does not wrap around, the code's test is the comment's.  Where
\* it does, the right-hand side is smaller by 2^64 and the test passes for less.
LEMMA TooFarBehindExact ==
  ASSUME NEW c \in CheckType
  PROVE  /\ c.reported + BlockDiffThreshold < Modulus => (TooFarBehind(c) <=> FarBehind(c))
         /\ c.reported + BlockDiffThreshold >= Modulus
              => (TooFarBehind(c) <=> c.maxBlock > c.reported + BlockDiffThreshold - Modulus)
<1>1. c.reported \in 0..MaxBlock /\ c.maxBlock \in 0..MaxBlock
  BY DEF CheckType
<1>2. ASSUME c.reported + BlockDiffThreshold < Modulus
      PROVE  (c.reported + BlockDiffThreshold) % Modulus = c.reported + BlockDiffThreshold
  BY <1>1, <1>2, BlockAssumption
<1>3. ASSUME c.reported + BlockDiffThreshold >= Modulus
      PROVE  (c.reported + BlockDiffThreshold) % Modulus
               = c.reported + BlockDiffThreshold - Modulus
  <2> DEFINE n == c.reported + BlockDiffThreshold - Modulus
  <2>1. n \in Nat /\ n < Modulus /\ Modulus \in Nat /\ Modulus > 0
    BY <1>1, <1>3, BlockAssumption
  <2>2. c.reported + BlockDiffThreshold = n + Modulus
    BY <1>1, BlockAssumption
  <2> HIDE DEF n
  <2>3. (n + Modulus) % Modulus = n
    BY ONLY <2>1, SMTT(30)
  <2> QED BY ONLY <2>2, <2>3 DEF n
<1> QED BY <1>2, <1>3 DEF TooFarBehind, FarBehind

-----------------------------------------------------------------------------
(***************************************************************************)
(* The scan, on its own: it is about the block number its checker has      *)
(* stored, has read no more than some provider's block number, at least    *)
(* its own once past it, and finds the last checker of its own provider    *)
(* among those it has read.  Only that providers never go back is needed.  *)
(***************************************************************************)
FoundLast(c, name) ==
  \A j \in Checkers : j < c.next /\ checkers[j].Name = name => j <= c.target

ScanInv(i) ==
  check[i].at = "scanning" =>
    /\ check[i].reported = block[i]
    /\ \E j \in Checkers : check[i].maxBlock <= block[j]
    /\ check[i].target # 0 => checkers[check[i].target].Name = checkers[i].Name
    /\ FoundLast(check[i], checkers[i].Name)
    /\ check[i].next > i => check[i].maxBlock >= check[i].reported

Scans == \A i \in Checkers : ScanInv(i)

LEMMA InitScans == Init => Scans
  BY DEF Init, Scans, ScanInv, NoCheck

\* Block numbers that only grow keep what a scan has read, and a lag, true.
LEMMA BlocksGrow ==
  ASSUME TypeOK, TypeOK',
         \A j \in Checkers : block'[j] >= block[j],
         NEW k \in Checkers, block'[k] = block[k]
  PROVE  /\ Behind(k) => Behind(k)'
         /\ \A m \in Nat : (\E j \in Checkers : m <= block[j])
                           => \E j \in Checkers : m <= block'[j]
<1>1. \A j \in Checkers : block[j] \in Nat /\ block'[j] \in Nat
  BY BlockAssumption DEF TypeOK
<1>2. BlockDiffThreshold \in Nat
  BY BlockAssumption
<1>3. ASSUME Behind(k) PROVE Behind(k)'
  <2>1. PICK j \in Checkers : block[j] > block[k] + BlockDiffThreshold
    BY <1>3 DEF Behind
  <2>2. block'[j] > block'[k] + BlockDiffThreshold
    BY <1>1, <1>2, <2>1
  <2> QED BY <2>2 DEF Behind
<1>4. ASSUME NEW m \in Nat, NEW j \in Checkers, m <= block[j]
      PROVE  m <= block'[j]
  BY <1>1, <1>4
<1> QED BY <1>3, <1>4

\* The block numbers after an answer, if the provider does not go back.
LEMMA AnswerGrows ==
  ASSUME TypeOK, Monotone, NEW i \in Checkers, NEW b \in 0..MaxBlock, ProbeAnswers(i, b)
  PROVE  /\ block'[i] = b
         /\ \A k \in Checkers \ {i} : block'[k] = block[k] /\ check'[k] = check[k]
         /\ \A j \in Checkers : block'[j] >= block[j]
<1>0. check \in [Checkers -> CheckType] /\ block \in [Checkers -> 0..MaxBlock]
  BY DEF TypeOK
<1>1. /\ block'[i] = b
      /\ \A k \in Checkers \ {i} : block'[k] = block[k] /\ check'[k] = check[k]
  BY <1>0 DEF ProbeAnswers
<1>2. \A j \in Checkers : block'[j] >= block[j]
  BY <1>0, <1>1, BlockAssumption DEF ProbeAnswers
<1> QED BY <1>1, <1>2

\* A check that does not scan, and those of the others as they were, keep Scans.
LEMMA ScansKept ==
  ASSUME Scans, NEW i \in Checkers, UNCHANGED block,
         check'[i].at # "scanning" \/ check'[i] = check[i],
         \A k \in Checkers \ {i} : check'[k] = check[k]
  PROVE  Scans'
  BY DEF Scans, ScanInv, FoundLast

LEMMA NextScans ==
  ASSUME Monotone
  PROVE  TypeOK /\ TypeOK' /\ Scans /\ [Next]_vars => Scans'
<1> SUFFICES ASSUME TypeOK, TypeOK', Scans, [Next]_vars PROVE Scans'
  OBVIOUS
<1>0. /\ check \in [Checkers -> CheckType]
      /\ block \in [Checkers -> 0..MaxBlock]
  BY DEF TypeOK
<1>1. ASSUME NEW i \in Checkers,
             StartCheck(i) \/ ProbeFails(i) \/ Decide(i) \/ StoreTaint(i)
      PROVE  Scans'
  <2>1. check'[i].at # "scanning" /\ \A k \in Checkers \ {i} : check'[k] = check[k]
    BY <1>0, <1>1, TaintingFacts
    DEF StartCheck, ProbeFails, Decide, StoreTaint, Probing, NoCheck
  <2>2. UNCHANGED block
    BY <1>1 DEF StartCheck, ProbeFails, Decide, StoreTaint
  <2> QED BY <2>1, <2>2, ScansKept
<1>2. ASSUME NEW i \in Checkers, TaintForOtherReason(i) \/ RemoveTaint(i) PROVE Scans'
  BY <1>2 DEF TaintForOtherReason, RemoveTaint, Scans, ScanInv, FoundLast
<1>3. ASSUME NEW i \in Checkers, NEW b \in 0..MaxBlock, ProbeAnswers(i, b) PROVE Scans'
  <2>1. /\ block'[i] = b
        /\ \A k \in Checkers \ {i} : block'[k] = block[k] /\ check'[k] = check[k]
        /\ \A j \in Checkers : block'[j] >= block[j]
    BY <1>3, AnswerGrows
  <2>2. /\ check'[i].reported = b /\ check'[i].maxBlock = 0 /\ check'[i].target = 0
        /\ check'[i].next = 1
    BY <1>0, <1>3 DEF ProbeAnswers, NoCheck
  <2>3. ScanInv(i)'
    <3>1. \A j \in Checkers : j >= 1 /\ j \in Int
      BY CheckersFacts
    <3> QED BY <2>1, <2>2, <3>1 DEF ScanInv, FoundLast
  <2>4. ASSUME NEW k \in Checkers \ {i} PROVE ScanInv(k)'
    <3>1. check[k].maxBlock \in Nat
      BY <1>0, BlockAssumption DEF CheckType
    <3> QED BY <2>1, <2>4, <3>1, BlocksGrow DEF Scans, ScanInv, FoundLast
  <2> QED BY <2>3, <2>4 DEF Scans
<1>4. ASSUME NEW i \in Checkers, Scan(i) PROVE Scans'
  <2> DEFINE j == check[i].next
             c == Read(check[i], checkers[i].Name, j)
  <2>1. j \in Checkers
    BY <1>4, ScanTypes
  <2>2. check'[i] = c /\ \A k \in Checkers \ {i} : check'[k] = check[k]
    BY <1>0, <1>4 DEF Scan
  <2>3. /\ c.at = check[i].at
        /\ c.reported = check[i].reported
        /\ c.maxBlock \in {check[i].maxBlock, block[j]}
        /\ c.target = IF checkers[j].Name = checkers[i].Name THEN j ELSE check[i].target
        /\ c.maxBlock >= check[i].maxBlock /\ c.maxBlock >= block[j] /\ c.next = j + 1
    BY <1>0, <2>1, ReadFacts
  <2>4. UNCHANGED block /\ check[i].at = "scanning"
    BY <1>4 DEF Scan
  <2>5. c.target # 0 => checkers[c.target].Name = checkers[i].Name
    BY <2>1, <2>3, <2>4 DEF Scans, ScanInv
  <2>6. \E k \in Checkers : c.maxBlock <= block[k]
    <3>1. block[j] <= block[j]
      BY <1>0, <2>1, BlockAssumption
    <3> QED BY <2>1, <2>3, <2>4, <3>1 DEF Scans, ScanInv
  <2>7. ASSUME c.next > i PROVE c.maxBlock >= c.reported
    <3>1. /\ i \in Int /\ j \in Int
          /\ check[i].maxBlock \in Int /\ c.maxBlock \in Int /\ block[i] \in Int
      <4>1. i \in Int /\ j \in Int
        BY <2>1, CheckersFacts
      <4>2. check[i].maxBlock \in Int /\ block[i] \in Int /\ block[j] \in Int
        BY <1>0, <2>1 DEF CheckType
      <4>3. c.maxBlock \in Int
        BY ONLY <2>3, <4>2
      <4> QED BY ONLY <4>1, <4>2, <4>3
    <3>2. /\ check[i].reported = block[i]
          /\ j > i => check[i].maxBlock >= check[i].reported
      BY <2>4 DEF Scans, ScanInv
    <3>3. j > i \/ j = i
      <4>1. j + 1 > i
        BY <2>3, <2>7
      <4> QED BY ONLY <3>1, <4>1
    <3> QED BY ONLY <2>3, <3>1, <3>2, <3>3
  <2>8. FoundLast(c, checkers[i].Name)
    <3> SUFFICES ASSUME NEW k \in Checkers, k < c.next, checkers[k].Name = checkers[i].Name
                 PROVE  k <= c.target
      BY DEF FoundLast
    <3>1. k \in Int /\ j \in Int /\ check[i].target \in Int
      BY <1>0, <2>1, CheckersFacts DEF CheckType
    <3>2. k < j + 1
      BY <2>3
    <3>3. k < j => k <= check[i].target
      BY <2>4 DEF Scans, ScanInv, FoundLast
    <3> QED BY ONLY <2>3, <3>1, <3>2, <3>3, checkers[k].Name = checkers[i].Name
  <2>9. ScanInv(i)'
    BY <2>2, <2>3, <2>4, <2>5, <2>6, <2>7, <2>8 DEF Scans, ScanInv, FoundLast
  <2> QED BY <2>2, <2>4, <2>9 DEF Scans, ScanInv, FoundLast
<1>5. CASE UNCHANGED vars
  BY <1>5 DEF vars, Scans, ScanInv, FoundLast
<1> QED BY <1>1, <1>2, <1>3, <1>4, <1>5 DEF Next, CheckStep

LEMMA ScansAlways == ASSUME Monotone PROVE Spec => []Scans
<1>1. TypeOK /\ TypeOK' /\ Scans /\ [Next]_vars => Scans'
  BY NextScans
<1> QED BY <1>1, InitScans, TypeCorrect, PTL DEF Spec

(***************************************************************************)
(* A scan that interleaves with the updates of the block numbers is sound, *)
(* if providers never go back.                                             *)
(***************************************************************************)
THEOREM ScanIsSound == ASSUME Monotone PROVE Spec => []ScanSound
<1>1. Scans => ScanSound
  BY DEF Scans, ScanInv, ScanSound
<1> QED BY <1>1, ScansAlways, PTL

-----------------------------------------------------------------------------
(* The decision at the end of a scan *)

LEMMA TooFarBehindMeans ==
  ASSUME TypeOK, Scans, NEW i \in Checkers, check[i].at = "scanning", TooFarBehind(check[i])
  PROVE  Behind(i) \/ Wraps(i)
<1> SUFFICES ASSUME ~Wraps(i) PROVE Behind(i)
  OBVIOUS
<1>0. check[i] \in CheckType /\ \A j \in Checkers : block[j] \in 0..MaxBlock
  BY DEF TypeOK
<1>1. PICK j \in Checkers : check[i].maxBlock <= block[j]
  BY DEF Scans, ScanInv
<1>2. check[i].reported = block[i]
  BY DEF Scans, ScanInv
<1>3. block[i] + BlockDiffThreshold < Modulus
  BY <1>0, BlockAssumption DEF Wraps
<1>4. check[i].maxBlock > block[i] + BlockDiffThreshold
  BY <1>0, <1>2, <1>3, TooFarBehindExact DEF FarBehind
<1>5. check[i].maxBlock \in Nat
  BY <1>0, BlockAssumption DEF CheckType
<1>6. block[j] > block[i] + BlockDiffThreshold
  BY <1>0, <1>1, <1>4, <1>5, BlockAssumption
<1> QED BY <1>6 DEF Behind

(***************************************************************************)
(* A check inside the Taint its scan decided: it taints the last checker   *)
(* of its own provider, and is behind for as long as that takes.           *)
(***************************************************************************)
LastOfName(k) == \A j \in Checkers : checkers[j].Name = checkers[k].Name => j <= k

LaggingInv(i) ==
  check[i].at = "lagging" =>
    /\ check[i].target \in Checkers
    /\ checkers[check[i].target].Name = checkers[i].Name
    /\ LastOfName(check[i].target)
    /\ Behind(i) \/ Wraps(i)

Laggards == \A i \in Checkers : LaggingInv(i)

\* The decision makes the check a laggard for good reason.
LEMMA DecideLagging ==
  ASSUME TypeOK, Scans, NEW i \in Checkers, Decide(i)
  PROVE  LaggingInv(i)'
<1> SUFFICES ASSUME check'[i].at = "lagging" PROVE LaggingInv(i)'
  BY DEF LaggingInv
<1>0. check \in [Checkers -> CheckType]
  BY DEF TypeOK
<1>1. /\ check[i].at = "scanning" /\ check[i].next > Len(checkers)
      /\ TooFarBehind(check[i]) /\ check[i].target # 0
      /\ check'[i].target = check[i].target
      /\ UNCHANGED block
  BY <1>0, TaintingFacts DEF Decide, NoCheck
<1>2. check[i].target \in Checkers /\ check[i].next \in Int
  BY <1>0, <1>1 DEF CheckType
<1>3. /\ checkers[check[i].target].Name = checkers[i].Name
      /\ FoundLast(check[i], checkers[i].Name)
  BY <1>1 DEF Scans, ScanInv
<1>4. \A j \in Checkers : j < check[i].next
  BY ONLY <1>1, <1>2, CheckersFacts
<1>5. LastOfName(check[i].target)
  BY <1>3, <1>4 DEF FoundLast, LastOfName
<1>6. Behind(i) \/ Wraps(i)
  BY <1>1, TooFarBehindMeans
<1> QED BY <1>1, <1>2, <1>3, <1>5, <1>6 DEF LaggingInv, Behind, Wraps, LastOfName

LEMMA NextLaggards ==
  ASSUME Monotone
  PROVE  TypeOK /\ TypeOK' /\ Scans /\ Laggards /\ [Next]_vars => Laggards'
<1> SUFFICES ASSUME TypeOK, TypeOK', Scans, Laggards, [Next]_vars PROVE Laggards'
  OBVIOUS
<1>0. check \in [Checkers -> CheckType]
  BY DEF TypeOK
<1> USE DEF Laggards
<1>1. ASSUME NEW k \in Checkers, UNCHANGED <<block, check[k]>> PROVE LaggingInv(k)'
  BY <1>1 DEF LaggingInv, Behind, Wraps, LastOfName
<1>2. ASSUME NEW i \in Checkers,
             StartCheck(i) \/ ProbeFails(i) \/ Scan(i) \/ StoreTaint(i)
      PROVE  Laggards'
  <2>1. UNCHANGED block /\ \A k \in Checkers \ {i} : check'[k] = check[k]
    BY <1>0, <1>2 DEF StartCheck, ProbeFails, Scan, StoreTaint
  <2>2. check'[i].at # "lagging"
    <3>1. CASE Scan(i)
      BY <1>0, <3>1 DEF Scan, Read
    <3>2. CASE StartCheck(i) \/ ProbeFails(i) \/ StoreTaint(i)
      BY <1>0, <3>2, TaintingFacts DEF StartCheck, ProbeFails, StoreTaint, Probing, NoCheck
    <3> QED BY <1>2, <3>1, <3>2
  <2> QED BY <1>1, <2>1, <2>2 DEF LaggingInv
<1>3. ASSUME NEW i \in Checkers, Decide(i) PROVE Laggards'
  <2>1. UNCHANGED block /\ \A k \in Checkers \ {i} : check'[k] = check[k]
    BY <1>0, <1>3 DEF Decide
  <2> QED BY <1>1, <1>3, <2>1, DecideLagging
<1>4. ASSUME NEW i \in Checkers, NEW b \in 0..MaxBlock, ProbeAnswers(i, b) PROVE Laggards'
  <2>1. check'[i].at # "lagging"
    BY <1>0, <1>4 DEF ProbeAnswers, NoCheck
  <2>2. ASSUME NEW k \in Checkers \ {i} PROVE LaggingInv(k)'
    BY <1>4, <2>2, AnswerGrows, BlocksGrow DEF LaggingInv, Wraps, LastOfName
  <2> QED BY <2>1, <2>2 DEF LaggingInv
<1>5. ASSUME NEW i \in Checkers, TaintForOtherReason(i) \/ RemoveTaint(i) PROVE Laggards'
  BY <1>1, <1>5 DEF TaintForOtherReason, RemoveTaint
<1>6. CASE UNCHANGED vars
  BY <1>1, <1>6 DEF vars
<1> QED BY <1>2, <1>3, <1>4, <1>5, <1>6 DEF Next, CheckStep

LEMMA LaggardsAlways == ASSUME Monotone PROVE Spec => []Laggards
<1>1. TypeOK /\ TypeOK' /\ Scans /\ Laggards /\ [Next]_vars => Laggards'
  BY NextLaggards
<1>2. Init => Laggards
  BY DEF Init, Laggards, LaggingInv, NoCheck
<1> QED BY <1>1, <1>2, ScansAlways, TypeCorrect, PTL DEF Spec

\* A lag taint is only put by StoreTaint, on the checker the scan found.
LEMMA LagSetByStore ==
  ASSUME TypeOK, [Next]_vars, NEW k \in Checkers, lag'[k], ~lag[k]
  PROVE  \E i \in Checkers :
           StoreTaint(i) /\ check[i].at = "lagging" /\ check[i].target = k
<1>0. lag \in [Checkers -> BOOLEAN]
  BY DEF TypeOK
<1>1. ASSUME NEW i \in Checkers, StoreTaint(i)
      PROVE  check[i].at = "lagging" /\ check[i].target = k
  BY <1>0, <1>1 DEF StoreTaint
<1>2. ASSUME NEW i \in Checkers,
             StartCheck(i) \/ ProbeFails(i) \/ (\E b \in 0..MaxBlock : ProbeAnswers(i, b))
             \/ Scan(i) \/ Decide(i) \/ TaintForOtherReason(i) \/ RemoveTaint(i)
      PROVE  FALSE
  BY <1>0, <1>2
  DEF StartCheck, ProbeFails, ProbeAnswers, Scan, Decide, TaintForOtherReason, RemoveTaint
<1>3. ~UNCHANGED vars
  BY DEF vars
<1> QED BY <1>1, <1>2, <1>3 DEF Next, CheckStep

(***************************************************************************)
(* Every lag taint was decided by a checker of the same provider that is   *)
(* behind, also when the clean-up before the taint is over, for any        *)
(* checkers, names repeated or not, if providers never go back; the        *)
(* exception is a sum that wraps around.                                   *)
(***************************************************************************)
THEOREM LagDecisionIsSound == ASSUME Monotone PROVE Spec => LagDecisionSound
<1> DEFINE Sound ==
      \A k \in Checkers :
        lag'[k] /\ ~lag[k] =>
          \E i \in Checkers :
            /\ check[i].at = "lagging" /\ check'[i].at = "idle"
            /\ checkers[i].Name = checkers[k].Name
            /\ Behind(i) \/ Wraps(i)
<1>1. ASSUME TypeOK, Laggards, [Next]_vars PROVE Sound
  <2> SUFFICES ASSUME NEW k \in Checkers, lag'[k], ~lag[k]
               PROVE  \E i \in Checkers :
                        /\ check[i].at = "lagging" /\ check'[i].at = "idle"
                        /\ checkers[i].Name = checkers[k].Name
                        /\ Behind(i) \/ Wraps(i)
    OBVIOUS
  <2>1. PICK i \in Checkers :
          StoreTaint(i) /\ check[i].at = "lagging" /\ check[i].target = k
    BY <1>1, LagSetByStore
  <2>2. check'[i].at = "idle"
    BY <1>1, <2>1 DEF StoreTaint, NoCheck, TypeOK
  <2>3. checkers[i].Name = checkers[k].Name /\ (Behind(i) \/ Wraps(i))
    BY <1>1, <2>1 DEF Laggards, LaggingInv
  <2> QED BY <2>1, <2>2, <2>3
<1>2. TypeOK /\ Laggards /\ [Next]_vars => [Sound]_vars
  BY <1>1
<1> QED BY <1>2, LaggardsAlways, TypeCorrect, PTL DEF Spec, LagDecisionSound

-----------------------------------------------------------------------------
(***************************************************************************)
(* A checker under a lag taint is idle, so its block number stays where it *)
(* was when the rule found it behind.                                      *)
(***************************************************************************)
LagInv(i) ==
  lag[i] => isTainted[i] /\ check[i].at = "idle" /\ (Behind(i) \/ Wraps(i))

Lags == \A i \in Checkers : LagInv(i)

LEMMA NextLags ==
  ASSUME Monotone, UniqueNames
  PROVE  TypeOK /\ TypeOK' /\ Laggards /\ Lags /\ [Next]_vars => Lags'
<1> SUFFICES ASSUME TypeOK, TypeOK', Laggards, Lags, [Next]_vars PROVE Lags'
  OBVIOUS
<1>0. /\ check \in [Checkers -> CheckType]
      /\ isTainted \in [Checkers -> BOOLEAN]
      /\ lag \in [Checkers -> BOOLEAN]
  BY DEF TypeOK
<1> USE DEF Lags, LagInv
<1>1. ASSUME NEW i \in Checkers, StartCheck(i) \/ ProbeFails(i) \/ Scan(i) \/ Decide(i)
      PROVE  Lags'
  <2>1. ~lag[i] /\ UNCHANGED <<block, isTainted, lag>>
    BY <1>1 DEF StartCheck, ProbeFails, Scan, Decide
  <2>2. \A k \in Checkers \ {i} : check'[k] = check[k]
    BY <1>0, <1>1 DEF StartCheck, ProbeFails, Scan, Decide
  <2> QED BY <2>1, <2>2 DEF Behind, Wraps
<1>2. ASSUME NEW i \in Checkers, NEW b \in 0..MaxBlock, ProbeAnswers(i, b) PROVE Lags'
  <2>1. ~lag[i] /\ UNCHANGED <<isTainted, lag>>
    BY <1>2 DEF ProbeAnswers
  <2>2. ASSUME NEW k \in Checkers \ {i} PROVE LagInv(k)'
    BY <1>2, <2>1, <2>2, AnswerGrows, BlocksGrow DEF Wraps
  <2> QED BY <2>1, <2>2
<1>3. ASSUME NEW i \in Checkers, StoreTaint(i) PROVE Lags'
  <2>1. check'[i].at = "idle" /\ \A k \in Checkers \ {i} : check'[k] = check[k]
    BY <1>0, <1>3 DEF StoreTaint, NoCheck
  <2>2. UNCHANGED block /\ \A k \in Checkers : isTainted[k] => isTainted'[k]
    BY <1>0, <1>3 DEF StoreTaint
  <2>3. ASSUME NEW k \in Checkers, lag'[k], ~lag[k]
        PROVE  k = i /\ isTainted'[k] /\ (Behind(i) \/ Wraps(i))
    <3>1. check[i].at = "lagging" /\ check[i].target = k /\ isTainted'[k]
      BY <1>0, <1>3, <2>3 DEF StoreTaint
    <3> QED BY <3>1 DEF UniqueNames, Laggards, LaggingInv
  <2> QED BY <2>1, <2>2, <2>3 DEF Behind, Wraps
<1>4. ASSUME NEW i \in Checkers, TaintForOtherReason(i) PROVE Lags'
  <2>1. UNCHANGED <<block, lag, check>> /\ \A k \in Checkers : isTainted[k] => isTainted'[k]
    BY <1>0, <1>4 DEF TaintForOtherReason
  <2> QED BY <2>1 DEF Behind, Wraps
<1>5. ASSUME NEW i \in Checkers, RemoveTaint(i) PROVE Lags'
  <2>1. /\ UNCHANGED <<block, check>>
        /\ ~lag'[i]
        /\ \A k \in Checkers \ {i} : isTainted'[k] = isTainted[k] /\ lag'[k] = lag[k]
    BY <1>0, <1>5 DEF RemoveTaint
  <2> QED BY <2>1 DEF Behind, Wraps
<1>6. CASE UNCHANGED vars
  BY <1>6 DEF vars, Behind, Wraps
<1> QED BY <1>1, <1>2, <1>3, <1>4, <1>5, <1>6 DEF Next, CheckStep

(***************************************************************************)
(* A lag taint that no fact explains needs a sum that wraps around: with   *)
(* one connection per name and providers that never go back, a checker     *)
(* under a lag taint is behind, or within the threshold of 2^64.           *)
(***************************************************************************)
THEOREM LagTaintIsExplained ==
  ASSUME Monotone, UniqueNames
  PROVE  Spec => [](\A i \in Checkers : lag[i] => Behind(i) \/ Wraps(i))
<1>1. TypeOK /\ TypeOK' /\ Laggards /\ Lags /\ [Next]_vars => Lags'
  BY NextLags
<1>2. Lags => \A i \in Checkers : lag[i] => Behind(i) \/ Wraps(i)
  BY DEF Lags, LagInv
<1>3. Init => Lags
  BY DEF Init, Lags, LagInv
<1> QED BY <1>1, <1>2, <1>3, LaggardsAlways, TypeCorrect, PTL DEF Spec

(***************************************************************************)
(* If in addition the sum does not wrap around, the lag rule only taints a *)
(* checker that is behind, although its scan is not atomic.                *)
(***************************************************************************)
THEOREM LagTaintIsJustified ==
  ASSUME Monotone, UniqueNames, NoOverflow
  PROVE  Spec => []LagTaintJustified
<1>1. TypeOK => \A i \in Checkers : ~Wraps(i)
  BY BlockAssumption DEF TypeOK, Wraps, NoOverflow
<1>2. TypeOK /\ (\A i \in Checkers : lag[i] => Behind(i) \/ Wraps(i)) => LagTaintJustified
  BY <1>1 DEF LagTaintJustified
<1> QED BY <1>2, LagTaintIsExplained, TypeCorrect, PTL

\* Some checker has the highest block number.
LEMMA HighestBlock ==
  ASSUME TypeOK, Checkers # {}
  PROVE  \E i \in Checkers : \A j \in Checkers : block[j] <= block[i]
<1> DEFINE T == {MaxBlock - block[i] : i \in Checkers}
           R == OpToRel(<, Nat)
<1>1. \A i \in Checkers : block[i] \in Int /\ MaxBlock - block[i] \in Nat
  BY BlockAssumption DEF TypeOK
<1>2. T \subseteq Nat /\ T # {}
  BY <1>1
<1>3. \E x \in T : \A y \in T : <<y, x>> \notin R
  <2> HIDE DEF T, R
  <2>1. IsWellFoundedOn(R, Nat)
    BY NatLessThanWellFounded DEF R
  <2> QED BY <1>2, <2>1, WFMin
<1>4. PICK i \in Checkers : \A y \in T : <<y, MaxBlock - block[i]>> \notin R
  BY <1>3
<1>5. ASSUME NEW j \in Checkers PROVE block[j] <= block[i]
  <2>1. ~ (MaxBlock - block[j] < MaxBlock - block[i])
    BY <1>1, <1>4 DEF OpToRel
  <2> QED BY ONLY <1>1, <2>1, BlockAssumption, i \in Checkers, j \in Checkers
<1> QED BY <1>5

-----------------------------------------------------------------------------
(***************************************************************************)
(* The rule finds the last checker of a provider, so a lag taint is never  *)
(* on another one, for example the HTTP checker of a provider that also    *)
(* has a WebSocket checker.                                                *)
(***************************************************************************)
LagOnLast == \A k \in Checkers : lag[k] => LastOfName(k)

LEMMA NextLagOnLast == TypeOK /\ Laggards /\ LagOnLast /\ [Next]_vars => LagOnLast'
<1> SUFFICES ASSUME TypeOK, Laggards, LagOnLast, [Next]_vars, NEW k \in Checkers, lag'[k]
             PROVE  LastOfName(k)
  BY DEF LagOnLast, LastOfName
<1>1. CASE lag[k]
  BY <1>1 DEF LagOnLast
<1>2. CASE ~lag[k]
  BY <1>2, LagSetByStore DEF Laggards, LaggingInv
<1> QED BY <1>1, <1>2

(***************************************************************************)
(* The lag rule never takes every checker of a path out, if providers      *)
(* never go back and the sum does not wrap around.  Names may repeat: the  *)
(* first checker of a repeated name is spared, and if no name repeats, the *)
(* checker with the highest block number, which is not behind.             *)
(***************************************************************************)
THEOREM LagAlwaysSparesOne ==
  ASSUME Monotone, NoOverflow
  PROVE  Spec => []LagSparesOne
<1>1. CASE UniqueNames
  <2>1. TypeOK /\ LagTaintJustified => LagSparesOne
    <3> SUFFICES ASSUME TypeOK, LagTaintJustified, Checkers # {}
                 PROVE  \E i \in Checkers : ~lag[i]
      BY DEF LagSparesOne
    <3>1. PICK i \in Checkers : \A j \in Checkers : block[j] <= block[i]
      BY HighestBlock
    <3>2. \A j \in Checkers : block[j] \in Nat
      BY BlockAssumption DEF TypeOK
    <3>3. ~Behind(i)
      BY <3>1, <3>2, BlockAssumption DEF Behind
    <3> QED BY <3>3 DEF LagTaintJustified
  <2>2. Spec => []LagTaintJustified
    BY <1>1, LagTaintIsJustified
  <2> QED BY <2>1, <2>2, TypeCorrect, PTL
<1>2. CASE ~UniqueNames
  <2>1. LagOnLast => LagSparesOne
    <3>1. PICK i, j \in Checkers : checkers[i].Name = checkers[j].Name /\ i # j
      BY <1>2 DEF UniqueNames
    <3>2. i \in Int /\ j \in Int
      BY CheckersFacts
    <3>3. ~LastOfName(i) \/ ~LastOfName(j)
      <4> SUFFICES ASSUME LastOfName(i), LastOfName(j) PROVE FALSE
        OBVIOUS
      <4>1. i <= j /\ j <= i
        BY <3>1 DEF LastOfName
      <4> QED BY ONLY <3>1, <3>2, <4>1
    <3> QED BY <3>3 DEF LagOnLast, LagSparesOne
  <2>2. Init => LagOnLast
    BY DEF Init, LagOnLast
  <2>3. Spec => []LagOnLast
    BY <2>2, NextLagOnLast, LaggardsAlways, TypeCorrect, PTL DEF Spec
  <2> QED BY <2>1, <2>3, PTL
<1> QED BY <1>1, <1>2

=============================================================================
