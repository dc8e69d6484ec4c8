------------------------- MODULE HealthCheckerProofs -------------------------
(***************************************************************************)
(* Proofs about HealthChecker, for any number of callers and timers and    *)
(* any two taint configurations that satisfy TaintConfigAssumption.        *)
(***************************************************************************)
EXTENDS HealthChecker, TLAPS

\* The bounds of a taint configuration, one at a time.
LEMMA TaintConfigFacts ==
  ASSUME NEW c \in TaintConfigs
  PROVE  /\ c.InitialWaitTime \in Nat \ {0}
         /\ c.MaxWaitTime \in Nat
         /\ c.ResetWaitDuration \in Nat
         /\ c.InitialWaitTime <= c.MaxWaitTime
  BY TaintConfigAssumption DEF TaintConfigType

\* The wait Taint computes stays within the bounds of the two configurations.
LEMMA NextWaitBounds ==
  ASSUME TypeOK, BackoffBounded, NEW cfg \in TaintConfigs
  PROVE  /\ NextWait(cfg) \in Nat
         /\ \E c \in TaintConfigs : c.InitialWaitTime <= NextWait(cfg)
         /\ \E c \in TaintConfigs : NextWait(cfg) <= c.MaxWaitTime
<1>1. PICK c \in TaintConfigs : c.InitialWaitTime <= waitTime
  BY DEF BackoffBounded
<1>2. waitTime \in Nat
  BY DEF TypeOK
<1>3. CASE sinceRemoval <= cfg.ResetWaitDuration
  <2>1. NextWait(cfg) = MinOf(waitTime * 2, cfg.MaxWaitTime)
    BY <1>3 DEF NextWait
  <2>2. CASE waitTime * 2 <= cfg.MaxWaitTime
    BY <1>1, <1>2, <2>1, <2>2, TaintConfigFacts DEF MinOf
  <2>3. CASE ~(waitTime * 2 <= cfg.MaxWaitTime)
    BY <1>2, <2>1, <2>3, TaintConfigFacts DEF MinOf
  <2> QED BY <2>2, <2>3
<1>4. CASE ~(sinceRemoval <= cfg.ResetWaitDuration)
  BY <1>4, TaintConfigFacts DEF NextWait
<1> QED BY <1>3, <1>4

LEMMA NextWaitNat ==
  ASSUME TypeOK, NEW cfg \in TaintConfigs
  PROVE  NextWait(cfg) \in Nat
  BY TaintConfigFacts DEF NextWait, MinOf, TypeOK

LEMMA CallTypes ==
  /\ NotInTaint \in CallType
  /\ \A c \in CallType : c.cfg \in TaintConfigs
  BY DEF NotInTaint, CallType, TaintConfigs

\* What Stop on a time.Timer leaves of the timers.
LEMMA StoppedTypes ==
  ASSUME TypeOK, NEW tm
  PROVE  /\ Stopped(tm) \in [Timers -> TimerStates]
         /\ LeftOnceStopped(tm) \in [Timers -> Nat]
  BY DEF Stopped, LeftOnceStopped, TypeOK, TimerStates

-----------------------------------------------------------------------------
(* Type correctness *)

LEMMA InitTypeOK == Init => TypeOK
<1>1. healthCheckTaintConfig.InitialWaitTime \in Nat
  BY TaintConfigFacts DEF TaintConfigs
<1>2. Forget \in 0..Forget
  BY ForgetAssumption
<1> SUFFICES ASSUME Init PROVE TypeOK
  OBVIOUS
<1>3. timer \in [Timers -> TimerStates] /\ left \in [Timers -> Nat]
  BY DEF Init, TimerStates
<1>4. call \in [Threads -> CallType]
  BY CallTypes DEF Init
<1>5. ethCallCheckCounter \in 0..1
  BY DEF Init
<1> QED
  BY <1>1, <1>2, <1>3, <1>4, <1>5 DEF Init, TypeOK, LoopStates

LEMMA CallTaintType ==
  ASSUME TypeOK, NEW t \in Threads, NEW cfg \in TaintConfigs, CallTaint(t, cfg)
  PROVE  call' \in [Threads -> CallType]
  BY DEF CallTaint, TypeOK, CallType

LEMMA NextTypeOK == TypeOK /\ [Next]_vars => TypeOK'
<1> SUFFICES ASSUME TypeOK, [Next]_vars PROVE TypeOK'
  OBVIOUS
<1> USE DEF TypeOK, taintState, timerState
<1>1. ASSUME NEW t \in Callers, NEW cfg \in TaintConfigs, TaintByCaller(t, cfg)
      PROVE  TypeOK'
  BY <1>1, CallTaintType DEF TaintByCaller, Threads
<1>2. ASSUME NEW t \in Threads, TaintCleanup(t) PROVE TypeOK'
  BY <1>2 DEF TaintCleanup, CallType
<1>3. ASSUME NEW t \in Threads, TaintStore(t) PROVE TypeOK'
  BY <1>3 DEF TaintStore, CallType
<1>4. ASSUME NEW t \in Threads, TaintArm(t) PROVE TypeOK'
  <2>1. call[t].cfg \in TaintConfigs
    BY CallTypes
  <2>2. NextWait(call[t].cfg) \in Nat
    BY <2>1, NextWaitNat
  <2>3. PICK tm \in Timers :
          /\ timer' = [Stopped(removalTimer) EXCEPT ![tm] = "pending"]
          /\ left' = [LeftOnceStopped(removalTimer) EXCEPT ![tm] = NextWait(call[t].cfg)]
          /\ removalTimer' = tm
    BY <1>4 DEF TaintArm
  <2>4. timer' \in [Timers -> TimerStates] /\ left' \in [Timers -> Nat]
    BY <2>2, <2>3, StoppedTypes DEF TimerStates
  <2>5. call' \in [Threads -> CallType]
    BY <1>4, CallTypes DEF TaintArm
  <2>6. sinceRemoval' \in 0..Forget
    BY <1>4, ForgetAssumption DEF TaintArm
  <2> QED BY <1>4, <2>2, <2>3, <2>4, <2>5, <2>6 DEF TaintArm
<1>5. ASSUME NEW tm \in Timers, Fire(tm) \/ Callback(tm) PROVE TypeOK'
  <2>1. timer' \in [Timers -> TimerStates]
    BY <1>5
    DEF Fire, Callback, RemoveTaintStore, RemoveTaintRecord, SignalRemoval, TimerStates
  <2>2. sinceRemoval' \in 0..Forget
    BY <1>5, ForgetAssumption
    DEF Fire, Callback, RemoveTaintStore, RemoveTaintRecord, SignalRemoval
  <2> QED
    BY <1>5, <2>1, <2>2
    DEF Fire, Callback, RemoveTaintStore, RemoveTaintRecord, SignalRemoval
<1>6. CASE LoopStep
  <2>1. CASE BlockNumberTaints
    BY <2>1, CallTaintType DEF BlockNumberTaints, LoopStates, TaintConfigs, Threads
  <2>2. CASE EthCallTaints
    BY <2>2, CallTaintType DEF EthCallTaints, LoopStates, TaintConfigs, Threads
  <2>3. CASE CleanupTimer
    <3>1. timer' \in [Timers -> TimerStates] /\ left' \in [Timers -> Nat]
      BY <2>3, StoppedTypes DEF CleanupTimer
    <3>2. cancelled' \in BOOLEAN
      BY <2>3 DEF CleanupTimer
    <3> QED BY <2>3, <3>1, <3>2 DEF CleanupTimer
  <2>4. CASE AfterBlockNumber
    BY <2>4 DEF AfterBlockNumber, LoopStates
  <2>5. CASE CheckAndSetHealth \/ BlockNumberOk \/ LagTaintsSibling \/ SiblingTainted
             \/ EthCallOk \/ LoopExit
    BY <2>5
    DEF CheckAndSetHealth, BlockNumberOk, LagTaintsSibling, SiblingTainted, EthCallOk,
        LoopExit, LoopStates
  <2> QED BY <1>6, <2>1, <2>2, <2>3, <2>4, <2>5 DEF LoopStep
<1>7. CASE CancelContext \/ Stop
  BY <1>7 DEF CancelContext, Stop
<1>8. CASE Tick
  <2>1. sinceRemoval' \in 0..Forget
    BY <1>8, ForgetAssumption DEF Tick, MinOf
  <2>2. left' \in [Timers -> Nat]
    BY <1>8 DEF Tick
  <2> QED BY <1>8, <2>1, <2>2 DEF Tick
<1>9. CASE UNCHANGED vars
  BY <1>9 DEF vars
<1> QED
  BY <1>1, <1>2, <1>3, <1>4, <1>5, <1>6, <1>7, <1>8, <1>9 DEF Next, TaintStep

(***************************************************************************)
(* Every reachable state of a health checker is well typed.                *)
(***************************************************************************)
THEOREM TypeCorrect == Spec => []TypeOK
  BY InitTypeOK, NextTypeOK, PTL DEF Spec

-----------------------------------------------------------------------------
(***************************************************************************)
(* Safety: each invariant is inductive relative to TypeOK.  The steps that *)
(* touch neither the timers, nor h.taint, nor the flag are dealt with once.*)
(***************************************************************************)
QuietStep ==
  /\ UNCHANGED <<isTainted, sinceRemoval, waitTime, removalTimer, timer, left, cancelled>>
  /\ Arming => Arming'

\* A call of Taint that begins, or is past its cleanup, disturbs no call at arm.
LEMMA CallTaintQuiet ==
  ASSUME TypeOK, NEW t \in Threads, Idle(t), NEW cfg \in TaintConfigs, CallTaint(t, cfg)
  PROVE  Arming => Arming'
<1>1. call \in [Threads -> CallType]
  BY DEF TypeOK
<1> QED BY <1>1 DEF Arming, Idle, CallTaint, CallType

\* Every step is quiet or one of those the invariants depend on.
LEMMA StepCases ==
  ASSUME TypeOK, [Next]_vars
  PROVE  \/ QuietStep
         \/ \E t \in Threads : TaintStore(t) \/ TaintArm(t)
         \/ \E tm \in Timers : Fire(tm) \/ Callback(tm)
         \/ CleanupTimer
         \/ Tick
<1> USE DEF QuietStep, taintState, timerState
<1>1. ASSUME NEW t \in Callers, NEW cfg \in TaintConfigs, TaintByCaller(t, cfg)
      PROVE  QuietStep
  BY <1>1, CallTaintQuiet DEF TaintByCaller, Threads
<1>2. ASSUME NEW t \in Threads, TaintCleanup(t) PROVE QuietStep
  <2>1. call \in [Threads -> CallType]
    BY DEF TypeOK
  <2>2. Arming => Arming'
    BY <1>2, <2>1 DEF TaintCleanup, Arming, CallType
  <2> QED BY <1>2, <2>2 DEF TaintCleanup
<1>3. CASE LoopStep /\ ~CleanupTimer
  <2>1. CASE BlockNumberTaints \/ EthCallTaints
    BY <2>1, CallTaintQuiet
    DEF BlockNumberTaints, EthCallTaints, LoopAt, Threads, TaintConfigs
  <2>2. CASE CheckAndSetHealth \/ BlockNumberOk \/ LagTaintsSibling \/ SiblingTainted
             \/ AfterBlockNumber \/ EthCallOk \/ LoopExit
    BY <2>2
    DEF CheckAndSetHealth, BlockNumberOk, LagTaintsSibling, SiblingTainted,
        AfterBlockNumber, EthCallOk, LoopExit, Arming
  <2> QED BY <1>3, <2>1, <2>2 DEF LoopStep
<1>4. CASE CancelContext \/ Stop
  BY <1>4 DEF CancelContext, Stop, Arming
<1>5. CASE UNCHANGED vars
  BY <1>5 DEF vars, Arming
<1> QED
  BY <1>1, <1>2, <1>3, <1>4, <1>5 DEF Next, TaintStep

-----------------------------------------------------------------------------
LEMMA TrackedTimerLiveStep ==
  TypeOK /\ TrackedTimerLive /\ [Next]_vars => TrackedTimerLive'
<1> SUFFICES ASSUME TypeOK, TrackedTimerLive, [Next]_vars PROVE TrackedTimerLive'
  OBVIOUS
<1>0. /\ timer \in [Timers -> TimerStates]
      /\ removalTimer \in Timers \cup {NoTimer}
      /\ NoTimer \notin Timers
  BY TimerAssumption DEF TypeOK
<1>1. CASE QuietStep
  BY <1>1 DEF QuietStep, TrackedTimerLive
<1>2. ASSUME NEW t \in Threads, TaintStore(t) PROVE TrackedTimerLive'
  BY <1>2 DEF TaintStore, TrackedTimerLive, taintState, timerState
<1>3. ASSUME NEW t \in Threads, TaintArm(t) PROVE TrackedTimerLive'
  BY <1>3, StoppedTypes DEF TaintArm, TrackedTimerLive
<1>4. ASSUME NEW tm \in Timers, Fire(tm) \/ Callback(tm) PROVE TrackedTimerLive'
  BY <1>0, <1>4
  DEF Fire, Callback, RemoveTaintStore, RemoveTaintRecord, SignalRemoval,
      TrackedTimerLive, taintState
<1>5. CASE CleanupTimer
  BY <1>5 DEF CleanupTimer, TrackedTimerLive
<1>6. CASE Tick
  BY <1>6 DEF Tick, TrackedTimerLive
<1> QED BY <1>1, <1>2, <1>3, <1>4, <1>5, <1>6, StepCases

(***************************************************************************)
(* removalTimer points at a live timer, for any number of goroutines that  *)
(* taint and any number of stale callbacks.                                *)
(***************************************************************************)
THEOREM TrackedTimerIsLive == Spec => []TrackedTimerLive
<1>1. Init => TrackedTimerLive
  BY DEF Init, TrackedTimerLive
<1> QED BY <1>1, TrackedTimerLiveStep, TypeCorrect, PTL DEF Spec

-----------------------------------------------------------------------------
LEMMA LostRemovalStep ==
  TypeOK /\ LostRemovalOnlyByCleanup /\ [Next]_vars => LostRemovalOnlyByCleanup'
<1> SUFFICES ASSUME TypeOK, LostRemovalOnlyByCleanup, [Next]_vars
             PROVE  LostRemovalOnlyByCleanup'
  OBVIOUS
<1>0. /\ timer \in [Timers -> TimerStates]
      /\ call \in [Threads -> CallType]
      /\ removalTimer \in Timers \cup {NoTimer}
  BY DEF TypeOK
<1> USE DEF LostRemovalOnlyByCleanup
<1>1. CASE QuietStep
  BY <1>1 DEF QuietStep, RemovalDue
<1>2. ASSUME NEW t \in Threads, TaintStore(t) PROVE LostRemovalOnlyByCleanup'
  <2>1. call'[t].at = "arm"
    BY <1>0, <1>2 DEF TaintStore, CallType
  <2> QED BY <2>1 DEF Arming
<1>3. ASSUME NEW t \in Threads, TaintArm(t) PROVE LostRemovalOnlyByCleanup'
  <2>1. PICK tm \in Timers : timer' = [Stopped(removalTimer) EXCEPT ![tm] = "pending"]
    BY <1>3 DEF TaintArm
  <2>2. timer'[tm] = "pending"
    BY <2>1, StoppedTypes
  <2> QED BY <2>2 DEF RemovalDue
<1>4. ASSUME NEW tm \in Timers, Fire(tm) PROVE LostRemovalOnlyByCleanup'
  <2>1. timer'[tm] = "fired"
    BY <1>0, <1>4 DEF Fire
  <2> QED BY <2>1 DEF RemovalDue
<1>5. ASSUME NEW tm \in Timers, RemoveTaintStore(tm) PROVE LostRemovalOnlyByCleanup'
  BY <1>5 DEF RemoveTaintStore
<1>6. ASSUME NEW tm \in Timers, RemoveTaintRecord(tm) \/ SignalRemoval(tm)
      PROVE  LostRemovalOnlyByCleanup'
  <2>1. UNCHANGED <<isTainted, call, cancelled>>
    BY <1>6 DEF RemoveTaintRecord, SignalRemoval
  <2>2. RemovalDue => RemovalDue'
    BY <1>0, <1>6 DEF RemoveTaintRecord, SignalRemoval, RemovalDue
  <2> QED BY <2>1, <2>2 DEF Arming
<1>7. CASE CleanupTimer
  <2>1. UNCHANGED <<isTainted, call>>
    BY <1>7 DEF CleanupTimer
  <2>2. cancelled' = (cancelled \/ timer' # timer)
    BY <1>7 DEF CleanupTimer
  <2>3. cancelled' \/ (timer' = timer /\ (cancelled => cancelled'))
    BY ONLY <2>2
  <2>4. Arming' = Arming /\ (timer' = timer => RemovalDue' = RemovalDue)
    BY <2>1 DEF Arming, RemovalDue
  <2> QED BY <2>1, <2>3, <2>4
<1>8. CASE Tick
  BY <1>8 DEF Tick, RemovalDue, Arming
<1> QED BY <1>1, <1>2, <1>3, <1>4, <1>5, <1>6, <1>7, <1>8, StepCases DEF Callback

(***************************************************************************)
(* A taint nothing will lift exists only after the run loop stopped a      *)
(* pending removal timer.                                                  *)
(***************************************************************************)
THEOREM LostRemovalNeedsCleanup == Spec => []LostRemovalOnlyByCleanup
<1>1. Init => LostRemovalOnlyByCleanup
  BY DEF Init, LostRemovalOnlyByCleanup
<1> QED BY <1>1, LostRemovalStep, TypeCorrect, PTL DEF Spec

-----------------------------------------------------------------------------
LEMMA TrackedDeadlineStep ==
  TypeOK /\ TrackedDeadline /\ [Next]_vars => TrackedDeadline'
<1> SUFFICES ASSUME TypeOK, TrackedDeadline, [Next]_vars PROVE TrackedDeadline'
  OBVIOUS
<1>0. /\ timer \in [Timers -> TimerStates]
      /\ left \in [Timers -> Nat]
      /\ call \in [Threads -> CallType]
      /\ removalTimer \in Timers \cup {NoTimer}
      /\ NoTimer \notin Timers
      /\ sinceRemoval \in Nat
      /\ waitTime \in Nat
      /\ Forget \in Nat
  BY TimerAssumption, ForgetAssumption DEF TypeOK
<1> USE DEF TrackedDeadline
<1>1. CASE QuietStep
  BY <1>1 DEF QuietStep
<1>2. ASSUME NEW t \in Threads, TaintStore(t) PROVE TrackedDeadline'
  BY <1>2 DEF TaintStore, taintState, timerState
<1>3. ASSUME NEW t \in Threads, TaintArm(t) PROVE TrackedDeadline'
  <2>1. NextWait(call[t].cfg) \in Nat
    BY <1>0, CallTypes, NextWaitNat
  <2>2. PICK tm \in Timers :
          /\ left' = [LeftOnceStopped(removalTimer) EXCEPT ![tm] = NextWait(call[t].cfg)]
          /\ removalTimer' = tm
    BY <1>3 DEF TaintArm
  <2>3. left'[tm] = NextWait(call[t].cfg)
    BY <2>2, StoppedTypes
  <2>4. waitTime' = NextWait(call[t].cfg) /\ sinceRemoval' = 0
    BY <1>3 DEF TaintArm
  <2> QED BY <2>1, <2>2, <2>3, <2>4
<1>4. ASSUME NEW tm \in Timers, Fire(tm) \/ RemoveTaintStore(tm) \/ SignalRemoval(tm)
      PROVE  TrackedDeadline'
  <2>1. UNCHANGED <<sinceRemoval, waitTime, removalTimer, left>>
    BY <1>4 DEF Fire, RemoveTaintStore, SignalRemoval, taintState
  <2>2. \A x \in Timers : timer'[x] = "pending" => timer[x] = "pending"
    BY <1>0, <1>4 DEF Fire, RemoveTaintStore, SignalRemoval
  <2> QED BY <1>0, <2>1, <2>2
<1>5. ASSUME NEW tm \in Timers, RemoveTaintRecord(tm) PROVE TrackedDeadline'
  BY <1>5 DEF RemoveTaintRecord
<1>6. CASE CleanupTimer
  BY <1>6 DEF CleanupTimer
<1>7. CASE Tick
  <2>1. UNCHANGED <<waitTime, removalTimer, timer>>
    BY <1>7 DEF Tick
  <2>2. SUFFICES ASSUME removalTimer \in Timers,
                        timer[removalTimer] = "pending",
                        sinceRemoval' < Forget
                 PROVE  left'[removalTimer] =
                          IF sinceRemoval' <= waitTime THEN waitTime - sinceRemoval' ELSE 0
    BY <1>0, <2>1
  <2>3. sinceRemoval' = sinceRemoval + 1 /\ sinceRemoval < Forget
    BY <1>0, <1>7, <2>2 DEF Tick, MinOf
  <2>4. left'[removalTimer] =
          IF left[removalTimer] > 0 THEN left[removalTimer] - 1 ELSE left[removalTimer]
    BY <1>7, <2>2 DEF Tick
  <2>5. left[removalTimer] =
          IF sinceRemoval <= waitTime THEN waitTime - sinceRemoval ELSE 0
    BY <1>0, <2>2, <2>3
  <2> QED BY <1>0, <2>3, <2>4, <2>5
<1> QED BY <1>1, <1>2, <1>3, <1>4, <1>5, <1>6, <1>7, StepCases DEF Callback

(***************************************************************************)
(* The tracked timer is due exactly when waitTime has passed since the     *)
(* time recorded in lastRemoval.                                           *)
(***************************************************************************)
THEOREM TrackedDeadlineExact == Spec => []TrackedDeadline
<1>1. Init => TrackedDeadline
  BY DEF Init, TrackedDeadline
<1> QED BY <1>1, TrackedDeadlineStep, TypeCorrect, PTL DEF Spec

-----------------------------------------------------------------------------
LEMMA BackoffBoundedStep ==
  TypeOK /\ BackoffBounded /\ [Next]_vars => BackoffBounded'
<1> SUFFICES ASSUME TypeOK, BackoffBounded, [Next]_vars PROVE BackoffBounded'
  OBVIOUS
<1>1. CASE UNCHANGED waitTime
  BY <1>1 DEF BackoffBounded
<1>2. ASSUME NEW t \in Threads, TaintArm(t) PROVE BackoffBounded'
  <2>1. call[t].cfg \in TaintConfigs
    BY CallTypes DEF TypeOK
  <2>2. waitTime' = NextWait(call[t].cfg)
    BY <1>2 DEF TaintArm
  <2> QED BY <2>1, <2>2, NextWaitBounds DEF BackoffBounded
<1>3. ASSUME NEW t \in Threads, TaintStore(t) PROVE UNCHANGED waitTime
  BY <1>3 DEF TaintStore, taintState
<1>4. ASSUME NEW tm \in Timers, Fire(tm) \/ Callback(tm) PROVE UNCHANGED waitTime
  BY <1>4
  DEF Fire, Callback, RemoveTaintStore, RemoveTaintRecord, SignalRemoval, taintState
<1>5. CASE QuietStep \/ CleanupTimer \/ Tick
  BY <1>1, <1>5 DEF QuietStep, CleanupTimer, Tick
<1> QED BY <1>1, <1>2, <1>3, <1>4, <1>5, StepCases

(***************************************************************************)
(* However the two configurations alternate, the backoff stays between the *)
(* smaller InitialWaitTime and the larger MaxWaitTime.                     *)
(***************************************************************************)
THEOREM BackoffStaysBounded == Spec => []BackoffBounded
<1>1. Init => BackoffBounded
  BY TaintConfigFacts DEF Init, BackoffBounded, TaintConfigs
<1> QED BY <1>1, BackoffBoundedStep, TypeCorrect, PTL DEF Spec

-----------------------------------------------------------------------------
(***************************************************************************)
(* The checker implements TaintLatch.  What the latch sees of a checker:   *)
(***************************************************************************)
Owing == {t \in Threads : call[t].at = "arm"}

Due == {tm \in Timers : timer[tm] \in {"pending", "fired"}}

Noticing == {tm \in Timers : timer[tm] \in {"removing", "signalling"}}

LatchStutters == UNCHANGED <<isTainted, Owing, timer, taintRemoveCh, cancelled>>

LEMMA LatchSame == LatchStutters => UNCHANGED Latch!vars
  BY DEF LatchStutters, Owing, Latch!vars

\* A call of Taint that has not stored the flag owes nothing.
LEMMA CallTaintOwes ==
  ASSUME TypeOK, NEW t \in Threads, Idle(t), NEW cfg \in TaintConfigs, CallTaint(t, cfg)
  PROVE  Owing' = Owing
<1>1. call \in [Threads -> CallType]
  BY DEF TypeOK
<1> QED BY <1>1 DEF Owing, Idle, CallTaint, CallType

LEMMA StoreRaises ==
  ASSUME TypeOK, NEW t \in Threads, TaintStore(t)
  PROVE  Latch!Raise(t)
<1>1. call \in [Threads -> CallType]
  BY DEF TypeOK
<1>2. t \notin Owing /\ Owing' = Owing \cup {t}
  BY <1>1 DEF TaintStore, Owing, CallType
<1>3. isTainted' = TRUE /\ UNCHANGED <<timer, taintRemoveCh, cancelled>>
  BY DEF TaintStore, timerState
<1> QED BY <1>2, <1>3 DEF Latch!Raise, Owing

\* Stopping the recorded timer drops one removal at most.
LEMMA StoppedDrops ==
  ASSUME TypeOK
  PROVE  \E gone \in Latch!AtMostOne :
           /\ {tm \in Timers : Stopped(removalTimer)[tm] \in {"pending", "fired"}} = Due \ gone
           /\ {tm \in Timers : Stopped(removalTimer)[tm] \in {"removing", "signalling"}} = Noticing
           /\ (gone # {}) <=> (Stopped(removalTimer) # timer)
<1>0. timer \in [Timers -> TimerStates] /\ removalTimer \in Timers \cup {NoTimer}
  BY DEF TypeOK
<1>1. CASE removalTimer # NoTimer /\ timer[removalTimer] = "pending"
  <2>1. removalTimer \in Timers
    BY <1>0, <1>1
  <2>2. Stopped(removalTimer) = [timer EXCEPT ![removalTimer] = "free"]
    BY <1>1 DEF Stopped
  <2>3. {removalTimer} \in Latch!AtMostOne
    BY <1>1, <2>1 DEF Latch!AtMostOne
  <2>4. Stopped(removalTimer)[removalTimer] = "free"
    BY <1>0, <2>1, <2>2
  <2>5. \A tm \in Timers : tm # removalTimer => Stopped(removalTimer)[tm] = timer[tm]
    BY <1>0, <2>2
  <2> QED BY <1>1, <2>1, <2>3, <2>4, <2>5 DEF Due, Noticing
<1>2. CASE ~(removalTimer # NoTimer /\ timer[removalTimer] = "pending")
  <2>1. Stopped(removalTimer) = timer
    BY <1>2 DEF Stopped
  <2>2. {} \in Latch!AtMostOne
    BY DEF Latch!AtMostOne
  <2> QED BY <2>1, <2>2 DEF Due, Noticing
<1> QED BY <1>1, <1>2

LEMMA ArmArranges ==
  ASSUME TypeOK, NEW t \in Threads, TaintArm(t)
  PROVE  \E x \in Timers, replaced \in Latch!AtMostOne : Latch!Arrange(t, x, replaced)
<1>0. /\ call \in [Threads -> CallType]
      /\ Stopped(removalTimer) \in [Timers -> TimerStates]
  BY StoppedTypes DEF TypeOK
<1>1. t \in Owing /\ Owing' = Owing \ {t}
  BY <1>0 DEF TaintArm, Owing, NotInTaint
<1>2. PICK x \in Timers :
        /\ Stopped(removalTimer)[x] = "free"
        /\ timer' = [Stopped(removalTimer) EXCEPT ![x] = "pending"]
  BY DEF TaintArm
<1>3. PICK gone \in Latch!AtMostOne :
        /\ {tm \in Timers : Stopped(removalTimer)[tm] \in {"pending", "fired"}} = Due \ gone
        /\ {tm \in Timers : Stopped(removalTimer)[tm] \in {"removing", "signalling"}} = Noticing
  BY StoppedDrops
<1>4. timer'[x] = "pending"
      /\ \A tm \in Timers : tm # x => timer'[tm] = Stopped(removalTimer)[tm]
  BY <1>0, <1>2
<1>5. Due' = (Due \ gone) \cup {x}
  BY <1>3, <1>4 DEF Due
<1>6. Noticing' = Noticing
  BY <1>2, <1>3, <1>4 DEF Noticing
<1>7. x \notin (Due \ gone) \cup Noticing
  BY <1>2, <1>3
<1>8. UNCHANGED <<isTainted, taintRemoveCh, cancelled>>
  BY DEF TaintArm
<1>9. Latch!Arrange(t, x, gone)
  BY <1>1, <1>5, <1>6, <1>7, <1>8 DEF Latch!Arrange, Owing, Due, Noticing
<1> QED BY <1>9

LEMMA CallbackLatch ==
  ASSUME TypeOK, NEW tm \in Timers
  PROVE  /\ Fire(tm) \/ RemoveTaintRecord(tm) => UNCHANGED Latch!vars
         /\ RemoveTaintStore(tm) => Latch!CarryOut(tm)
         /\ SignalRemoval(tm) => Latch!Notify(tm)
<1>0. timer \in [Timers -> TimerStates]
  BY DEF TypeOK
<1>1. ASSUME Fire(tm) \/ RemoveTaintRecord(tm) PROVE UNCHANGED Latch!vars
  <2>1. Due' = Due /\ Noticing' = Noticing
    BY <1>0, <1>1 DEF Fire, RemoveTaintRecord, Due, Noticing
  <2>2. UNCHANGED <<isTainted, call, taintRemoveCh, cancelled>>
    BY <1>1 DEF Fire, RemoveTaintRecord
  <2> QED BY <2>1, <2>2 DEF Latch!vars, Due, Noticing
<1>2. ASSUME RemoveTaintStore(tm) PROVE Latch!CarryOut(tm)
  <2>1. tm \in Due /\ Due' = Due \ {tm} /\ Noticing' = Noticing \cup {tm}
    BY <1>0, <1>2 DEF RemoveTaintStore, Due, Noticing
  <2>2. isTainted' = FALSE /\ cancelled' = FALSE /\ UNCHANGED <<call, taintRemoveCh>>
    BY <1>2 DEF RemoveTaintStore
  <2> QED BY <2>1, <2>2 DEF Latch!CarryOut, Due, Noticing
<1>3. ASSUME SignalRemoval(tm) PROVE Latch!Notify(tm)
  <2>1. tm \in Noticing /\ Due' = Due /\ Noticing' = Noticing \ {tm}
    BY <1>0, <1>3 DEF SignalRemoval, Due, Noticing
  <2>2. taintRemoveCh' = TRUE /\ UNCHANGED <<isTainted, call, cancelled>>
    BY <1>3 DEF SignalRemoval
  <2> QED BY <2>1, <2>2 DEF Latch!Notify, Due, Noticing
<1> QED BY <1>1, <1>2, <1>3

LEMMA CleanupConsumes ==
  ASSUME TypeOK, CleanupTimer
  PROVE  \E dropped \in Latch!AtMostOne : Latch!Consume(dropped)
<1>1. PICK gone \in Latch!AtMostOne :
        /\ {tm \in Timers : Stopped(removalTimer)[tm] \in {"pending", "fired"}} = Due \ gone
        /\ {tm \in Timers : Stopped(removalTimer)[tm] \in {"removing", "signalling"}} = Noticing
        /\ (gone # {}) <=> (Stopped(removalTimer) # timer)
  BY StoppedDrops
<1>2. timer' = Stopped(removalTimer) /\ taintRemoveCh /\ taintRemoveCh' = FALSE
      /\ UNCHANGED <<isTainted, call>>
  BY DEF CleanupTimer
<1>3. cancelled' = (cancelled \/ gone # {})
  BY <1>1 DEF CleanupTimer
<1>4. Due' = Due \ gone /\ Noticing' = Noticing
  BY <1>1, <1>2 DEF Due, Noticing
<1>5. Latch!Consume(gone)
  BY <1>2, <1>3, <1>4 DEF Latch!Consume, Due, Noticing
<1> QED BY <1>5

LEMMA LatchStep ==
  TypeOK /\ [Next]_vars => [Latch!Next]_(Latch!vars)
<1> SUFFICES ASSUME TypeOK, [Next]_vars PROVE [Latch!Next]_(Latch!vars)
  OBVIOUS
<1>1. ASSUME NEW t \in Callers, NEW cfg \in TaintConfigs, TaintByCaller(t, cfg)
      PROVE  LatchStutters
  <2>1. Owing' = Owing
    BY <1>1, CallTaintOwes DEF TaintByCaller, Threads
  <2> QED BY <1>1, <2>1 DEF TaintByCaller, LatchStutters, timerState
<1>2. ASSUME NEW t \in Threads, TaintCleanup(t) PROVE LatchStutters
  <2>1. call \in [Threads -> CallType]
    BY DEF TypeOK
  <2>2. Owing' = Owing
    BY <1>2, <2>1 DEF TaintCleanup, Owing, CallType
  <2> QED BY <1>2, <2>2 DEF TaintCleanup, LatchStutters, timerState
<1>3. CASE BlockNumberTaints \/ EthCallTaints
  <2>1. Owing' = Owing
    BY <1>3, CallTaintOwes DEF BlockNumberTaints, EthCallTaints, LoopAt, Threads, TaintConfigs
  <2>2. LatchStutters
    BY <1>3, <2>1 DEF BlockNumberTaints, EthCallTaints, LatchStutters, timerState
  <2> QED BY <2>2, LatchSame
<1>4. CASE CheckAndSetHealth \/ BlockNumberOk \/ LagTaintsSibling \/ SiblingTainted
           \/ AfterBlockNumber \/ EthCallOk \/ LoopExit \/ CancelContext \/ Tick \/ UNCHANGED vars
  <2>1. LatchStutters
    BY <1>4
    DEF CheckAndSetHealth, BlockNumberOk, LagTaintsSibling, SiblingTainted,
        AfterBlockNumber, EthCallOk, LoopExit, CancelContext, Tick,
        vars, LatchStutters, Owing, timerState
  <2> QED BY <2>1, LatchSame
<1>5. CASE Stop
  <2>1. Latch!Stop
    BY <1>5 DEF Stop, Latch!Stop, timerState
  <2> QED BY <2>1 DEF Latch!Next
<1>6. CASE CleanupTimer
  BY <1>6, CleanupConsumes DEF Latch!Next
<1>7. ASSUME NEW t \in Threads, TaintStore(t) \/ TaintArm(t) PROVE Latch!Next
  BY <1>7, StoreRaises, ArmArranges DEF Latch!Next
<1>8. ASSUME NEW tm \in Timers, Fire(tm) \/ Callback(tm)
      PROVE  [Latch!Next]_(Latch!vars)
  BY <1>8, CallbackLatch DEF Callback, Latch!Next
<1> QED
  BY <1>1, <1>2, <1>3, <1>4, <1>5, <1>6, <1>7, <1>8, LatchSame DEF Next, TaintStep, LoopStep

(***************************************************************************)
(* A health checker implements TaintLatch, for any number of goroutines    *)
(* that taint it and any number of removal timers and stale callbacks.     *)
(***************************************************************************)
THEOREM ImplementsTaintLatch == Spec => LatchesTaints
<1>1. Init => Latch!Init
  BY DEF Init, Latch!Init, NotInTaint
<1> QED BY <1>1, LatchStep, TypeCorrect, PTL DEF Spec, LatchesTaints, Latch!Spec

=============================================================================
