---------------------------- MODULE HealthChecker ----------------------------
(***************************************************************************)
(* One HealthChecker of internal/proxy/healthchecker.go: the goroutine     *)
(* runHealthChecker that probes a provider, the goroutines that taint the  *)
(* checker (request handlers, sibling checkers), and the time.AfterFunc    *)
(* callbacks that lift the taint.                                          *)
(*                                                                         *)
(* Grain of atomicity.  isTainted is a Go atomic: every Load and Store of  *)
(* it is a step of its own.  The fields of h.taint are only touched under  *)
(* h.mu and nothing in those sections blocks, so a critical section is one *)
(* step.  A time.Timer is stopped, or starts its callback, atomically.     *)
(*                                                                         *)
(* Time is relative: a pending timer holds the ticks it has left, and      *)
(* lastRemoval is represented by its age, which stops growing at Forget,   *)
(* beyond every ResetWaitDuration (the zero time.Time is that old).        *)
(* Timers may fire late, never early.  When the interval timer of the run  *)
(* loop fires is left open: a check may start whenever the loop selects.   *)
(***************************************************************************)
EXTENDS Integers

CONSTANTS
  Callers,                 \* goroutines, other than the run loop, that call Taint
  Loop,                    \* the goroutine of runHealthChecker
  Timers,                  \* bound: the removal timers that exist at one time
  NoTimer,                 \* the nil removalTimer
  Configurations,          \* the [ConnectionType, ChainType] a checker may have
  healthCheckTaintConfig,
  httpTaintConfig,
  Forget                   \* bound on the age of lastRemoval, in ticks

TaintConfigs == {healthCheckTaintConfig, httpTaintConfig}

TaintConfigType ==
  [InitialWaitTime : Nat \ {0}, MaxWaitTime : Nat, ResetWaitDuration : Nat]

ConfigurationType ==
  [ConnectionType : {"http", "websocket"}, ChainType : {"evm", "solana", "tron"}]

ASSUME GoroutineAssumption == Loop \notin Callers

ASSUME TimerAssumption == NoTimer \notin Timers

ASSUME ConfigurationAssumption == Configurations \subseteq ConfigurationType

ASSUME TaintConfigAssumption ==
  \A c \in TaintConfigs :
    c \in TaintConfigType /\ c.InitialWaitTime <= c.MaxWaitTime

ASSUME ForgetAssumption ==
  Forget \in Nat /\ \A c \in TaintConfigs : c.ResetWaitDuration < Forget

VARIABLES
  config,               \* h.config, fixed when the checker is created
  isTainted,            \* h.isTainted
  sinceRemoval,         \* age of h.taint.lastRemoval
  waitTime,             \* h.taint.waitTime
  removalTimer,         \* h.taint.removalTimer
  timer,                \* where each removal timer and its callback is
  left,                 \* ticks until a pending timer is due, 0 for the others
  call,                 \* per goroutine: where its call of Taint is, with its cfg
  loop,                 \* where runHealthChecker is, when not inside Taint
  ethCallCheckCounter,  \* h.ethCallCheckCounter modulo 2
  taintRemoveCh,        \* does the one-slot channel hold a token?
  ctx,                  \* the gateway's context and the call of Stop
  cancelled             \* history: the run loop stopped a pending removal timer
                        \* since the flag was last cleared

taintState == <<sinceRemoval, waitTime, removalTimer>>
timerState == <<timer, left>>
vars == <<config, isTainted, taintState, timerState, call, loop,
          ethCallCheckCounter, taintRemoveCh, ctx, cancelled>>

Threads == Callers \cup {Loop}

(***************************************************************************)
(* Taint(cfg) runs through                                                 *)
(*   cleanup  past the fast path, about to run onBeforeTaint (websocket);  *)
(*   store    about to execute isTainted.Store(true);                      *)
(*   arm      about to take h.mu and arm the removal timer.                *)
(* The argument is dead outside the call.                                  *)
(***************************************************************************)
NotInTaint == [at |-> "idle", cfg |-> healthCheckTaintConfig]

CallType == [at : {"idle", "cleanup", "store", "arm"}, cfg : TaintConfigs]

(***************************************************************************)
(* A removal timer is pending until it is stopped or fires; its callback   *)
(* is then fired (RemoveTaint not begun), removing (isTainted cleared,     *)
(* h.mu not yet taken), signalling (RemoveTaint returned) and the timer is *)
(* free, that is garbage, again.                                           *)
(***************************************************************************)
TimerStates == {"free", "pending", "fired", "removing", "signalling"}

(***************************************************************************)
(* The run loop waits in select, has the block number request or the       *)
(* eth_call request out, is inside the taint of another checker of its     *)
(* provider (sibling) or past all that (afterBlockNumber), or has exited.  *)
(***************************************************************************)
LoopStates ==
  {"select", "blockNumber", "sibling", "afterBlockNumber", "ethCall", "exited"}

TypeOK ==
  /\ config \in Configurations
  /\ isTainted \in BOOLEAN
  /\ sinceRemoval \in 0..Forget
  /\ waitTime \in Nat
  /\ removalTimer \in Timers \cup {NoTimer}
  /\ timer \in [Timers -> TimerStates]
  /\ left \in [Timers -> Nat]
  /\ call \in [Threads -> CallType]
  /\ loop \in LoopStates
  /\ ethCallCheckCounter \in 0..1
  /\ taintRemoveCh \in BOOLEAN
  /\ ctx \in {"live", "done", "stopped"}
  /\ cancelled \in BOOLEAN

\* NewHealthChecker, followed by Start.
Init ==
  /\ config \in Configurations
  /\ isTainted = FALSE
  /\ sinceRemoval = Forget
  /\ waitTime = healthCheckTaintConfig.InitialWaitTime
  /\ removalTimer = NoTimer
  /\ timer = [tm \in Timers |-> "free"]
  /\ left = [tm \in Timers |-> 0]
  /\ call = [t \in Threads |-> NotInTaint]
  /\ loop = "select"
  /\ ethCallCheckCounter = 0
  /\ taintRemoveCh = FALSE
  /\ ctx = "live"
  /\ cancelled = FALSE

-----------------------------------------------------------------------------
(* Taint *)

Idle(t) == call[t].at = "idle"

\* SetWebSocketProxyReferences gives the callback to WebSocket checkers only.
HasBeforeTaintCallback == config.ConnectionType = "websocket"

\* What calling Taint(cfg) does to call: the fast path returns at once.
CallTaint(t, cfg) ==
  call' = IF isTainted
          THEN call
          ELSE [call EXCEPT ![t] =
                 [at |-> IF HasBeforeTaintCallback THEN "cleanup" ELSE "store",
                  cfg |-> cfg]]

\* TaintHTTP by a request handler, TaintHealthCheck by a sibling checker.
TaintByCaller(t, cfg) ==
  /\ Idle(t)
  /\ ~isTainted
  /\ CallTaint(t, cfg)
  /\ UNCHANGED <<config, isTainted, taintState, timerState, loop,
                 ethCallCheckCounter, taintRemoveCh, ctx, cancelled>>

\* onBeforeTaint, UnsubscribeAll of the WebSocket proxy, has returned.
TaintCleanup(t) ==
  /\ call[t].at = "cleanup"
  /\ call' = [call EXCEPT ![t].at = "store"]
  /\ UNCHANGED <<config, isTainted, taintState, timerState, loop,
                 ethCallCheckCounter, taintRemoveCh, ctx, cancelled>>

TaintStore(t) ==
  /\ call[t].at = "store"
  /\ isTainted' = TRUE
  /\ call' = [call EXCEPT ![t].at = "arm"]
  /\ UNCHANGED <<config, taintState, timerState, loop,
                 ethCallCheckCounter, taintRemoveCh, ctx, cancelled>>

\* timer.Stop: a timer that already fired is not affected.
Stopped(tm) ==
  IF tm # NoTimer /\ timer[tm] = "pending"
  THEN [timer EXCEPT ![tm] = "free"]
  ELSE timer

LeftOnceStopped(tm) ==
  [x \in Timers |-> IF x = tm THEN 0 ELSE left[x]]

MinOf(a, b) == IF a <= b THEN a ELSE b

\* Fault: the wait is what is left of the last one.
NextWaitRemaining(cfg) ==
  IF sinceRemoval <= cfg.ResetWaitDuration
  THEN MinOf(waitTime - sinceRemoval, cfg.MaxWaitTime)
  ELSE cfg.InitialWaitTime

\* Fault: doubling without the cap.
NextWaitUncapped(cfg) ==
  IF sinceRemoval <= cfg.ResetWaitDuration THEN waitTime * 2 ELSE cfg.InitialWaitTime

\* Exponential backoff within ResetWaitDuration of lastRemoval.
NextWait(cfg) ==
  IF sinceRemoval <= cfg.ResetWaitDuration
  THEN MinOf(waitTime * 2, cfg.MaxWaitTime)
  ELSE cfg.InitialWaitTime

\* Fault: lastRemoval is not set.
TaintArmKeepsClock(t) ==
  /\ call[t].at = "arm"
  /\ \E tm \in Timers :
       /\ Stopped(removalTimer)[tm] = "free"
       /\ timer' = [Stopped(removalTimer) EXCEPT ![tm] = "pending"]
       /\ left' = [LeftOnceStopped(removalTimer) EXCEPT ![tm] = NextWait(call[t].cfg)]
       /\ removalTimer' = tm
  /\ waitTime' = NextWait(call[t].cfg)
  /\ call' = [call EXCEPT ![t] = NotInTaint]
  /\ UNCHANGED <<config, isTainted, sinceRemoval, loop, ethCallCheckCounter,
                 taintRemoveCh, ctx, cancelled>>

\* Fault: a timer that is still recorded is taken to be enough.
TaintArmOnlyIfNil(t) ==
  /\ call[t].at = "arm"
  /\ IF removalTimer # NoTimer
     THEN UNCHANGED <<timer, left, removalTimer>>
     ELSE \E tm \in Timers :
            /\ timer[tm] = "free"
            /\ timer' = [timer EXCEPT ![tm] = "pending"]
            /\ left' = [left EXCEPT ![tm] = NextWait(call[t].cfg)]
            /\ removalTimer' = tm
  /\ waitTime' = NextWait(call[t].cfg)
  /\ sinceRemoval' = 0
  /\ call' = [call EXCEPT ![t] = NotInTaint]
  /\ UNCHANGED <<config, isTainted, loop, ethCallCheckCounter, taintRemoveCh,
                 ctx, cancelled>>

\* The section under h.mu: stop the old timer, arm the new one, record it.
TaintArm(t) ==
  /\ call[t].at = "arm"
  /\ \E tm \in Timers :
       /\ Stopped(removalTimer)[tm] = "free"
       /\ timer' = [Stopped(removalTimer) EXCEPT ![tm] = "pending"]
       /\ left' = [LeftOnceStopped(removalTimer) EXCEPT ![tm] = NextWait(call[t].cfg)]
       /\ removalTimer' = tm
  /\ waitTime' = NextWait(call[t].cfg)
  /\ sinceRemoval' = 0
  /\ call' = [call EXCEPT ![t] = NotInTaint]
  /\ UNCHANGED <<config, isTainted, loop, ethCallCheckCounter, taintRemoveCh,
                 ctx, cancelled>>

-----------------------------------------------------------------------------
(* The removal timer and its callback *)

Fire(tm) ==
  /\ timer[tm] = "pending"
  /\ left[tm] = 0
  /\ timer' = [timer EXCEPT ![tm] = "fired"]
  /\ UNCHANGED <<config, isTainted, taintState, left, call, loop,
                 ethCallCheckCounter, taintRemoveCh, ctx, cancelled>>

\* Fault: a callback clears the flag only for the timer that is recorded.
RemoveTaintStoreIfTracked(tm) ==
  /\ timer[tm] = "fired"
  /\ isTainted' = (isTainted /\ removalTimer # tm)
  /\ timer' = [timer EXCEPT ![tm] = "removing"]
  /\ cancelled' = (cancelled /\ isTainted')
  /\ UNCHANGED <<config, taintState, left, call, loop, ethCallCheckCounter,
                 taintRemoveCh, ctx>>

RemoveTaintStore(tm) ==
  /\ timer[tm] = "fired"
  /\ isTainted' = FALSE
  /\ timer' = [timer EXCEPT ![tm] = "removing"]
  /\ cancelled' = FALSE
  /\ UNCHANGED <<config, taintState, left, call, loop, ethCallCheckCounter,
                 taintRemoveCh, ctx>>

\* Fault: removalTimer is not set to nil.
RemoveTaintRecordKeepsTimer(tm) ==
  /\ timer[tm] = "removing"
  /\ sinceRemoval' = 0
  /\ timer' = [timer EXCEPT ![tm] = "signalling"]
  /\ UNCHANGED <<config, isTainted, waitTime, removalTimer, left, call, loop,
                 ethCallCheckCounter, taintRemoveCh, ctx, cancelled>>

\* The section of RemoveTaint under h.mu.
RemoveTaintRecord(tm) ==
  /\ timer[tm] = "removing"
  /\ sinceRemoval' = 0
  /\ removalTimer' = NoTimer
  /\ timer' = [timer EXCEPT ![tm] = "signalling"]
  /\ UNCHANGED <<config, isTainted, waitTime, left, call, loop,
                 ethCallCheckCounter, taintRemoveCh, ctx, cancelled>>

\* The non-blocking send: a token already in the channel is enough.
SignalRemoval(tm) ==
  /\ timer[tm] = "signalling"
  /\ taintRemoveCh' = TRUE
  /\ timer' = [timer EXCEPT ![tm] = "free"]
  /\ UNCHANGED <<config, isTainted, taintState, left, call, loop,
                 ethCallCheckCounter, ctx, cancelled>>

-----------------------------------------------------------------------------
(* runHealthChecker *)

\* The loop is not inside Taint, and at l.
LoopAt(l) == Idle(Loop) /\ loop = l

\* The interval timer: CheckAndSetHealth does nothing while tainted.
CheckAndSetHealth ==
  /\ LoopAt("select")
  /\ ~isTainted
  /\ loop' = "blockNumber"
  /\ UNCHANGED <<config, isTainted, taintState, timerState, call,
                 ethCallCheckCounter, taintRemoveCh, ctx, cancelled>>

\* checkBlockNumber succeeded and the lag callback tainted nobody.
BlockNumberOk ==
  /\ LoopAt("blockNumber")
  /\ loop' = "afterBlockNumber"
  /\ UNCHANGED <<config, isTainted, taintState, timerState, call,
                 ethCallCheckCounter, taintRemoveCh, ctx, cancelled>>

\* The lag callback taints the last checker of the provider, here another one:
\* its Taint, with the UnsubscribeAll of a WebSocket checker, runs in this goroutine.
LagTaintsSibling ==
  /\ LoopAt("blockNumber")
  /\ loop' = "sibling"
  /\ UNCHANGED <<config, isTainted, taintState, timerState, call,
                 ethCallCheckCounter, taintRemoveCh, ctx, cancelled>>

\* The Taint of the other checker has returned.
SiblingTainted ==
  /\ LoopAt("sibling")
  /\ loop' = "afterBlockNumber"
  /\ UNCHANGED <<config, isTainted, taintState, timerState, call,
                 ethCallCheckCounter, taintRemoveCh, ctx, cancelled>>

\* An error or a timeout, or a block number found to lag: TaintHealthCheck.
BlockNumberTaints ==
  /\ LoopAt("blockNumber")
  /\ loop' = "afterBlockNumber"
  /\ CallTaint(Loop, healthCheckTaintConfig)
  /\ UNCHANGED <<config, isTainted, taintState, timerState,
                 ethCallCheckCounter, taintRemoveCh, ctx, cancelled>>

\* checkEthCall sends a request only for EVM over HTTP.
ProbesEthCall == config.ConnectionType # "websocket"

\* Fault: the first cycle is recorded, later ones are not counted.
AfterBlockNumberSaturates ==
  /\ LoopAt("afterBlockNumber")
  /\ loop' = "select"
  /\ ethCallCheckCounter' = 1
  /\ UNCHANGED <<config, isTainted, taintState, timerState, call,
                 taintRemoveCh, ctx, cancelled>>

\* The rest of CheckAndSetHealth, up to the eth_call request if one is due.
AfterBlockNumber ==
  /\ LoopAt("afterBlockNumber")
  /\ IF isTainted \/ config.ChainType # "evm"
     THEN /\ loop' = "select"
          /\ UNCHANGED ethCallCheckCounter
     ELSE /\ ethCallCheckCounter' = (ethCallCheckCounter + 1) % 2
          /\ loop' = IF ethCallCheckCounter' # 0 \/ ~ProbesEthCall
                     THEN "select"
                     ELSE "ethCall"
  /\ UNCHANGED <<config, isTainted, taintState, timerState, call,
                 taintRemoveCh, ctx, cancelled>>

EthCallOk ==
  /\ LoopAt("ethCall")
  /\ loop' = "select"
  /\ UNCHANGED <<config, isTainted, taintState, timerState, call,
                 ethCallCheckCounter, taintRemoveCh, ctx, cancelled>>

EthCallTaints ==
  /\ LoopAt("ethCall")
  /\ loop' = "select"
  /\ CallTaint(Loop, healthCheckTaintConfig)
  /\ UNCHANGED <<config, isTainted, taintState, timerState,
                 ethCallCheckCounter, taintRemoveCh, ctx, cancelled>>

\* A token from taintRemoveCh: stop and forget the timer found under h.mu.
CleanupTimer ==
  /\ LoopAt("select")
  /\ taintRemoveCh
  /\ taintRemoveCh' = FALSE
  /\ timer' = Stopped(removalTimer)
  /\ removalTimer' = NoTimer
  /\ cancelled' = (cancelled \/ timer' # timer)
  /\ left' = LeftOnceStopped(removalTimer)
  /\ UNCHANGED <<config, isTainted, sinceRemoval, waitTime, call, loop,
                 ethCallCheckCounter, ctx>>

\* Fault: leaving the select is not leaving the loop.
LoopExitBreaksSelect ==
  /\ LoopAt("select")
  /\ ctx # "live"
  /\ UNCHANGED vars

LoopExit ==
  /\ LoopAt("select")
  /\ ctx # "live"
  /\ loop' = "exited"
  /\ UNCHANGED <<config, isTainted, taintState, timerState, call,
                 ethCallCheckCounter, taintRemoveCh, ctx, cancelled>>

-----------------------------------------------------------------------------
(* Shutdown: main cancels the context, then the manager calls Stop. *)

CancelContext ==
  /\ ctx = "live"
  /\ ctx' = "done"
  /\ UNCHANGED <<config, isTainted, taintState, timerState, call, loop,
                 ethCallCheckCounter, taintRemoveCh, cancelled>>

Stop ==
  /\ ctx = "done"
  /\ ctx' = "stopped"
  /\ taintRemoveCh' = TRUE
  /\ UNCHANGED <<config, isTainted, taintState, timerState, call, loop,
                 ethCallCheckCounter, cancelled>>

-----------------------------------------------------------------------------
\* One unit of time passes.
Tick ==
  /\ sinceRemoval' = MinOf(sinceRemoval + 1, Forget)
  /\ left' = [tm \in Timers |->
               IF timer[tm] = "pending" /\ left[tm] > 0 THEN left[tm] - 1 ELSE left[tm]]
  /\ UNCHANGED <<config, isTainted, waitTime, removalTimer, timer, call, loop,
                 ethCallCheckCounter, taintRemoveCh, ctx, cancelled>>

TaintStep(t) == TaintCleanup(t) \/ TaintStore(t) \/ TaintArm(t)

Callback(tm) ==
  RemoveTaintStore(tm) \/ RemoveTaintRecord(tm) \/ SignalRemoval(tm)

LoopStep ==
  \/ CheckAndSetHealth
  \/ BlockNumberOk
  \/ LagTaintsSibling
  \/ SiblingTainted
  \/ BlockNumberTaints
  \/ AfterBlockNumber
  \/ EthCallOk
  \/ EthCallTaints
  \/ CleanupTimer
  \/ LoopExit

Next ==
  \/ \E t \in Callers, cfg \in TaintConfigs : TaintByCaller(t, cfg)
  \/ \E t \in Threads : TaintStep(t)
  \/ \E tm \in Timers : Fire(tm) \/ Callback(tm)
  \/ LoopStep
  \/ CancelContext
  \/ Stop
  \/ Tick

Spec == Init /\ [][Next]_vars

(***************************************************************************)
(* Fairness.  The Go scheduler runs every goroutine that is not blocked,   *)
(* the runtime fires due timers, and every probe is bounded by a context   *)
(* or a read deadline.  select chooses at random among its ready cases, so *)
(* a case that is ready again and again is taken: strong fairness.  Arming *)
(* is strongly fair because only the model waits for a member of Timers.   *)
(* UnsubscribeAll writes to sockets without a write deadline and may hang: *)
(* neither TaintCleanup nor SiblingTainted, which end it for this checker  *)
(* and for a sibling, is fair, and neither are callers nor shutdown.       *)
(***************************************************************************)
ProbeStep ==
  \/ BlockNumberOk \/ LagTaintsSibling \/ BlockNumberTaints
  \/ AfterBlockNumber \/ EthCallOk \/ EthCallTaints

Fairness ==
  /\ \A t \in Threads : WF_vars(TaintStore(t)) /\ SF_vars(TaintArm(t))
  /\ \A tm \in Timers : WF_vars(Fire(tm)) /\ WF_vars(Callback(tm))
  /\ WF_vars(ProbeStep)
  /\ SF_vars(CleanupTimer)
  /\ SF_vars(LoopExit)
  /\ WF_vars(Tick)

FairSpec == Spec /\ Fairness

-----------------------------------------------------------------------------
(* Safety *)

\* Some goroutine has set the flag and is about to arm the timer that clears it.
Arming == \E t \in Threads : call[t].at = "arm"

\* Some callback has still to clear the flag.
RemovalDue == \E tm \in Timers : timer[tm] \in {"pending", "fired"}

(***************************************************************************)
(* h.taint.removalTimer never points at a timer that was stopped or whose  *)
(* callback has left RemoveTaint, although Taint, RemoveTaint and the run  *)
(* loop all overwrite it: Stop is only ever called on a live timer.        *)
(***************************************************************************)
TrackedTimerLive ==
  removalTimer # NoTimer => timer[removalTimer] \in {"pending", "fired", "removing"}

(***************************************************************************)
(* The backoff clock and the tracked timer agree: while the timer recorded *)
(* in h.taint is pending, what it has left is waitTime less the age of     *)
(* lastRemoval, whatever stale callbacks wrote to h.taint in between.      *)
(***************************************************************************)
TrackedDeadline ==
  (/\ removalTimer # NoTimer
   /\ timer[removalTimer] = "pending"
   /\ sinceRemoval < Forget)
  => left[removalTimer] = IF sinceRemoval <= waitTime THEN waitTime - sinceRemoval ELSE 0

(***************************************************************************)
(* A taint that nothing will lift (flag set, nobody about to arm a timer,  *)
(* no timer to fire) exists only after the run loop, acting on a token of  *)
(* taintRemoveCh, stopped a pending timer.  Neither overlapping calls of   *)
(* Taint nor a stale callback of RemoveTaint can strand the checker.       *)
(***************************************************************************)
LostRemovalOnlyByCleanup ==
  isTainted /\ ~Arming => RemovalDue \/ cancelled

(***************************************************************************)
(* Backoff stays in the bounds the two taint configurations set, although  *)
(* the waitTime one of them left behind is doubled under the other.        *)
(***************************************************************************)
BackoffBounded ==
  /\ \E c \in TaintConfigs : c.InitialWaitTime <= waitTime
  /\ \E c \in TaintConfigs : waitTime <= c.MaxWaitTime

(***************************************************************************)
(* The checker implements TaintLatch: however Taint, the callbacks and the *)
(* run loop interleave, each step is one the latch allows.  No removal     *)
(* disappears but by lowering the flag, by giving way to a newer one, or   *)
(* to a token of taintRemoveCh that an earlier removal or Stop left there. *)
(***************************************************************************)
Latch == INSTANCE TaintLatch WITH
  Goroutines <- Threads,
  Removals   <- Timers,
  tainted    <- isTainted,
  owing      <- {t \in Threads : call[t].at = "arm"},
  removals   <- {tm \in Timers : timer[tm] \in {"pending", "fired"}},
  notices    <- {tm \in Timers : timer[tm] \in {"removing", "signalling"}},
  token      <- taintRemoveCh,
  lost       <- cancelled

LatchesTaints == Latch!Spec

-----------------------------------------------------------------------------
(* Liveness *)

\* A taint is lifted, unless the run loop stopped its removal timer.
TaintExpires == isTainted ~> (~isTainted \/ cancelled)

(***************************************************************************)
(* eth_call is not starved: a checker of an EVM provider over HTTP that    *)
(* passes the block number check again and again runs the eth_call probe   *)
(* again and again, however taints interleave with its cycles.             *)
(***************************************************************************)
EthCallRecurs ==
  (config.ConnectionType = "http" /\ config.ChainType = "evm")
  => ([]<><<AfterBlockNumber /\ ~isTainted>>_vars => []<>(loop = "ethCall"))

\* The run loop is inside an UnsubscribeAll, its own checker's or a sibling's.
InCleanup == call[Loop].at = "cleanup" \/ loop = "sibling"

(***************************************************************************)
(* After the context is done the run loop ends, or it stays for good in an *)
(* UnsubscribeAll that does not return: the one of its own WebSocket taint *)
(* or that of the sibling it taints for a block lag.                       *)
(***************************************************************************)
LoopEnds == ctx # "live" ~> (loop = "exited" \/ []InCleanup)

-----------------------------------------------------------------------------
(* What the repository says of the program and the code does not do *)

(***************************************************************************)
(* healthchecker_test.go: "taint should be removed after wait time".       *)
(***************************************************************************)
TaintRemovedAfterWait == isTainted ~> (~isTainted \/ ctx # "live")

=============================================================================
