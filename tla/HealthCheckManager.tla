-------------------------- MODULE HealthCheckManager --------------------------
(***************************************************************************)
(* HealthCheckManager of internal/proxy/healthcheckmanager.go: the health  *)
(* checkers of one path and the lag rule, checkBlockLagAndTaint, that each *)
(* run loop executes as the onBlockNumberUpdate callback of its checker.   *)
(*                                                                         *)
(* blockNumber is a Go atomic, and the scan over h.checkers takes no lock: *)
(* every BlockNumber() of the scan is a step of its own, and the scans of  *)
(* different checkers interleave.  Taint is two steps here: past the fast  *)
(* path, and the store of the flag, which for a WebSocket checker waits    *)
(* for UnsubscribeAll; HealthChecker.tla has the rest of it.               *)
(***************************************************************************)
EXTENDS Integers, Sequences, SequencesExt

CONSTANTS
  checkers,             \* h.checkers: a sequence of [Name, ConnectionType]
  BlockDiffThreshold,   \* h.config.BlockDiffThreshold
  MaxBlock,             \* bound: the highest block number a provider reports
  Modulus,              \* uint64 arithmetic is modulo this (2^64 in the code)
  Monotone              \* environment: no provider reports a lower block than before

ASSUME CheckersAssumption ==
  checkers \in Seq([Name : STRING, ConnectionType : {"http", "websocket"}])

ASSUME BlockAssumption ==
  /\ BlockDiffThreshold \in Nat
  /\ MaxBlock \in Nat
  /\ Modulus \in Nat
  /\ MaxBlock < Modulus
  /\ BlockDiffThreshold < Modulus

ASSUME MonotoneAssumption == Monotone \in BOOLEAN

(***************************************************************************)
(* NewHealthCheckManager builds h.checkers from the configured targets,    *)
(* records [Name, HTTP, WebSocket] that say which URLs are set: the HTTP   *)
(* checker of a target comes first.  NewHealthChecker never fails.         *)
(***************************************************************************)
CheckersOf(targets) ==
  LET Connection(target, configured, type) ==
        IF configured THEN <<[Name |-> target.Name, ConnectionType |-> type]>> ELSE <<>>
  IN  FlattenSeq([n \in DOMAIN targets |->
        Connection(targets[n], targets[n].HTTP, "http")
        \o Connection(targets[n], targets[n].WebSocket, "websocket")])

VARIABLES
  block,      \* blockNumber of every checker
  isTainted,  \* isTainted of every checker
  lag,        \* history: the taint in force was set by the lag rule
  check       \* where the health check of every checker is

vars == <<block, isTainted, lag, check>>

Checkers == DOMAIN checkers

(***************************************************************************)
(* A check is idle, probing (the request is out) or scanning: it reported  *)
(* a block number, reads checkers[next] next, and holds maxBlock and       *)
(* targetChecker (0 for nil) of the scan so far.  It is failing (its probe *)
(* failed) or lagging while it is inside the Taint of checkers[target].    *)
(***************************************************************************)
NoCheck == [at |-> "idle", reported |-> 0, next |-> 1, maxBlock |-> 0, target |-> 0]

Probing == [NoCheck EXCEPT !.at = "probing"]

CheckStates == {"idle", "probing", "scanning", "failing", "lagging"}

CheckType ==
  [at : CheckStates, reported : 0..MaxBlock,
   next : 1..(Len(checkers) + 1), maxBlock : 0..MaxBlock, target : {0} \cup Checkers]

TypeOK ==
  /\ block \in [Checkers -> 0..MaxBlock]
  /\ isTainted \in [Checkers -> BOOLEAN]
  /\ lag \in [Checkers -> BOOLEAN]
  /\ check \in [Checkers -> CheckType]

Init ==
  /\ block = [i \in Checkers |-> 0]
  /\ isTainted = [i \in Checkers |-> FALSE]
  /\ lag = [i \in Checkers |-> FALSE]
  /\ check = [i \in Checkers |-> NoCheck]

-----------------------------------------------------------------------------
\* CheckAndSetHealth: a tainted checker is not probed.
StartCheck(i) ==
  /\ check[i].at = "idle"
  /\ ~isTainted[i]
  /\ check' = [check EXCEPT ![i] = Probing]
  /\ UNCHANGED <<block, isTainted, lag>>

\* What check i becomes when it calls TaintHealthCheck on checkers[k] because
\* of l: a checker that is tainted already is left alone at once.
Tainting(i, k, l) ==
  IF isTainted[k] THEN NoCheck ELSE [NoCheck EXCEPT !.at = l, !.target = k]

\* TaintHealthCheck on the checker itself.
ProbeFails(i) ==
  /\ check[i].at = "probing"
  /\ check' = [check EXCEPT ![i] = Tainting(i, i, "failing")]
  /\ UNCHANGED <<block, isTainted, lag>>

\* Fault: the callback is given the previous block number.
ProbeAnswersStale(i, b) ==
  /\ check[i].at = "probing"
  /\ Monotone => b >= block[i]
  /\ block' = [block EXCEPT ![i] = b]
  /\ check' = [check EXCEPT ![i] = [NoCheck EXCEPT !.at = "scanning", !.reported = block[i]]]
  /\ UNCHANGED <<isTainted, lag>>

\* h.blockNumber.Store, then the call of the callback.
ProbeAnswers(i, b) ==
  /\ check[i].at = "probing"
  /\ Monotone => b >= block[i]
  /\ block' = [block EXCEPT ![i] = b]
  /\ check' = [check EXCEPT ![i] = [NoCheck EXCEPT !.at = "scanning", !.reported = b]]
  /\ UNCHANGED <<isTainted, lag>>

\* Fault: the iteration misses the last checker.
ReadAllButLast(c, name, j) ==
  [c EXCEPT !.next = j + 1,
            !.maxBlock = IF j < Len(checkers) /\ block[j] > @ THEN block[j] ELSE @,
            !.target = IF checkers[j].Name = name THEN j ELSE @]

\* Fault: the comparison with maxBlock is missing.
ReadLatest(c, name, j) ==
  [c EXCEPT !.next = j + 1,
            !.maxBlock = block[j],
            !.target = IF checkers[j].Name = name THEN j ELSE @]

\* Fault: block numbers are added up instead of compared.
ReadSum(c, name, j) ==
  [c EXCEPT !.next = j + 1,
            !.maxBlock = @ + block[j],
            !.target = IF checkers[j].Name = name THEN j ELSE @]

\* What the locals of the scan c, for the provider called name, become when
\* checkers[j] has been read.
Read(c, name, j) ==
  [at       |-> c.at,
   reported |-> c.reported,
   next     |-> j + 1,
   maxBlock |-> IF block[j] > c.maxBlock THEN block[j] ELSE c.maxBlock,
   target   |-> IF checkers[j].Name = name THEN j ELSE c.target]

\* One iteration of the loop of checkBlockLagAndTaint.
Scan(i) ==
  /\ check[i].at = "scanning"
  /\ check[i].next <= Len(checkers)
  /\ check' = [check EXCEPT ![i] = Read(@, checkers[i].Name, check[i].next)]
  /\ UNCHANGED <<block, isTainted, lag>>

\* Fault: a provider exactly BlockDiffThreshold behind is taken to lag.
TooFarBehindOrEqual(c) == c.maxBlock >= (c.reported + BlockDiffThreshold) % Modulus

\* maxBlock > updatedBlockNumber + uint64(threshold), in uint64.
TooFarBehind(c) == c.maxBlock > (c.reported + BlockDiffThreshold) % Modulus

\* The rest of checkBlockLagAndTaint: TaintHealthCheck on targetChecker.
Decide(i) ==
  /\ check[i].at = "scanning"
  /\ check[i].next > Len(checkers)
  /\ check' = [check EXCEPT ![i] =
                 IF TooFarBehind(check[i]) /\ check[i].target # 0
                 THEN Tainting(i, check[i].target, "lagging")
                 ELSE NoCheck]
  /\ UNCHANGED <<block, isTainted, lag>>

\* UnsubscribeAll, if the checker is a WebSocket one, has returned: the flag is set,
\* also when another goroutine set it in the meantime.
StoreTaint(i) ==
  /\ check[i].at \in {"failing", "lagging"}
  /\ isTainted' = [isTainted EXCEPT ![check[i].target] = TRUE]
  /\ lag' = [lag EXCEPT ![check[i].target] =
               @ \/ (check[i].at = "lagging" /\ ~isTainted[check[i].target])]
  /\ check' = [check EXCEPT ![i] = NoCheck]
  /\ UNCHANGED block

-----------------------------------------------------------------------------
\* A failed request, or the eth_call probe, taints the checker.
TaintForOtherReason(i) ==
  /\ ~isTainted[i]
  /\ isTainted' = [isTainted EXCEPT ![i] = TRUE]
  /\ UNCHANGED <<block, lag, check>>

\* The removal timer of the checker fires.
RemoveTaint(i) ==
  /\ isTainted[i]
  /\ isTainted' = [isTainted EXCEPT ![i] = FALSE]
  /\ lag' = [lag EXCEPT ![i] = FALSE]
  /\ UNCHANGED <<block, check>>

\* The run loop of checker i takes its next step outside of Taint.
CheckStep(i) ==
  \/ StartCheck(i)
  \/ ProbeFails(i)
  \/ \E b \in 0..MaxBlock : ProbeAnswers(i, b)
  \/ Scan(i)
  \/ Decide(i)

Next ==
  \E i \in Checkers :
    CheckStep(i) \/ StoreTaint(i) \/ TaintForOtherReason(i) \/ RemoveTaint(i)

Spec == Init /\ [][Next]_vars

\* Check i is inside the Taint of a checker that has no UnsubscribeAll to wait for.
TaintsHTTP(i) ==
  /\ check[i].at \in {"failing", "lagging"}
  /\ checkers[check[i].target].ConnectionType = "http"

(***************************************************************************)
(* Fairness.  The interval timer keeps firing, a probe ends by its timeout *)
(* and nothing in the scan blocks.  The Taint of an HTTP checker does not  *)
(* block either; that of a WebSocket checker first runs UnsubscribeAll,    *)
(* which writes without a deadline and may never return: it is not fair.   *)
(***************************************************************************)
Fairness ==
  \A i \in Checkers : WF_vars(CheckStep(i)) /\ WF_vars(TaintsHTTP(i) /\ StoreTaint(i))

FairSpec == Spec /\ Fairness

-----------------------------------------------------------------------------
\* Some provider is more than the threshold ahead of checker i.
Behind(i) == \E j \in Checkers : block[j] > block[i] + BlockDiffThreshold

(***************************************************************************)
(* README: a provider is unhealthy if "the provider's block number is too  *)
(* far behind other providers".  A checker under a lag taint is behind,    *)
(* although its scan read the other block numbers one by one, while they   *)
(* changed.  Holds if every name has one connection.                       *)
(***************************************************************************)
LagTaintJustified == \A i \in Checkers : lag[i] => Behind(i)

(***************************************************************************)
(* The lag rule alone never takes every provider of a path out.            *)
(***************************************************************************)
LagSparesOne == Checkers # {} => \E i \in Checkers : ~lag[i]

(***************************************************************************)
(* What a scan has read is never ahead of the providers, and the iteration *)
(* misses none that stayed where it is: maxBlock is one of the block       *)
(* numbers or below, and at least the one this checker reported once its   *)
(* own entry was read.                                                     *)
(***************************************************************************)
ScanSound ==
  \A i \in Checkers :
    check[i].at = "scanning" =>
      /\ \E j \in Checkers : check[i].maxBlock <= block[j]
      /\ check[i].next > i => check[i].maxBlock >= check[i].reported

\* The sum the rule compares with wraps around for checker i.
Wraps(i) == block[i] + BlockDiffThreshold >= Modulus

(***************************************************************************)
(* A step that puts checker k under a lag taint was taken by a checker of  *)
(* the provider called as k is, whose scan decided so, and that checker is *)
(* still behind now that the clean-up before the taint is over, by its     *)
(* stored block number and by those of the others as they are now; unless  *)
(* the sum of uint64 wraps around.                                         *)
(***************************************************************************)
LagDecisionSound ==
  [][\A k \in Checkers :
       lag'[k] /\ ~lag[k] =>
         \E i \in Checkers :
           /\ check[i].at = "lagging" /\ check'[i].at = "idle"
           /\ checkers[i].Name = checkers[k].Name
           /\ Behind(i) \/ Wraps(i)]_vars

\* Check i is inside the Taint of a WebSocket checker, whose UnsubscribeAll may hang.
InCleanup(i) == check[i].at \in {"failing", "lagging"} /\ ~TaintsHTTP(i)

(***************************************************************************)
(* A checker that stays behind is tainted: a scan that read a value too    *)
(* early is made good by a later one.  The exception is a run loop that    *)
(* stays for good in the UnsubscribeAll that Taint runs before it sets the *)
(* flag.                                                                   *)
(***************************************************************************)
LaggardTainted ==
  \A i \in Checkers :
    (~isTainted[i] /\ Behind(i)) ~> (isTainted[i] \/ ~Behind(i) \/ []InCleanup(i))

=============================================================================
