------------------------------ MODULE TaintLatch ------------------------------
(***************************************************************************)
(* What a health checker promises about its taint, without timers, locks   *)
(* and clocks.  A goroutine that raises the flag owes it a removal until   *)
(* it has arranged one.  A removal that was arranged is carried out, which *)
(* lowers the flag, or gives way to a newer one; it is lost only to a      *)
(* token, and every token was left by a removal carried out before, or by  *)
(* Stop.                                                                   *)
(***************************************************************************)
CONSTANTS
  Goroutines,  \* those that may taint
  Removals     \* identities of removals

VARIABLES
  tainted,
  owing,     \* goroutines that raised the flag and have not arranged its removal
  removals,  \* arranged and not carried out
  notices,   \* carried out, the token not left yet
  token,
  lost       \* a removal was lost since the flag was last lowered

vars == <<tainted, owing, removals, notices, token, lost>>

Init ==
  /\ tainted = FALSE
  /\ owing = {}
  /\ removals = {}
  /\ notices = {}
  /\ token = FALSE
  /\ lost = FALSE

Raise(g) ==
  /\ g \notin owing
  /\ tainted' = TRUE
  /\ owing' = owing \cup {g}
  /\ UNCHANGED <<removals, notices, token, lost>>

\* The removals in replaced give way to x.
Arrange(g, x, replaced) ==
  /\ g \in owing
  /\ x \notin (removals \ replaced) \cup notices
  /\ owing' = owing \ {g}
  /\ removals' = (removals \ replaced) \cup {x}
  /\ UNCHANGED <<tainted, notices, token, lost>>

CarryOut(x) ==
  /\ x \in removals
  /\ tainted' = FALSE
  /\ removals' = removals \ {x}
  /\ notices' = notices \cup {x}
  /\ lost' = FALSE
  /\ UNCHANGED <<owing, token>>

Notify(x) ==
  /\ x \in notices
  /\ notices' = notices \ {x}
  /\ token' = TRUE
  /\ UNCHANGED <<tainted, owing, removals, lost>>

Stop ==
  /\ token' = TRUE
  /\ UNCHANGED <<tainted, owing, removals, notices, lost>>

\* The removals in dropped, one at most, are lost to the token.
Consume(dropped) ==
  /\ token
  /\ token' = FALSE
  /\ removals' = removals \ dropped
  /\ lost' = (lost \/ dropped # {})
  /\ UNCHANGED <<tainted, owing, notices>>

\* Nothing, or one of the removals.
AtMostOne == {{}} \cup {{y} : y \in removals}

Next ==
  \/ \E g \in Goroutines : Raise(g)
  \/ \E g \in Goroutines, x \in Removals, replaced \in AtMostOne : Arrange(g, x, replaced)
  \/ \E x \in Removals : CarryOut(x) \/ Notify(x)
  \/ Stop
  \/ \E dropped \in AtMostOne : Consume(dropped)

Spec == Init /\ [][Next]_vars

=============================================================================
