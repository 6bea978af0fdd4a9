--------------------------- MODULE MCShadowDelivery ---------------------------
(***************************************************************************)
(* Two notifiers with different attempt budgets.  Selections 2 and 3 are   *)
(* conflicting results for one symbol and clock, the second one corrupted  *)
(* in the table; selection 1 is another symbol's later decision.           *)
(***************************************************************************)
EXTENDS ShadowDelivery

CONSTANTS vic, vhm, n1, n2

MCSymbol == [s \in Selections |-> IF s = 1 THEN vic ELSE vhm]
MCDecisionAt == [s \in Selections |-> IF s = 1 THEN 2 ELSE 1]
MCMaxAttempts == [n \in Notifiers |-> IF n = n1 THEN 1 ELSE 2]
=============================================================================
