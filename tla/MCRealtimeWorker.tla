--------------------------- MODULE MCRealtimeWorker ---------------------------
(***************************************************************************)
(* One symbol, three selections: 1 is the older decision, 2 and 3 conflict *)
(* for the later clock.  No notifier drains the outbox.                    *)
(***************************************************************************)
EXTENDS RealtimeWorker

CONSTANTS vic

MCSymbol == [s \in Selections |-> vic]
MCDecisionAt == [s \in Selections |-> IF s = 1 THEN 1 ELSE 2]
MCMaxAttempts == [n \in Notifiers |-> 1]
=============================================================================
