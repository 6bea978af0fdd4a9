---------------------------- MODULE MCPaperRuntime ----------------------------
(* Two processes, one quote, and two candidates that the cash of the session  *)
(* can pay for: the race for its resources and the clock that ends the orders. *)
(* Fills are the session run's; here a command is what is raced and lost.      *)
EXTENDS PaperRuntime, TLC

CONSTANTS vic, a1, a2

Q(t, seq, qty) ==
    [sym |-> vic, observed |-> t, received |-> t, sess |-> 1, seq |-> seq,
     ask |-> 2, askQty |-> qty, bid |-> 1, bidQty |-> qty, tradable |-> TRUE]

MCOneQuote == {Q(0, 1, 1)}
MCArbSymbol == [a \in Arbs |-> vic]
MCArbPriority == [a \in Arbs |-> IF a = a1 THEN 0 ELSE 1]
MCExitFrom == [a \in Arbs |-> 1]
MCStartPosition == (vic :> 2)
MCStartCash == BuyCost(3)
MCCashForBoth == BuyCost(4)
MCDailyLoss == BuyCost(3)
Symmetry == Permutations(Workers)
=============================================================================
