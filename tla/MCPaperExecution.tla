--------------------------- MODULE MCPaperExecution ---------------------------
(* Two cycles on one symbol and a stream of five quotes: a repeated price with *)
(* a larger and with the same quantity, a reconnect, a closed market.          *)
EXTENDS PaperExecution, TLC

CONSTANTS vic, a1, a2

Q(obs, recv, sess, seq, ask, askQty, bidQty, open) ==
    [sym |-> vic, observed |-> obs, received |-> recv, sess |-> sess, seq |-> seq,
     ask |-> ask, askQty |-> askQty, bid |-> ask - 1, bidQty |-> bidQty,
     tradable |-> open]

MCQuotes == {Q(0, 0, 1, 1, 2, 2, 2, TRUE),
             Q(1, 1, 1, 2, 2, 3, 1, TRUE),
             Q(2, 2, 2, 1, 2, 4, 2, TRUE),
             Q(3, 2, 2, 2, 3, 2, 3, TRUE),
             Q(3, 3, 2, 3, 3, 2, 2, FALSE),
             Q(4, 4, 2, 4, 2, 1, 2, TRUE)}
MCArbSymbol == (a1 :> vic @@ a2 :> vic)
MCArbPriority == (a1 :> 1 @@ a2 :> 0)
MCArbDigest == (a1 :> 1 @@ a2 :> 2)
MCExitFrom == (a1 :> 1 @@ a2 :> 3)
MCStartPosition == (vic :> 4)
MCStartCash == BuyCost(10)
MCDailyLoss == BuyCost(3)

\* The stream above satisfies what theorem Priority asks of it.
ASSUME StreamIsApart == SessionsApart
=============================================================================
