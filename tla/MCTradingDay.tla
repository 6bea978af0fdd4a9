---------------------------- MODULE MCTradingDay ----------------------------
(***************************************************************************)
(* A day of eighteen seconds: a market open of two, six clocks' worth of   *)
(* continuous trading, two menus of provider batches.  The irregular menu  *)
(* brings lost, repeated, late and auction trades; the regular menu brings *)
(* the trends on which candidates are selected.                            *)
(***************************************************************************)
EXTENDS TradingDay

CONSTANTS VIC, VHM, INDEX, HOSE

MCSymbols == {VIC, VHM}
MCRank == [s \in MCSymbols |-> IF s = VHM THEN 1 ELSE 2]
MCSchedule == [open |-> 2, openEnd |-> 4, amEnd |-> 10, pmStart |-> 12, pmEnd |-> 14, close |-> 16]
MCWindows == <<2, 3, 4>>
MCContext == [lookback |-> 4, minimum |-> 1, tolerance |-> 20, windows |-> <<2>>, stale |-> 2,
              tradable |-> {"open"}, trend |-> 5, volatility |-> 50]
MCBreadth == [indices |-> {INDEX}, lookback |-> 2, stale |-> 3, participation |-> 50, advance |-> 50]
MCMembership == [at |-> 0, members |-> [i \in {INDEX} |-> MCSymbols]]
MCRegimes == {None, [basis |-> "CONSTITUENT_BREADTH", reference |-> INDEX, trend |-> 3,
                     dispersion |-> 50]}
MCPolicy == [cooldown |-> 3, capacity |-> 1,
             rules |-> [n \in BASELINE_NAMES |->
                [priority |-> CASE n = "mean_reversion" -> 1 [] n = "momentum_pullback" -> 2
                                [] OTHER -> 3, minimum |-> 10]]]

MCFirst == [regular |-> 5, irregular |-> 3]
MCLast == [regular |-> 8, irregular |-> 6]

T(s, dp, q, side, via, lag) == [type |-> "trade", sym |-> s, dp |-> dp, qty |-> q, side |-> side,
                                via |-> via, lag |-> lag]
Quote(s, q) == [type |-> "quote", sym |-> s, dp |-> 0, qty |-> q, side |-> "B", via |-> "sent", lag |-> 0]
Interval(s) == [type |-> "interval", sym |-> s, dp |-> 0, qty |-> 1, side |-> "B", via |-> "sent", lag |-> 0]
Status(v) == [type |-> "status", sym |-> HOSE, dp |-> 0, qty |-> 1, side |-> "B", via |-> v, lag |-> 0]
Index(dp) == [type |-> "trade", sym |-> INDEX, dp |-> dp, qty |-> 1, side |-> "U", via |-> "sent", lag |-> 0]

Second(a, b) == <<T(VIC, a, IF a > 0 THEN 2 ELSE 1, IF a > 0 THEN "B" ELSE "S", "sent", 0), Quote(VIC, 2),
                  T(VHM, b, 1, "B", "sent", 0), Quote(VHM, 2),
                  Interval(VIC), Interval(VHM), Index(1)>>

MCMenus ==
    [regular |-> {<<Status("open")>> \o Second(1, 1), Second(1, 2), Second(-2, 1),
                  <<Status("halt")>>},
     irregular |-> {<<Quote(VIC, 2), T(VHM, 0, 1, "B", "sent", 0), Quote(VHM, 1),
                      T(VIC, 1, 2, "B", "sent", 0)>>,
                    <<T(VIC, 0, 1, "B", "lost", 0)>>, <<T(VIC, 0, 1, "S", "repeat", 0)>>, <<>>,
                    <<T(VIC, 0, 1, "B", "sent", 1)>>, <<T(VIC, 0, 1, "A", "sent", 0), Quote(VIC, 3)>>}]
=============================================================================
