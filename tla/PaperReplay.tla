----------------------------- MODULE PaperReplay -----------------------------
(***************************************************************************)
(* PaperSession.reconcile (execution/runtime.py): the replay of an         *)
(* operation log that every load, commit and finished transition performs. *)
(* The log is arbitrary: any intent PaperOrderIntent admits and any event  *)
(* PaperOrderEvent admits, in any order; a step is taken exactly when the  *)
(* replay does not raise.  What is invariant here holds of every session   *)
(* the code accepts, whatever produced its operations.                     *)
(***************************************************************************)
EXTENDS PaperLedger, FiniteSets, FiniteSetsExt

CONSTANTS
    Arbitrations,   \* arbitration identities
    Times, Quantities, Prices,
    Lifetimes,      \* expires_at - created_at
    StreamSessions, ReceiveSequences,  \* stream_session_id, receive_sequence
    Shortfalls,     \* how far below the planner's amount reserved_cash may be
    MaxIntents      \* bound: intents in one log

ASSUME PaperReplayAssumption ==
    /\ Times \subseteq Nat
    /\ Lifetimes \subseteq Nat \ {0}
    /\ Quantities \subseteq Nat \ {0}
    /\ Prices \subseteq Nat \ {0}
    /\ Shortfalls \subseteq Nat
    /\ StreamSessions \subseteq Nat
    /\ ReceiveSequences \subseteq Nat \ {0}
    /\ MaxIntents \in Nat

VARIABLES
    ledger,     \* the PaperResourceLedger the replay has reached
    orders,     \* intents in log order, each with its reduced state
    liquidity,  \* displayed quantity consumed per quote
    lastAt      \* last_operation_at

vars == <<ledger, orders, liquidity, lastAt>>

Init ==
    /\ ledger = InitialLedger
    /\ orders = <<>>
    /\ liquidity = [k \in {} |-> 0]
    /\ lastAt = 0

\* An ENTRY intent: one per arbitration, reserved against the current ledger.
ReplayEntry(o) ==
    /\ Len(orders) < MaxIntents
    /\ o.created >= lastAt
    /\ \A i \in DOMAIN orders : orders[i].leg = "ENTRY" => orders[i].arb # o.arb
    /\ CanReserveEntry(ledger, o)
    /\ ledger' = ReserveEntry(ledger, o)
    /\ orders' = Append(orders, o)
    /\ lastAt' = o.created
    /\ UNCHANGED liquidity

\* An EXIT intent: bound to one OPEN reservation for its whole quantity.
ReplayExit(o) ==
    /\ Len(orders) < MaxIntents
    /\ o.created >= lastAt
    /\ CanReserveExit(ledger, o)
    /\ ledger' = ReserveExit(ledger, Len(orders) + 1, o)
    /\ orders' = Append(orders, o)
    /\ lastAt' = o.created
    /\ UNCHANGED liquidity

\* An event: reduced into its order, charged to the quote's liquidity, and
\* settled into the ledger when it ends the order.
ReplayEvent(i, e) ==
    LET o == Reduce(orders[i], e) IN
    /\ CanReduce(orders[i], e)
    /\ e.at >= lastAt
    /\ CanDraw(liquidity, o, e)
    /\ Live(o) \/ Settleable(ledger, i, o)
    /\ ledger' = IF Live(o) THEN ledger ELSE Settle(ledger, i, o)
    /\ orders' = [orders EXCEPT ![i] = o]
    /\ liquidity' = Draw(liquidity, o, e)
    /\ lastAt' = e.at

\* What PaperOrderEvent.validate_event and PaperFillEvidence.validate_liquidity admit.
ValidEvent(e) ==
    IF e.type \in FillTypes
    THEN e.inc > 0 /\ e.inc <= e.avail /\ e.price > 0 /\ e.pos # NoFill
    ELSE e.inc = 0 /\ e.avail = 0 /\ e.price = 0 /\ e.pos = NoFill
Events ==
    {e \in [type : EventTypes, at : Times, inc : Quantities \cup {0},
            price : Prices \cup {0}, avail : Quantities \cup {0},
            pos : (Times \X StreamSessions \X ReceiveSequences) \cup {NoFill}] :
        ValidEvent(e)}

\* Intents as PaperOrderIntent.validate_intent admits them.
NextEntry ==
    \E a \in Arbitrations, sym \in Symbols, q \in Quantities, p \in Prices,
       d \in Shortfalls, t \in Times, x \in Lifetimes :
        /\ BuyCost(p * q) > d
        /\ ReplayEntry(NewOrder("ENTRY", a, 0, sym, q, p, BuyCost(p * q) - d, t, t + x))
NextExit ==
    \E i \in DOMAIN orders, sym \in Symbols, q \in Quantities, p \in Prices,
       t \in Times, x \in Lifetimes :
        ReplayExit(NewOrder("EXIT", orders[i].arb, i, sym, q, p, 0, t, t + x))
NextEvent == \E i \in {k \in DOMAIN orders : Allowed(orders[k].status) # {}}, e \in Events :
                ReplayEvent(i, e)

Next == NextEntry \/ NextExit \/ NextEvent

Spec == Init /\ [][Next]_vars

-----------------------------------------------------------------------------
Entries == {i \in DOMAIN orders : orders[i].leg = "ENTRY"}
EntriesOf(sym) == {i \in Entries : orders[i].sym = sym}
Settled(S) == {i \in S : ~Live(orders[i])}
\* The settled exits of the entries in S.
Sold(S) == Settled({x \in DOMAIN orders : orders[x].leg = "EXIT" /\ orders[x].parent \in S})

Orders ==
    [leg : {"ENTRY", "EXIT"}, arb : Arbitrations, parent : Nat, sym : Symbols,
     qty : Nat, limit : Nat, cash : Int, created : Nat, expires : Nat,
     status : EventTypes \cup {"CREATED"}, filled : Nat, notional : Nat,
     lastAt : Nat, lastFill : Int \X Nat \X Nat, seen : SUBSET (Nat \X Nat)]

Reservations ==
    [status : {"NONE", "ENTRY_PENDING", "OPEN", "EXIT_PENDING"}, cash : Int,
     qty : Nat, exit : Nat, num : Nat, den : Nat \ {0}]

Ledgers == [rev : Nat, cash : Nat, pos : [Symbols -> Nat], cycles : Nat,
            pnl : Int, res : Seq(Reservations)]

\* Every field the ledger, orders and reservations models declare has its
\* pydantic type, ge=0 bounds included: no accepted log drives available
\* cash or available inventory below zero.
TypeOK ==
    /\ ledger \in Ledgers
    /\ orders \in Seq(Orders)
    /\ lastAt \in Nat

\* A reservation an entry made is pending exactly while the entry is live,
\* and names a live exit of its own, of its whole quantity, while exiting.
EntryMatches(i) ==
    LET r == ledger.res[i] IN
    /\ Live(orders[i]) <=> r.status = "ENTRY_PENDING"
    /\ r.status \in {"OPEN", "EXIT_PENDING"} => r.qty > 0
    /\ r.status = "EXIT_PENDING" =>
         /\ r.exit \in DOMAIN orders
         /\ orders[r.exit].leg = "EXIT"
         /\ orders[r.exit].parent = i
         /\ Live(orders[r.exit])
         /\ orders[r.exit].qty = r.qty

\* An exit reserves nothing itself; while it is live its parent names it.
ExitMatches(i) ==
    LET p == orders[i].parent IN
    /\ ledger.res[i] = NoReservation
    /\ p \in DOMAIN orders
    /\ orders[p].leg = "ENTRY"
    /\ Live(orders[i]) => ledger.res[p].status = "EXIT_PENDING" /\ ledger.res[p].exit = i

\* The ledger's reservations and the order histories describe the same
\* cycles: an entry is pending exactly while its order is live, an open or
\* exiting reservation belongs to a terminal entry, and a reservation is
\* EXIT_PENDING exactly for the one live exit order, of exactly its quantity.
ReservationsMatchOrders ==
    /\ Len(ledger.res) = Len(orders)
    /\ \A i \in DOMAIN orders : IF orders[i].leg = "ENTRY" THEN EntryMatches(i)
                                                            ELSE ExitMatches(i)

\* The terms of the sums: shares an order filled and an entry's cost, fee
\* included, per order; shares and cash a reservation holds, per reservation.
Filled   == [x \in DOMAIN orders |-> orders[x].filled]
Cost     == [i \in DOMAIN orders |-> BuyCost(orders[i].notional)]
Held     == [i \in DOMAIN ledger.res |-> ledger.res[i].qty]
Reserved == [i \in DOMAIN ledger.res |-> ledger.res[i].cash]

\* A cycle never sells more than it bought: what the settled exits of an
\* entry sold plus what its reservation still holds is what the entry filled
\* (settle_paper_entry, settle_paper_exit with partial exits in between).
CycleConserved ==
    \A i \in Settled(Entries) :
        SumFunctionOnSet(Filled, Sold({i})) + Held[i] = Filled[i]

\* Settled inventory is neither created nor lost: available quantity, live
\* reservations and shares already sold add up to the account snapshot's
\* settled quantity above core.
InventoryConserved ==
    \A sym \in Symbols :
        ledger.pos[sym]
          + SumFunctionOnSet(Held, EntriesOf(sym))
          + SumFunctionOnSet(Filled, Sold(EntriesOf(sym)))
        = StartPosition[sym]

\* Cash is neither created nor lost: available cash, cash reserved by pending
\* entries and what settled entries cost, buy fee included, add up to the
\* snapshot's cash.  Unsettled sale proceeds are never credited.
CashConserved ==
    ledger.cash
      + SumFunctionOnSet(Reserved, DOMAIN ledger.res)
      + SumFunctionOnSet(Cost, Settled(Entries))
    = StartCash

\* Nothing is created or lost: not the shares of one cycle, not the account's inventory,
\* not its cash, after any sequence of reservations, fills, cancellations and exits.
LedgerConserved == CycleConserved /\ InventoryConserved /\ CashConserved

\* The average fill price, not only each fill, respects the order's limit:
\* the reducer's second limit check can never be the one that fails.
AverageWithinLimit ==
    \A i \in DOMAIN orders :
        LET o == orders[i] IN
        /\ o.leg = "ENTRY" => o.notional <= o.limit * o.filled
        /\ o.leg = "EXIT" => o.notional >= o.limit * o.filled

\* A terminal order is final: no later operation of the log changes it, so
\* its settlement in the ledger is never based on a superseded state.
TerminalOrdersAreFinal ==
    [][\A i \in DOMAIN orders : ~Live(orders[i]) => orders'[i] = orders[i]]_vars
=============================================================================
