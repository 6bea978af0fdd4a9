----------------------------- MODULE PaperLedger -----------------------------
(***************************************************************************)
(* Paper cash and settled inventory (execution/ledger.py) and the order    *)
(* reducer (execution/engine.py: reduce_paper_order), as operators.  Each  *)
(* transition is a pair: Can... is the condition under which the code does *)
(* not raise, the other operator is the value it returns.                  *)
(*                                                                         *)
(* Abstractions.  A sha256 identity is a position: intent i is the i-th    *)
(* intent of the session, and reservation i belongs to intent i.  Money    *)
(* is exact and scaled by Bps, so fees stay integral; an average price is  *)
(* the exact fraction notional/quantity (Decimal's 28 digits round it).    *)
(***************************************************************************)
EXTENDS Integers, Sequences

CONSTANTS
    Symbols,        \* the account's positions
    StartCash,      \* AccountSnapshot.cash_vnd, scaled by Bps
    StartPosition,  \* settled_qty - core_min_qty of each symbol
    BuyFeeBps,      \* CostPolicy.buy_fee_bps
    SellChargeBps   \* CostPolicy.sell_fee_bps + sell_tax_bps

Bps == 10000

ASSUME PaperLedgerAssumption ==
    /\ StartCash \in Nat
    /\ StartPosition \in [Symbols -> Nat]
    /\ BuyFeeBps \in Nat
    /\ SellChargeBps \in 0 .. Bps - 1

EventTypes == {"ACCEPTED", "PARTIALLY_FILLED", "FILLED",
               "REJECTED", "CANCELLED", "EXPIRED"}
Terminal == {"FILLED", "REJECTED", "CANCELLED", "EXPIRED"}
FillTypes == {"PARTIALLY_FILLED", "FILLED"}

\* Mutant: a fill that arrives after the order ended is still accepted.
AllowedLateFill(status) ==
    CASE status = "CREATED" -> {"ACCEPTED", "REJECTED", "EXPIRED"}
      [] status = "FILLED"  -> {}
      [] OTHER              -> FillTypes \cup {"CANCELLED", "EXPIRED"}

\* The reducer's table of event types each status accepts.
Allowed(status) ==
    CASE status = "CREATED"          -> {"ACCEPTED", "REJECTED", "EXPIRED"}
      [] status = "ACCEPTED"         -> FillTypes \cup {"CANCELLED", "EXPIRED"}
      [] status = "PARTIALLY_FILLED" -> FillTypes \cup {"CANCELLED", "EXPIRED"}
      [] OTHER                       -> {}

NoReservation == [status |-> "NONE", cash |-> 0, qty |-> 0, exit |-> 0,
                  num |-> 0, den |-> 1]

\* A position in the stream: receipt time, then session, then sequence.
NoFill == <<-1, 0, 0>>
Before(a, b) == \/ a[1] < b[1]
                \/ a[1] = b[1] /\ a[2] < b[2]
                \/ a[1] = b[1] /\ a[2] = b[2] /\ a[3] < b[3]

\* An intent, before its first event.
NewOrder(leg, arb, parent, sym, qty, limit, cash, created, expires) ==
    [leg |-> leg, arb |-> arb, parent |-> parent, sym |-> sym, qty |-> qty,
     limit |-> limit, cash |-> cash, created |-> created, expires |-> expires,
     status |-> "CREATED", filled |-> 0, notional |-> 0, lastAt |-> created,
     lastFill |-> NoFill, seen |-> {}]

\* Cost of buying, and proceeds of selling, a quantity worth `notional'.
BuyCost(notional) == notional * (Bps + BuyFeeBps)
SaleValue(notional) == notional * (Bps - SellChargeBps)

(***************************************************************************)
(* Ledger transitions.                                                     *)
(***************************************************************************)
InitialLedger == [rev |-> 0, cash |-> StartCash, pos |-> StartPosition,
                  cycles |-> 0, pnl |-> 0, res |-> <<>>]

\* An intent names the ledger it was planned on, and both reservations refuse another one: here
\* `l' is that ledger.  runtime.py plans on the session's own (_validate_entry_request compares
\* the request's with it, submit_exit builds its request from it) and appends at once.
CanReserveEntry(l, o) ==
    /\ o.leg = "ENTRY"
    /\ o.sym \in Symbols
    /\ o.cash <= l.cash
    /\ o.qty <= l.pos[o.sym]

ReserveEntry(l, o) ==
    [l EXCEPT !.rev = @ + 1,
              !.cash = @ - o.cash,
              !.pos[o.sym] = @ - o.qty,
              !.cycles = @ + 1,
              !.res = Append(@, [NoReservation EXCEPT !.status = "ENTRY_PENDING",
                                                      !.cash = o.cash,
                                                      !.qty = o.qty])]

CanSettleEntry(l, i, o) ==
    /\ o.leg = "ENTRY"
    /\ o.status \in Terminal
    /\ l.res[i].status = "ENTRY_PENDING"
    /\ BuyCost(o.notional) <= l.res[i].cash

SettleEntry(l, i, o) ==
    [l EXCEPT !.rev = @ + 1,
              !.cash = @ + l.res[i].cash - BuyCost(o.notional),
              !.pos[o.sym] = @ + l.res[i].qty - o.filled,
              !.res[i] = IF o.filled = 0 THEN NoReservation
                         ELSE [NoReservation EXCEPT !.status = "OPEN",
                                                    !.qty = o.filled,
                                                    !.num = o.notional,
                                                    !.den = o.filled]]

\* Mutant: a reservation that is already exiting may be exited again.
CanReserveExitAgain(l, o) ==
    /\ o.leg = "EXIT"
    /\ o.parent \in DOMAIN l.res
    /\ l.res[o.parent].status \in {"OPEN", "EXIT_PENDING"}
    /\ l.res[o.parent].qty = o.qty

CanReserveExit(l, o) ==
    /\ o.leg = "EXIT"
    /\ o.parent \in DOMAIN l.res
    /\ l.res[o.parent].status = "OPEN"
    /\ l.res[o.parent].qty = o.qty

\* `x' is the position the exit intent takes.
ReserveExit(l, x, o) ==
    [l EXCEPT !.rev = @ + 1,
              !.res = Append([@ EXCEPT ![o.parent].status = "EXIT_PENDING",
                                       ![o.parent].exit = x], NoReservation)]

CanSettleExit(l, x, o) ==
    /\ o.leg = "EXIT"
    /\ o.status \in Terminal
    /\ l.res[o.parent].status = "EXIT_PENDING"
    /\ l.res[o.parent].exit = x
    /\ o.filled <= l.res[o.parent].qty

\* Mutant: a partly sold reservation reopens with its whole quantity.
SettleExitReopeningAll(l, x, o) ==
    LET r == l.res[o.parent] IN
    [l EXCEPT !.rev = @ + 1,
              !.pnl = @ + SaleValue(o.notional) - BuyCost(r.num * o.filled) \div r.den,
              !.res[o.parent] = IF o.filled = r.qty THEN NoReservation
                                ELSE [r EXCEPT !.status = "OPEN", !.exit = 0]]

\* Sale proceeds are not credited to cash and sold shares do not return.
SettleExit(l, x, o) ==
    LET r == l.res[o.parent] IN
    [l EXCEPT !.rev = @ + 1,
              !.pnl = @ + SaleValue(o.notional)
                        - BuyCost(r.num * o.filled) \div r.den,
              !.res[o.parent] =
                  IF o.filled = r.qty THEN NoReservation
                  ELSE [r EXCEPT !.status = "OPEN", !.exit = 0,
                                 !.qty = @ - o.filled]]

Settleable(l, i, o) == CanSettleEntry(l, i, o) \/ CanSettleExit(l, i, o)
Settle(l, i, o) == IF o.leg = "ENTRY" THEN SettleEntry(l, i, o)
                                      ELSE SettleExit(l, i, o)

(***************************************************************************)
(* One iteration of reduce_paper_order: event `e' after the history that   *)
(* left order `o' in its current state.  An event's cumulative quantity is *)
(* the order's filled quantity plus e.inc.                                 *)
(***************************************************************************)
\* Mutant: the comparisons of the two legs are swapped.
LimitSwapped(o, price) ==
    IF o.leg = "ENTRY" THEN price >= o.limit ELSE price <= o.limit

LimitRespected(o, price) ==
    IF o.leg = "ENTRY" THEN price <= o.limit ELSE price >= o.limit

CanReduce(o, e) ==
    /\ e.type \in Allowed(o.status)
    /\ e.at >= o.lastAt
    /\ e.type \in FillTypes <=> e.inc > 0
    /\ e.type = "PARTIALLY_FILLED" => o.filled + e.inc < o.qty
    /\ e.type = "FILLED" => o.filled + e.inc = o.qty
    /\ e.inc > 0 => /\ e.pos[1] >= o.created
                    /\ e.pos[1] <= e.at
                    /\ Before(o.lastFill, e.pos)
                    /\ <<e.pos[2], e.pos[3]>> \notin o.seen
                    /\ LimitRespected(o, e.price)
    /\ e.type \in FillTypes \cup {"ACCEPTED"} => e.at <= o.expires
    /\ e.type = "EXPIRED" => e.at >= o.expires

Reduce(o, e) ==
    [o EXCEPT !.status = e.type,
              !.filled = @ + e.inc,
              !.notional = @ + e.price * e.inc,
              !.lastAt = e.at,
              !.lastFill = IF e.inc > 0 THEN e.pos ELSE @,
              !.seen = IF e.inc > 0 THEN @ \cup {<<e.pos[2], e.pos[3]>>} ELSE @]

(***************************************************************************)
(* Displayed liquidity already consumed, per stream position, symbol and   *)
(* side: the dictionary `liquidity' of PaperSession.reconcile.  The source *)
(* digest it also keeps is taken to be determined by the stream position.  *)
(***************************************************************************)
LiquidityKey(o, e) == <<e.pos[2], e.pos[3], o.sym, o.leg>>
Drawn(liq, k, e) == IF k \in DOMAIN liq THEN liq[k]
                    ELSE [used |-> 0, cap |-> e.avail]
CanDraw(liq, o, e) ==
    LET d == Drawn(liq, LiquidityKey(o, e), e)
    IN  e.inc > 0 => d.used + e.inc <= d.cap
Draw(liq, o, e) ==
    LET k == LiquidityKey(o, e) IN
    IF e.inc = 0 THEN liq
    ELSE [x \in DOMAIN liq \cup {k} |->
             IF x = k THEN [Drawn(liq, k, e) EXCEPT !.used = @ + e.inc]
                      ELSE liq[x]]

Live(o) == o.status \notin Terminal
=============================================================================
