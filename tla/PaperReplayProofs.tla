-------------------------- MODULE PaperReplayProofs --------------------------
(***************************************************************************)
(* Every operation log PaperSession.reconcile accepts leaves cash,         *)
(* inventory, reservations and order histories consistent, for all         *)
(* symbols, quantities, prices, fees, times and lengths of the log.        *)
(***************************************************************************)
EXTENDS PaperReplay, SumTheorems, TLAPS

\* The strengthening: fills never exceed the order, and a pending entry
\* reserves exactly its order's quantity.
FillsWithinReservations ==
    \A i \in DOMAIN orders :
        /\ orders[i].filled <= orders[i].qty
        /\ orders[i].leg = "ENTRY" /\ Live(orders[i]) => ledger.res[i].qty = orders[i].qty

ReplayInv == TypeOK /\ ReservationsMatchOrders /\ FillsWithinReservations

-----------------------------------------------------------------------------
\* Types of the operators.

LEMMA BuyCostType == \A n \in Nat : BuyCost(n) \in Nat
BY PaperLedgerAssumption DEF BuyCost, Bps

LEMMA SaleValueType == \A n \in Nat : SaleValue(n) \in Nat
BY PaperLedgerAssumption DEF SaleValue, Bps

LEMMA NatTimes == \A m, n \in Nat : m * n \in Nat
OBVIOUS

LEMMA NewOrderType ==
    ASSUME NEW leg \in {"ENTRY", "EXIT"}, NEW arb \in Arbitrations, NEW parent \in Nat,
           NEW sym \in Symbols, NEW qty \in Nat, NEW limit \in Nat, NEW cash \in Int,
           NEW created \in Nat, NEW expires \in Nat
    PROVE  NewOrder(leg, arb, parent, sym, qty, limit, cash, created, expires) \in Orders
BY DEF NewOrder, Orders, NoFill

LEMMA EventFields ==
    ASSUME NEW e \in Events
    PROVE  /\ e.type \in EventTypes /\ e.at \in Nat /\ e.inc \in Nat /\ e.price \in Nat
           /\ e.pos \in Int \X Nat \X Nat
<1>1. /\ e.type \in EventTypes /\ e.at \in Times /\ e.inc \in Quantities \cup {0}
      /\ e.price \in Prices \cup {0}
      /\ e.pos \in (Times \X StreamSessions \X ReceiveSequences) \cup {NoFill}
  BY DEF Events
<1>2. /\ \A t \in Times : t \in Nat
      /\ \A q \in Quantities : q \in Nat
      /\ \A p \in Prices : p \in Nat
      /\ \A n \in StreamSessions : n \in Nat
      /\ \A n \in ReceiveSequences : n \in Nat
  BY PaperReplayAssumption
<1>3. e.pos \in Int \X Nat \X Nat
  <2>1. CASE e.pos = NoFill
    BY <2>1 DEF NoFill
  <2>2. CASE e.pos \in Times \X StreamSessions \X ReceiveSequences
    <3>1. PICK t \in Times, n \in StreamSessions, k \in ReceiveSequences :
             e.pos = <<t, n, k>>
      BY <2>2
    <3>2. t \in Int /\ n \in Nat /\ k \in Nat
      BY <1>2
    <3> QED
      BY <3>1, <3>2
  <2> QED
    BY <1>1, <2>1, <2>2
<1>4. e.at \in Nat /\ e.inc \in Nat /\ e.price \in Nat
  BY <1>1, <1>2
<1> QED
  BY <1>1, <1>3, <1>4

\* An order with the six fields an event moves.
Moved(o, status, filled, notional, at, fill, seen) ==
    [o EXCEPT !.status = status, !.filled = filled, !.notional = notional,
              !.lastAt = at, !.lastFill = fill, !.seen = seen]

Statuses == EventTypes \cup {"CREATED"}
FillPositions == Int \X Nat \X Nat
SeenSets == SUBSET (Nat \X Nat)

LEMMA MovedType ==
    ASSUME NEW o \in Orders, NEW status \in Statuses, NEW filled \in Nat, NEW notional \in Nat,
           NEW at \in Nat, NEW fill \in FillPositions, NEW seen \in SeenSets
    PROVE  /\ Moved(o, status, filled, notional, at, fill, seen) \in Orders
           /\ Moved(o, status, filled, notional, at, fill, seen).leg = o.leg
           /\ Moved(o, status, filled, notional, at, fill, seen).sym = o.sym
           /\ Moved(o, status, filled, notional, at, fill, seen).arb = o.arb
           /\ Moved(o, status, filled, notional, at, fill, seen).parent = o.parent
           /\ Moved(o, status, filled, notional, at, fill, seen).qty = o.qty
           /\ Moved(o, status, filled, notional, at, fill, seen).limit = o.limit
           /\ Moved(o, status, filled, notional, at, fill, seen).status = status
           /\ Moved(o, status, filled, notional, at, fill, seen).filled = filled
           /\ Moved(o, status, filled, notional, at, fill, seen).notional = notional
<1> DEFINE u == Moved(o, status, filled, notional, at, fill, seen)
<1>1. u \in Orders
  BY DEF Moved, Orders, Statuses, FillPositions, SeenSets
<1>2. /\ u.leg = o.leg /\ u.sym = o.sym /\ u.arb = o.arb /\ u.parent = o.parent
      /\ u.qty = o.qty /\ u.limit = o.limit
  BY DEF Moved, Orders
<1>3. u.status = status /\ u.filled = filled /\ u.notional = notional
  BY DEF Moved, Orders
<1> QED
  BY <1>1, <1>2, <1>3

LEMMA ReduceType ==
    ASSUME NEW o \in Orders, NEW e \in Events
    PROVE  /\ Reduce(o, e) \in Orders
           /\ Reduce(o, e).leg = o.leg
           /\ Reduce(o, e).sym = o.sym
           /\ Reduce(o, e).arb = o.arb
           /\ Reduce(o, e).parent = o.parent
           /\ Reduce(o, e).qty = o.qty
           /\ Reduce(o, e).status = e.type
           /\ Reduce(o, e).filled = o.filled + e.inc
           /\ Reduce(o, e).limit = o.limit
           /\ Reduce(o, e).notional = o.notional + e.price * e.inc
<1> DEFINE fill == IF e.inc > 0 THEN e.pos ELSE o.lastFill
           seen == IF e.inc > 0 THEN o.seen \cup {<<e.pos[2], e.pos[3]>>} ELSE o.seen
           notional == o.notional + e.price * e.inc
           filled == o.filled + e.inc
<1>1. Reduce(o, e) = Moved(o, e.type, filled, notional, e.at, fill, seen)
  BY DEF Reduce, Moved, Orders
<1>2. o.lastFill \in Int \X Nat \X Nat /\ o.seen \in SUBSET (Nat \X Nat)
      /\ o.notional \in Nat /\ o.filled \in Nat
  BY DEF Orders
<1>3. fill \in FillPositions
  BY <1>2, EventFields DEF FillPositions
<1>4. seen \in SeenSets
  BY <1>2, EventFields DEF SeenSets
<1>5. notional \in Nat
  BY <1>2, EventFields, NatTimes
<1>6. filled \in Nat /\ e.at \in Nat /\ e.type \in Statuses
  BY <1>2, EventFields DEF Statuses
<1> HIDE DEF fill, seen, notional, filled
<1>7. /\ Reduce(o, e) \in Orders
      /\ Reduce(o, e).leg = o.leg /\ Reduce(o, e).sym = o.sym
      /\ Reduce(o, e).arb = o.arb /\ Reduce(o, e).parent = o.parent
      /\ Reduce(o, e).qty = o.qty /\ Reduce(o, e).limit = o.limit
      /\ Reduce(o, e).status = e.type
      /\ Reduce(o, e).filled = filled /\ Reduce(o, e).notional = notional
  <2>1. PICK st, at, f, m, p, n : /\ st = e.type /\ at = e.at /\ f = filled /\ m = notional
                                  /\ p = fill /\ n = seen
    OBVIOUS
  <2>2. /\ st \in Statuses /\ at \in Nat /\ f \in Nat /\ m \in Nat
        /\ p \in FillPositions /\ n \in SeenSets
    BY <1>3, <1>4, <1>5, <1>6, <2>1
  <2>3. PICK u : u = Moved(o, st, f, m, at, p, n)
    OBVIOUS
  <2>4. /\ u \in Orders /\ u.leg = o.leg /\ u.sym = o.sym /\ u.arb = o.arb
        /\ u.parent = o.parent /\ u.qty = o.qty /\ u.limit = o.limit
        /\ u.status = st /\ u.filled = f /\ u.notional = m
    BY <2>2, <2>3, MovedType
  <2>5. u = Reduce(o, e)
    BY <1>1, <2>1, <2>3
  <2> QED
    BY <2>1, <2>4, <2>5
<1> QED
  BY <1>7 DEF notional, filled

LEMMA NoReservationType == NoReservation \in Reservations
BY DEF NoReservation, Reservations

\* The reservation a READY entry makes.
PendingEntry(o) == [NoReservation EXCEPT !.status = "ENTRY_PENDING",
                                         !.cash = o.cash, !.qty = o.qty]

LEMMA ReserveEntryType ==
    ASSUME NEW l \in Ledgers, NEW o \in Orders, CanReserveEntry(l, o)
    PROVE  /\ ReserveEntry(l, o) \in Ledgers
           /\ ReserveEntry(l, o).res = Append(l.res, PendingEntry(o))
           /\ PendingEntry(o) \in Reservations
           /\ PendingEntry(o).status = "ENTRY_PENDING"
           /\ PendingEntry(o).qty = o.qty
<1>1. /\ PendingEntry(o) \in Reservations
      /\ PendingEntry(o).status = "ENTRY_PENDING"
      /\ PendingEntry(o).qty = o.qty
  BY NoReservationType DEF PendingEntry, NoReservation, Reservations, Orders
<1> DEFINE pos == [l.pos EXCEPT ![o.sym] = l.pos[o.sym] - o.qty]
<1>2. pos \in [Symbols -> Nat]
  <2>1. o.sym \in Symbols /\ o.qty \in Nat /\ l.pos \in [Symbols -> Nat] /\ o.qty <= l.pos[o.sym]
    BY DEF Orders, Ledgers, CanReserveEntry
  <2>2. l.pos[o.sym] - o.qty \in Nat
    BY <2>1
  <2> QED
    BY <2>1, <2>2
<1>3. l.cash - o.cash \in Nat /\ l.rev + 1 \in Nat /\ l.cycles + 1 \in Nat
  <2>1. l.cash \in Nat /\ o.cash \in Int /\ l.rev \in Nat /\ l.cycles \in Nat
    BY DEF Orders, Ledgers
  <2>2. o.cash <= l.cash
    BY DEF CanReserveEntry
  <2> QED
    BY <2>1, <2>2
<1>4. Append(l.res, PendingEntry(o)) \in Seq(Reservations)
  BY <1>1 DEF Ledgers
<1>5. ReserveEntry(l, o) = [l EXCEPT !.rev = l.rev + 1, !.cash = l.cash - o.cash,
                                     !.pos = pos, !.cycles = l.cycles + 1,
                                     !.res = Append(l.res, PendingEntry(o))]
  BY DEF ReserveEntry, PendingEntry, Ledgers
<1> HIDE DEF pos
<1>6. ReserveEntry(l, o) \in Ledgers /\ ReserveEntry(l, o).res = Append(l.res, PendingEntry(o))
  BY <1>2, <1>3, <1>4, <1>5 DEF Ledgers
<1> QED
  BY <1>1, <1>6

LEMMA NextRev == ASSUME NEW l \in Ledgers PROVE l.rev + 1 \in Nat
BY DEF Ledgers

\* The reservation r while exit x sells it.
Exiting(r, x) == [r EXCEPT !.status = "EXIT_PENDING", !.exit = x]

LEMMA ReserveExitType ==
    ASSUME NEW l \in Ledgers, NEW x \in Nat, NEW o \in Orders, CanReserveExit(l, o),
           NEW r, r = Exiting(l.res[o.parent], x)
    PROVE  /\ ReserveExit(l, x, o) \in Ledgers
           /\ r \in Reservations
           /\ r.status = "EXIT_PENDING" /\ r.exit = x /\ r.qty = l.res[o.parent].qty
           /\ ReserveExit(l, x, o).res = Append([l.res EXCEPT ![o.parent] = r], NoReservation)
<1> DEFINE res == [l.res EXCEPT ![o.parent] = r]
<1>1. l.res \in Seq(Reservations) /\ o.parent \in DOMAIN l.res
  BY DEF Ledgers, CanReserveExit
<1>2. l.res[o.parent] \in Reservations
  BY <1>1
<1>3. r \in Reservations /\ r.status = "EXIT_PENDING" /\ r.exit = x /\ r.qty = l.res[o.parent].qty
  BY <1>2 DEF Reservations, Exiting
<1>4. res \in Seq(Reservations)
  BY <1>1, <1>3
<1>5. Append(res, NoReservation) \in Seq(Reservations)
  BY <1>4, NoReservationType
<1>6. ReserveExit(l, x, o) = [l EXCEPT !.rev = l.rev + 1, !.res = Append(res, NoReservation)]
  BY DEF ReserveExit, Ledgers, Exiting
<1> HIDE DEF res
<1>7. ReserveExit(l, x, o) \in Ledgers /\ ReserveExit(l, x, o).res = Append(res, NoReservation)
  BY <1>5, <1>6, NextRev DEF Ledgers
<1> QED
  BY <1>3, <1>7 DEF res

\* What is left of reservation q when n shares are still held, and what an
\* entry that bought n shares for m in total holds.
Reopened(q, n) == [q EXCEPT !.status = "OPEN", !.exit = 0, !.qty = n]
Bought(n, m) == [NoReservation EXCEPT !.status = "OPEN", !.qty = n, !.num = m, !.den = n]

LEMMA ReopenedType ==
    ASSUME NEW q \in Reservations, NEW n \in Nat
    PROVE  /\ Reopened(q, n) \in Reservations
           /\ Reopened(q, n).status = "OPEN" /\ Reopened(q, n).qty = n
BY DEF Reservations, Reopened

LEMMA BoughtType ==
    ASSUME NEW n \in Nat, NEW m \in Nat, n # 0
    PROVE  /\ Bought(n, m) \in Reservations
           /\ Bought(n, m).status = "OPEN" /\ Bought(n, m).qty = n
BY NoReservationType DEF Reservations, Bought

\* What settling an entry leaves of its reservation.
AfterEntry(o) == IF o.filled = 0 THEN NoReservation ELSE Bought(o.filled, o.notional)

LEMMA SettleEntryType ==
    ASSUME NEW l \in Ledgers, NEW i \in DOMAIN l.res, NEW o \in Orders,
           CanSettleEntry(l, i, o), o.filled <= l.res[i].qty
    PROVE  /\ SettleEntry(l, i, o) \in Ledgers
           /\ SettleEntry(l, i, o).res = [l.res EXCEPT ![i] = AfterEntry(o)]
           /\ AfterEntry(o) \in Reservations
           /\ AfterEntry(o).status \in {"NONE", "OPEN"}
           /\ AfterEntry(o).status = "OPEN" => AfterEntry(o).qty > 0
<1>1. l.res \in Seq(Reservations) /\ l.res[i] \in Reservations
  BY DEF Ledgers
<1>2. /\ AfterEntry(o) \in Reservations
      /\ AfterEntry(o).status \in {"NONE", "OPEN"}
      /\ AfterEntry(o).status = "OPEN" => AfterEntry(o).qty > 0
  <2>1. CASE o.filled = 0
    BY <2>1, NoReservationType DEF AfterEntry, NoReservation
  <2>2. CASE o.filled # 0
    <3>1. o.filled \in Nat \ {0} /\ o.notional \in Nat
      BY <2>2 DEF Orders
    <3>2. AfterEntry(o) = Bought(o.filled, o.notional)
      BY <2>2 DEF AfterEntry
    <3>3. /\ AfterEntry(o) \in Reservations /\ AfterEntry(o).status = "OPEN"
          /\ AfterEntry(o).qty = o.filled
      BY <2>2, <3>1, <3>2, BoughtType
    <3> QED
      BY <3>1, <3>3
  <2> QED
    BY <2>1, <2>2
<1> DEFINE pos == [l.pos EXCEPT ![o.sym] = l.pos[o.sym] + l.res[i].qty - o.filled]
           cash == l.cash + l.res[i].cash - BuyCost(o.notional)
           res == [l.res EXCEPT ![i] = AfterEntry(o)]
<1>3. pos \in [Symbols -> Nat]
  <2>1. /\ o.sym \in Symbols /\ o.filled \in Nat /\ l.pos \in [Symbols -> Nat]
        /\ l.res[i].qty \in Nat
    BY <1>1 DEF Orders, Ledgers, Reservations
  <2>2. l.pos[o.sym] + l.res[i].qty - o.filled \in Nat
    BY <2>1
  <2> QED
    BY <2>1, <2>2
<1>4. cash \in Nat
  <2>1. /\ l.cash \in Nat /\ l.res[i].cash \in Int /\ BuyCost(o.notional) \in Nat
        /\ BuyCost(o.notional) <= l.res[i].cash
    BY <1>1, BuyCostType DEF Orders, Ledgers, Reservations, CanSettleEntry
  <2> QED
    BY <2>1
<1>5. res \in Seq(Reservations)
  BY <1>1, <1>2
<1>6. SettleEntry(l, i, o) = [l EXCEPT !.rev = l.rev + 1, !.cash = cash, !.pos = pos, !.res = res]
  BY DEF SettleEntry, AfterEntry, Bought, Ledgers
<1> HIDE DEF pos, cash, res
<1>7. SettleEntry(l, i, o) \in Ledgers /\ SettleEntry(l, i, o).res = res
  BY <1>3, <1>4, <1>5, <1>6, NextRev DEF Ledgers
<1> QED
  BY <1>2, <1>7 DEF res

\* What settling an exit leaves of the parent's reservation r.
AfterExit(r, o) == IF o.filled = r.qty THEN NoReservation
                   ELSE Reopened(r, r.qty - o.filled)

LEMMA SettleExitType ==
    ASSUME NEW l \in Ledgers, NEW x, NEW o \in Orders, o.parent \in DOMAIN l.res,
           CanSettleExit(l, x, o), NEW r, r = AfterExit(l.res[o.parent], o)
    PROVE  /\ SettleExit(l, x, o) \in Ledgers
           /\ SettleExit(l, x, o).res = [l.res EXCEPT ![o.parent] = r]
           /\ r \in Reservations
           /\ r.status \in {"NONE", "OPEN"}
           /\ r.status = "OPEN" => r.qty > 0
<1> DEFINE q == l.res[o.parent]
           pnl == l.pnl + SaleValue(o.notional) - BuyCost(q.num * o.filled) \div q.den
           res == [l.res EXCEPT ![o.parent] = r]
<1>1. l.res \in Seq(Reservations) /\ q \in Reservations
  BY DEF Ledgers
<1>2. /\ q.qty \in Nat /\ o.filled \in Nat /\ o.notional \in Nat /\ o.filled <= q.qty
      /\ q.num \in Nat /\ q.den \in Nat \ {0} /\ l.pnl \in Int
  BY <1>1 DEF Reservations, Orders, Ledgers, CanSettleExit
<1>3. r \in Reservations /\ r.status \in {"NONE", "OPEN"} /\ (r.status = "OPEN" => r.qty > 0)
  <2>1. CASE o.filled = q.qty
    BY <2>1, NoReservationType DEF AfterExit, NoReservation
  <2>2. CASE o.filled # q.qty
    <3>1. q.qty - o.filled \in Nat /\ q.qty - o.filled > 0
      BY <1>2, <2>2
    <3>2. r = Reopened(q, q.qty - o.filled)
      BY <2>2 DEF AfterExit
    <3>3. r \in Reservations /\ r.status = "OPEN" /\ r.qty = q.qty - o.filled
      <4>1. PICK n \in Nat : n = q.qty - o.filled
        BY <3>1
      <4>2. r = Reopened(q, n)
        BY <3>2, <4>1
      <4> HIDE DEF q
      <4>3. r \in Reservations /\ r.status = "OPEN" /\ r.qty = n
        BY <1>1, <4>2, ReopenedType, ZenonT(60)
      <4> QED
        BY <4>1, <4>3
    <3> QED
      BY <3>1, <3>3
  <2> QED
    BY <2>1, <2>2
<1>4. pnl \in Int
  <2>1. SaleValue(o.notional) \in Int /\ BuyCost(q.num * o.filled) \in Int
    BY <1>2, SaleValueType, BuyCostType, NatTimes
  <2>2. BuyCost(q.num * o.filled) \div q.den \in Int
    BY <1>2, <2>1
  <2> QED
    BY <1>2, <2>1, <2>2
<1>5. res \in Seq(Reservations)
  BY <1>1, <1>3
<1>6. SettleExit(l, x, o) = [l EXCEPT !.rev = l.rev + 1, !.pnl = pnl, !.res = res]
  BY DEF SettleExit, AfterExit, Reopened, Ledgers
<1> HIDE DEF q, pnl, res
<1>7. SettleExit(l, x, o) \in Ledgers /\ SettleExit(l, x, o).res = res
  BY <1>4, <1>5, <1>6, NextRev DEF Ledgers
<1> QED
  BY <1>3, <1>7 DEF q, res

-----------------------------------------------------------------------------
\* The invariant is inductive.

LEMMA InitInv == Init => ReplayInv
<1> SUFFICES ASSUME Init PROVE ReplayInv
  OBVIOUS
<1>1. InitialLedger \in Ledgers /\ InitialLedger.res = <<>>
  BY PaperLedgerAssumption DEF InitialLedger, Ledgers
<1> QED
  BY <1>1 DEF Init, ReplayInv, TypeOK, ReservationsMatchOrders, FillsWithinReservations

\* A new order is live and unfilled.
LEMMA NewOrderFields ==
    ASSUME NEW leg, NEW arb, NEW parent, NEW sym, NEW qty, NEW limit, NEW cash,
           NEW created, NEW expires
    PROVE  LET o == NewOrder(leg, arb, parent, sym, qty, limit, cash, created, expires) IN
           /\ Live(o) /\ o.filled = 0 /\ o.leg = leg /\ o.parent = parent
           /\ o.created = created /\ o.qty = qty
BY DEF NewOrder, Live, Terminal

LEMMA EntryInv ==
    ASSUME ReplayInv, NEW o \in Orders, o.leg = "ENTRY", Live(o), o.filled = 0,
           ReplayEntry(o)
    PROVE  ReplayInv'
<1> DEFINE n == Len(orders)
           r == PendingEntry(o)
<1>1. /\ ledger \in Ledgers /\ orders \in Seq(Orders) /\ ledger.res \in Seq(Reservations)
      /\ Len(ledger.res) = n
  BY DEF ReplayInv, TypeOK, Ledgers, ReservationsMatchOrders
<1>2. /\ ledger' \in Ledgers /\ ledger'.res = Append(ledger.res, r)
      /\ r.status = "ENTRY_PENDING" /\ r.qty = o.qty
  BY <1>1, ReserveEntryType DEF ReplayEntry
<1>3. orders' = Append(orders, o) /\ orders' \in Seq(Orders) /\ lastAt' \in Nat
  BY <1>1 DEF ReplayEntry, Orders
<1>4. /\ Len(orders') = n + 1 /\ Len(ledger'.res) = n + 1
      /\ orders'[n + 1] = o /\ ledger'.res[n + 1] = r
      /\ \A i \in 1 .. n : orders'[i] = orders[i] /\ ledger'.res[i] = ledger.res[i]
  BY <1>1, <1>2, <1>3
<1>5. DOMAIN orders = 1 .. n /\ DOMAIN orders' = 1 .. n + 1 /\ n \in Nat
  BY <1>1, <1>3, <1>4
<1> HIDE DEF n, r
<1>6. ReservationsMatchOrders'
  BY <1>2, <1>4, <1>5 DEF ReplayInv, ReservationsMatchOrders, EntryMatches, ExitMatches
<1>7. FillsWithinReservations'
  <2>1. o.qty \in Nat
    BY DEF Orders
  <2> QED
    BY <1>2, <1>4, <1>5, <2>1 DEF ReplayInv, FillsWithinReservations
<1> QED
  BY <1>2, <1>3, <1>6, <1>7 DEF ReplayInv, TypeOK

LEMMA ExitInv ==
    ASSUME ReplayInv, NEW o \in Orders, o.leg = "EXIT", Live(o), o.filled = 0,
           ReplayExit(o)
    PROVE  ReplayInv'
<1> DEFINE n == Len(orders)
           p == o.parent
<1>1. /\ ledger \in Ledgers /\ orders \in Seq(Orders) /\ ledger.res \in Seq(Reservations)
      /\ Len(ledger.res) = n /\ n \in Nat
  BY DEF ReplayInv, TypeOK, Ledgers, ReservationsMatchOrders
<1>2. /\ p \in DOMAIN ledger.res /\ ledger.res[p].status = "OPEN"
      /\ ledger.res[p].qty = o.qty /\ CanReserveExit(ledger, o)
  BY DEF ReplayExit, CanReserveExit
<1>3. ledger' = ReserveExit(ledger, n + 1, o) /\ n + 1 \in Nat
  BY <1>1 DEF ReplayExit
<1>4. PICK r : r = Exiting(ledger.res[o.parent], n + 1)
  OBVIOUS
<1>5. /\ ledger' \in Ledgers
      /\ ledger'.res = Append([ledger.res EXCEPT ![p] = r], NoReservation)
      /\ r \in Reservations
      /\ r.status = "EXIT_PENDING" /\ r.exit = n + 1 /\ r.qty = o.qty
  BY <1>1, <1>2, <1>3, <1>4, ReserveExitType
<1>6. orders' = Append(orders, o) /\ orders' \in Seq(Orders) /\ lastAt' \in Nat
  BY <1>1 DEF ReplayExit, Orders
<1>7. /\ Len(orders') = n + 1 /\ Len(ledger'.res) = n + 1 /\ p \in 1 .. n
      /\ orders'[n + 1] = o /\ ledger'.res[n + 1] = NoReservation /\ ledger'.res[p] = r
      /\ \A i \in 1 .. n : /\ orders'[i] = orders[i]
                           /\ i # p => ledger'.res[i] = ledger.res[i]
  BY <1>1, <1>2, <1>5, <1>6
<1>8. DOMAIN orders = 1 .. n /\ DOMAIN orders' = 1 .. n + 1 /\ n \in Nat
  BY <1>1, <1>6, <1>7
<1> HIDE DEF n
<1>9. orders[p] \in Orders /\ orders[p].leg = "ENTRY" /\ ~Live(orders[p]) /\ ledger.res[p].qty > 0
  <2>1. orders[p] \in Orders
    BY <1>1, <1>7, <1>8
  <2>2. ledger.res[p] # NoReservation
    BY <1>2 DEF NoReservation
  <2>3. IF orders[p].leg = "ENTRY" THEN EntryMatches(p) ELSE ExitMatches(p)
    BY <1>7, <1>8 DEF ReplayInv, ReservationsMatchOrders
  <2> QED
    BY <1>2, <2>1, <2>2, <2>3 DEF EntryMatches, ExitMatches
<1>10. ReservationsMatchOrders'
  <2> SUFFICES ASSUME NEW i \in 1 .. n + 1
               PROVE  IF orders'[i].leg = "ENTRY" THEN EntryMatches(i)' ELSE ExitMatches(i)'
    BY <1>7, <1>8 DEF ReservationsMatchOrders
  <2>1. CASE i = n + 1
    <3>1. orders'[i] = o /\ ledger'.res[i] = NoReservation
      BY <1>7, <2>1
    <3>2. p \in DOMAIN orders' /\ orders'[p].leg = "ENTRY"
      BY <1>7, <1>8, <1>9
    <3>3. ledger'.res[p].status = "EXIT_PENDING" /\ ledger'.res[p].exit = i
      BY <1>5, <1>7, <2>1
    <3> QED
      BY <3>1, <3>2, <3>3 DEF ExitMatches
  <2>2. CASE i = p
    <3>1. orders'[i] = orders[p] /\ ledger'.res[i] = r
      BY <1>7, <2>2
    <3>2. n + 1 \in DOMAIN orders' /\ orders'[n + 1] = o
      BY <1>7, <1>8
    <3> QED
      BY <1>2, <1>5, <1>9, <2>2, <3>1, <3>2 DEF EntryMatches
  <2>3. CASE i \in 1 .. n /\ i # p
    <3>1. orders'[i] = orders[i] /\ ledger'.res[i] = ledger.res[i]
      BY <1>7, <1>8, <2>3
    <3>2. IF orders[i].leg = "ENTRY" THEN EntryMatches(i) ELSE ExitMatches(i)
      BY <1>8, <2>3 DEF ReplayInv, ReservationsMatchOrders
    <3>3. \A j \in DOMAIN orders : j \in DOMAIN orders' /\ orders'[j] = orders[j]
      BY <1>7, <1>8
    <3>4. ASSUME orders[i].leg = "ENTRY", EntryMatches(i) PROVE EntryMatches(i)'
      BY <3>1, <3>3, <3>4 DEF EntryMatches
    <3>5. ASSUME ExitMatches(i) PROVE ExitMatches(i)'
      <4>1. orders[i].parent \in DOMAIN orders
        BY <3>5 DEF ExitMatches
      <4>2. Live(orders[i]) => ledger'.res[orders[i].parent] = ledger.res[orders[i].parent]
        BY <1>2, <1>7, <1>8, <3>5, <4>1 DEF ExitMatches
      <4> QED
        BY <3>1, <3>3, <3>5, <4>1, <4>2 DEF ExitMatches
    <3> QED
      BY <3>1, <3>2, <3>4, <3>5
  <2> QED
    BY <1>8, <2>1, <2>2, <2>3
<1>11. FillsWithinReservations'
  <2>1. o.qty \in Nat
    BY DEF Orders
  <2> SUFFICES ASSUME NEW i \in 1 .. n + 1
               PROVE  /\ orders'[i].filled <= orders'[i].qty
                      /\ orders'[i].leg = "ENTRY" /\ Live(orders'[i])
                           => ledger'.res[i].qty = orders'[i].qty
    BY <1>8 DEF FillsWithinReservations
  <2>2. CASE i = n + 1
    BY <1>7, <1>8, <2>1, <2>2
  <2>3. CASE i \in 1 .. n
    <3>1. orders'[i] = orders[i] /\ (i # p => ledger'.res[i] = ledger.res[i])
      BY <1>7, <1>8, <2>3
    <3>2. /\ orders[i].filled <= orders[i].qty
          /\ orders[i].leg = "ENTRY" /\ Live(orders[i]) => ledger.res[i].qty = orders[i].qty
      BY <1>8, <2>3 DEF ReplayInv, FillsWithinReservations
    <3>3. orders'[i].filled <= orders'[i].qty
      BY <3>1, <3>2
    <3>4. CASE i = p
      BY <1>9, <3>1, <3>3, <3>4
    <3>5. CASE i # p
      BY <3>1, <3>2, <3>3, <3>5
    <3> QED
      BY <3>3, <3>4, <3>5
  <2> QED
    BY <1>1, <2>2, <2>3
<1> QED
  BY <1>5, <1>6, <1>10, <1>11 DEF ReplayInv, TypeOK

\* A reduced event keeps the order's terms, stays within its quantity, and is
\* only accepted by a live order.
LEMMA ReduceFacts ==
    ASSUME NEW o \in Orders, NEW e \in Events, CanReduce(o, e), o.filled <= o.qty
    PROVE  Live(o) /\ Reduce(o, e).filled <= Reduce(o, e).qty
<1>1. /\ o.filled \in Nat /\ o.qty \in Nat /\ e.inc \in Nat
      /\ Reduce(o, e).filled = o.filled + e.inc /\ Reduce(o, e).qty = o.qty
  BY EventFields, ReduceType DEF Orders
<1>2. e.type \in Allowed(o.status) /\ (e.type \in FillTypes <=> e.inc > 0)
  BY DEF CanReduce
<1>3. o.status \notin Terminal
  BY <1>2 DEF Allowed, Terminal
<1>4. CASE e.type \in FillTypes
  <2>1. o.filled + e.inc <= o.qty
    BY <1>1, <1>4 DEF CanReduce, FillTypes
  <2> QED
    BY <1>1, <1>3, <2>1 DEF Live
<1>5. CASE e.type \notin FillTypes
  BY <1>1, <1>2, <1>3, <1>5 DEF Live
<1> QED
  BY <1>4, <1>5

\* What every event does to the orders.
LEMMA EventOrders ==
    ASSUME ReplayInv, NEW i \in DOMAIN orders, NEW e \in Events, ReplayEvent(i, e),
           NEW o, o = Reduce(orders[i], e)
    PROVE  /\ orders[i] \in Orders /\ o \in Orders /\ Live(orders[i])
           /\ o.leg = orders[i].leg /\ o.parent = orders[i].parent /\ o.qty = orders[i].qty
           /\ o.filled <= o.qty
           /\ orders' \in Seq(Orders) /\ lastAt' \in Nat
           /\ Len(orders') = Len(orders) /\ DOMAIN orders' = DOMAIN orders
           /\ orders'[i] = o
           /\ \A j \in DOMAIN orders : j # i => orders'[j] = orders[j]
           /\ DOMAIN ledger.res = DOMAIN orders
<1>1. orders \in Seq(Orders) /\ ledger.res \in Seq(Reservations) /\ Len(ledger.res) = Len(orders)
  BY DEF ReplayInv, TypeOK, Ledgers, ReservationsMatchOrders
<1>2. orders[i] \in Orders
  BY <1>1
<1>3. orders[i].filled <= orders[i].qty /\ CanReduce(orders[i], e)
  BY DEF ReplayInv, FillsWithinReservations, ReplayEvent
<1>4. Live(orders[i]) /\ o.filled <= o.qty
  BY <1>2, <1>3, ReduceFacts
<1>5. o \in Orders /\ o.leg = orders[i].leg /\ o.parent = orders[i].parent /\ o.qty = orders[i].qty
  BY <1>2, ReduceType
<1>6. orders' = [orders EXCEPT ![i] = o] /\ lastAt' = e.at
  BY DEF ReplayEvent
<1>7. orders' \in Seq(Orders) /\ lastAt' \in Nat
  BY <1>1, <1>5, <1>6, EventFields
<1>8. /\ Len(orders') = Len(orders) /\ DOMAIN orders' = DOMAIN orders
      /\ orders'[i] = o
      /\ \A j \in DOMAIN orders : j # i => orders'[j] = orders[j]
  BY <1>1, <1>6
<1>9. DOMAIN ledger.res = DOMAIN orders
  BY <1>1
<1> QED
  BY <1>2, <1>4, <1>5, <1>7, <1>8, <1>9

\* The invariant at one index.
Matches(j) == IF orders[j].leg = "ENTRY" THEN EntryMatches(j) ELSE ExitMatches(j)
Within(j) == /\ orders[j].filled <= orders[j].qty
             /\ orders[j].leg = "ENTRY" /\ Live(orders[j]) => ledger.res[j].qty = orders[j].qty

\* An event that leaves its order live.
LEMMA LiveEventInv ==
    ASSUME ReplayInv, NEW i \in DOMAIN orders, NEW e \in Events, ReplayEvent(i, e),
           Live(Reduce(orders[i], e))
    PROVE  ReplayInv'
<1>1. PICK o : o = Reduce(orders[i], e)
  OBVIOUS
<1>2. /\ o.leg = orders[i].leg /\ o.parent = orders[i].parent /\ o.qty = orders[i].qty
      /\ o.filled <= o.qty /\ Live(orders[i])
      /\ orders' \in Seq(Orders) /\ lastAt' \in Nat
      /\ Len(orders') = Len(orders) /\ DOMAIN orders' = DOMAIN orders
      /\ orders'[i] = o
      /\ \A j \in DOMAIN orders : j # i => orders'[j] = orders[j]
  BY <1>1, EventOrders
<1>3. ledger' = ledger /\ Live(o)
  BY <1>1 DEF ReplayEvent
<1>4. \A j \in DOMAIN orders :
         /\ orders'[j].leg = orders[j].leg
         /\ orders'[j].parent = orders[j].parent
         /\ orders'[j].qty = orders[j].qty
         /\ Live(orders'[j]) <=> Live(orders[j])
  BY <1>2, <1>3
<1>5. ASSUME NEW j \in DOMAIN orders PROVE Matches(j)' /\ Within(j)'
  <2>1. Matches(j) /\ Within(j)
    BY DEF ReplayInv, ReservationsMatchOrders, FillsWithinReservations, Matches, Within
  <2>2. ASSUME EntryMatches(j) PROVE EntryMatches(j)'
    BY <1>2, <1>3, <1>4, <2>2 DEF EntryMatches
  <2>3. ASSUME ExitMatches(j) PROVE ExitMatches(j)'
    BY <1>2, <1>3, <1>4, <2>3 DEF ExitMatches
  <2>4. Matches(j)'
    BY <1>4, <2>1, <2>2, <2>3 DEF Matches
  <2>5. Within(j)'
    BY <1>2, <1>3, <1>4, <2>1 DEF Within
  <2> QED
    BY <2>4, <2>5
<1>6. ReservationsMatchOrders' /\ FillsWithinReservations'
  BY <1>2, <1>3, <1>5
     DEF ReplayInv, ReservationsMatchOrders, FillsWithinReservations, Matches, Within
<1> QED
  BY <1>2, <1>3, <1>6 DEF ReplayInv, TypeOK

\* An event that ends an entry: its reservation opens or disappears.
LEMMA EntryEndInv ==
    ASSUME ReplayInv, NEW i \in DOMAIN orders, NEW e \in Events, ReplayEvent(i, e),
           ~Live(Reduce(orders[i], e)), orders[i].leg = "ENTRY"
    PROVE  ReplayInv'
<1>1. PICK o : o = Reduce(orders[i], e)
  OBVIOUS
<1>2. /\ o \in Orders /\ o.leg = "ENTRY" /\ o.filled <= o.qty /\ o.qty = orders[i].qty
      /\ Live(orders[i])
      /\ orders' \in Seq(Orders) /\ lastAt' \in Nat
      /\ Len(orders') = Len(orders) /\ DOMAIN orders' = DOMAIN orders
      /\ orders'[i] = o
      /\ \A j \in DOMAIN orders : j # i => orders'[j] = orders[j]
      /\ DOMAIN ledger.res = DOMAIN orders
  BY <1>1, EventOrders
<1>3. ~Live(o) /\ ledger' = SettleEntry(ledger, i, o) /\ CanSettleEntry(ledger, i, o)
  BY <1>1, <1>2 DEF ReplayEvent, Settle, Settleable, CanSettleExit
<1>4. /\ ledger \in Ledgers /\ ledger.res \in Seq(Reservations)
      /\ Len(ledger.res) = Len(orders) /\ ledger.res[i].qty = o.qty
  BY <1>2 DEF ReplayInv, TypeOK, Ledgers, ReservationsMatchOrders, FillsWithinReservations
<1>5. PICK r : r = AfterEntry(o)
  OBVIOUS
<1>6. /\ ledger' \in Ledgers /\ ledger'.res = [ledger.res EXCEPT ![i] = r]
      /\ r.status \in {"NONE", "OPEN"} /\ (r.status = "OPEN" => r.qty > 0)
  BY <1>2, <1>3, <1>4, <1>5, SettleEntryType
<1>7. /\ Len(ledger'.res) = Len(orders') /\ ledger'.res[i] = r
      /\ \A j \in DOMAIN orders : j # i => ledger'.res[j] = ledger.res[j]
  BY <1>2, <1>4, <1>6
<1>8. EntryMatches(i)
  BY DEF ReplayInv, ReservationsMatchOrders
<1>9. ASSUME NEW j \in DOMAIN orders PROVE Matches(j)' /\ Within(j)'
  <2>1. Matches(j) /\ Within(j)
    BY DEF ReplayInv, ReservationsMatchOrders, FillsWithinReservations, Matches, Within
  <2>2. CASE j = i
    <3>1. EntryMatches(i)'
      BY <1>2, <1>3, <1>6, <1>7 DEF EntryMatches
    <3> QED
      BY <1>2, <1>3, <2>2, <3>1 DEF Matches, Within
  <2>3. CASE j # i
    <3>1. orders'[j] = orders[j] /\ ledger'.res[j] = ledger.res[j]
      BY <1>2, <1>7, <2>3
    <3>2. ASSUME EntryMatches(j) PROVE EntryMatches(j)'
      <4>1. ledger.res[j].status = "EXIT_PENDING" => ledger.res[j].exit # i
        BY <3>2 DEF EntryMatches
      <4> QED
        BY <1>2, <3>1, <3>2, <4>1 DEF EntryMatches
    <3>3. ASSUME ExitMatches(j) PROVE ExitMatches(j)'
      <4>1. Live(orders[j]) => orders[j].parent # i
        BY <1>2, <1>8, <3>3 DEF ExitMatches, EntryMatches
      <4>2. orders'[orders[j].parent].leg = "ENTRY"
        BY <1>2, <3>3 DEF ExitMatches
      <4> QED
        BY <1>2, <1>7, <3>1, <3>3, <4>1, <4>2 DEF ExitMatches
    <3> QED
      BY <2>1, <3>1, <3>2, <3>3 DEF Matches, Within
  <2> QED
    BY <2>2, <2>3
<1>10. ReservationsMatchOrders' /\ FillsWithinReservations'
  BY <1>2, <1>7, <1>9 DEF ReservationsMatchOrders, FillsWithinReservations, Matches, Within
<1> QED
  BY <1>2, <1>6, <1>10 DEF ReplayInv, TypeOK

\* An event that ends an exit: the parent's reservation reopens with what is
\* unsold, or disappears.
LEMMA ExitEndInv ==
    ASSUME ReplayInv, NEW i \in DOMAIN orders, NEW e \in Events, ReplayEvent(i, e),
           ~Live(Reduce(orders[i], e)), orders[i].leg # "ENTRY"
    PROVE  ReplayInv'
<1>1. PICK o : o = Reduce(orders[i], e)
  OBVIOUS
<1> DEFINE p == o.parent
<1>2. /\ o \in Orders /\ o.leg # "ENTRY" /\ o.filled <= o.qty /\ p = orders[i].parent
      /\ Live(orders[i])
      /\ orders' \in Seq(Orders) /\ lastAt' \in Nat
      /\ Len(orders') = Len(orders) /\ DOMAIN orders' = DOMAIN orders
      /\ orders'[i] = o
      /\ \A j \in DOMAIN orders : j # i => orders'[j] = orders[j]
      /\ DOMAIN ledger.res = DOMAIN orders
  BY <1>1, EventOrders
<1>3. ~Live(o) /\ ledger' = SettleExit(ledger, i, o) /\ CanSettleExit(ledger, i, o)
  BY <1>1, <1>2 DEF ReplayEvent, Settle, Settleable, CanSettleEntry
<1>4. /\ ledger \in Ledgers /\ ledger.res \in Seq(Reservations)
      /\ Len(ledger.res) = Len(orders)
  BY <1>2 DEF ReplayInv, TypeOK, Ledgers, ReservationsMatchOrders
<1>5. /\ ExitMatches(i) /\ p \in DOMAIN orders /\ orders[p].leg = "ENTRY" /\ p # i
      /\ ledger.res[p].status = "EXIT_PENDING" /\ ledger.res[p].exit = i
  BY <1>2 DEF ReplayInv, ReservationsMatchOrders, ExitMatches
<1>6. EntryMatches(p) /\ ~Live(orders[p])
  BY <1>5 DEF ReplayInv, ReservationsMatchOrders, EntryMatches
<1>7. PICK r : r = AfterExit(ledger.res[o.parent], o)
  OBVIOUS
<1>8. /\ ledger' \in Ledgers /\ ledger'.res = [ledger.res EXCEPT ![p] = r]
      /\ r.status \in {"NONE", "OPEN"} /\ (r.status = "OPEN" => r.qty > 0)
  BY <1>2, <1>3, <1>4, <1>5, <1>7, SettleExitType
<1>9. /\ Len(ledger'.res) = Len(orders') /\ ledger'.res[p] = r
      /\ \A j \in DOMAIN orders : j # p => ledger'.res[j] = ledger.res[j]
  BY <1>2, <1>4, <1>5, <1>8
<1> HIDE DEF p
<1>10. ASSUME NEW j \in DOMAIN orders PROVE Matches(j)' /\ Within(j)'
  <2>1. Matches(j) /\ Within(j)
    BY DEF ReplayInv, ReservationsMatchOrders, FillsWithinReservations, Matches, Within
  <2>2. CASE j = i
    <3>1. ledger'.res[i] = ledger.res[i] /\ orders'[p] = orders[p]
      BY <1>2, <1>5, <1>9
    <3>2. ExitMatches(i)'
      BY <1>2, <1>3, <1>5, <3>1 DEF ExitMatches, p
    <3> QED
      BY <1>2, <2>2, <3>2 DEF Matches, Within
  <2>3. CASE j = p
    <3>1. orders'[j] = orders[j] /\ ledger'.res[j] = r
      BY <1>2, <1>5, <1>9, <2>3
    <3>2. EntryMatches(j)'
      BY <1>6, <1>8, <2>3, <3>1 DEF EntryMatches
    <3> QED
      BY <1>5, <1>6, <2>1, <2>3, <3>1, <3>2 DEF Matches, Within
  <2>4. CASE j # i /\ j # p
    <3>1. orders'[j] = orders[j] /\ ledger'.res[j] = ledger.res[j]
      BY <1>2, <1>9, <2>4
    <3>2. ASSUME EntryMatches(j) PROVE EntryMatches(j)'
      <4>1. ledger.res[j].status = "EXIT_PENDING" => ledger.res[j].exit # i
        BY <1>2, <2>4, <3>2 DEF EntryMatches
      <4> QED
        BY <1>2, <3>1, <3>2, <4>1 DEF EntryMatches
    <3>3. ASSUME ExitMatches(j) PROVE ExitMatches(j)'
      <4>1. Live(orders[j]) => orders[j].parent # p
        BY <1>5, <2>4, <3>3 DEF ExitMatches
      <4>2. orders'[orders[j].parent].leg = "ENTRY" /\ orders[j].parent \in DOMAIN orders
        BY <1>2, <3>3 DEF ExitMatches
      <4> QED
        BY <1>2, <1>9, <3>1, <3>3, <4>1, <4>2 DEF ExitMatches
    <3> QED
      BY <2>1, <3>1, <3>2, <3>3 DEF Matches, Within
  <2> QED
    BY <2>2, <2>3, <2>4
<1>11. ReservationsMatchOrders' /\ FillsWithinReservations'
  BY <1>2, <1>9, <1>10 DEF ReservationsMatchOrders, FillsWithinReservations, Matches, Within
<1> QED
  BY <1>2, <1>8, <1>11 DEF ReplayInv, TypeOK

-----------------------------------------------------------------------------
\* The theorems.

\* The intents the log may hold are orders, live and unfilled.
LEMMA NextEntryOrder ==
    ASSUME NextEntry
    PROVE  \E o \in Orders : o.leg = "ENTRY" /\ Live(o) /\ o.filled = 0 /\ ReplayEntry(o)
<1>1. PICK a \in Arbitrations, sym \in Symbols, q \in Quantities, p \in Prices,
           d \in Shortfalls, t \in Times, x \in Lifetimes :
           ReplayEntry(NewOrder("ENTRY", a, 0, sym, q, p, BuyCost(p * q) - d, t, t + x))
  BY DEF NextEntry
<1>2. q \in Nat /\ p \in Nat /\ d \in Nat /\ t \in Nat /\ x \in Nat
  BY PaperReplayAssumption
<1>3. BuyCost(p * q) - d \in Int /\ t + x \in Nat
  <2>1. BuyCost(p * q) \in Nat
    BY <1>2, NatTimes, BuyCostType
  <2> QED
    BY <1>2, <2>1
<1>4. PICK o : o = NewOrder("ENTRY", a, 0, sym, q, p, BuyCost(p * q) - d, t, t + x)
  OBVIOUS
<1>5. o \in Orders
  BY <1>2, <1>3, <1>4, NewOrderType
<1>6. o.leg = "ENTRY" /\ Live(o) /\ o.filled = 0
  BY <1>4 DEF NewOrder, Live, Terminal
<1> QED
  BY <1>1, <1>4, <1>5, <1>6

LEMMA NextExitOrder ==
    ASSUME ReplayInv, NextExit
    PROVE  \E o \in Orders : o.leg = "EXIT" /\ Live(o) /\ o.filled = 0 /\ ReplayExit(o)
<1>1. PICK i \in DOMAIN orders, sym \in Symbols, q \in Quantities, p \in Prices,
           t \in Times, x \in Lifetimes :
           ReplayExit(NewOrder("EXIT", orders[i].arb, i, sym, q, p, 0, t, t + x))
  BY DEF NextExit
<1>2. q \in Nat /\ p \in Nat /\ t \in Nat /\ x \in Nat /\ t + x \in Nat
  BY PaperReplayAssumption
<1>3. i \in Nat /\ orders[i] \in Orders
  BY DEF ReplayInv, TypeOK
<1>4. orders[i].arb \in Arbitrations
  BY <1>3 DEF Orders
<1>5. PICK o : o = NewOrder("EXIT", orders[i].arb, i, sym, q, p, 0, t, t + x)
  OBVIOUS
<1>6. o \in Orders
  <2>1. PICK arb \in Arbitrations : arb = orders[i].arb
    BY <1>4
  <2>2. NewOrder("EXIT", arb, i, sym, q, p, 0, t, t + x) \in Orders
    BY <1>2, <1>3, NewOrderType, SMTT(40)
  <2> QED
    BY <1>5, <2>1, <2>2
<1>7. o.leg = "EXIT" /\ Live(o) /\ o.filled = 0
  BY <1>5 DEF NewOrder, Live, Terminal
<1> QED
  BY <1>1, <1>5, <1>6, <1>7

LEMMA NextInv == ReplayInv /\ [Next]_vars => ReplayInv'
<1> SUFFICES ASSUME ReplayInv, [Next]_vars PROVE ReplayInv'
  OBVIOUS
<1>1. CASE NextEntry
  BY <1>1, NextEntryOrder, EntryInv
<1>2. CASE NextExit
  BY <1>2, NextExitOrder, ExitInv
<1>3. CASE NextEvent
  <2>1. PICK i \in DOMAIN orders, e \in Events : ReplayEvent(i, e)
    BY <1>3 DEF NextEvent
  <2>2. CASE Live(Reduce(orders[i], e))
    BY <2>1, <2>2, LiveEventInv
  <2>3. CASE ~Live(Reduce(orders[i], e)) /\ orders[i].leg = "ENTRY"
    BY <2>1, <2>3, EntryEndInv
  <2>4. CASE ~Live(Reduce(orders[i], e)) /\ orders[i].leg # "ENTRY"
    BY <2>1, <2>4, ExitEndInv
  <2> QED
    BY <2>2, <2>3, <2>4
<1>4. CASE UNCHANGED vars
  BY <1>4 DEF vars, ReplayInv, TypeOK, ReservationsMatchOrders, FillsWithinReservations,
              EntryMatches, ExitMatches
<1> QED
  BY <1>1, <1>2, <1>3, <1>4 DEF Next

LEMMA ReplayInvariant == Spec => []ReplayInv
BY InitInv, NextInv, PTL DEF Spec

\* No log PaperSession.reconcile accepts drives available cash or inventory
\* below zero or breaks the type of a ledger, reservation or order.
THEOREM TypeCorrect == Spec => []TypeOK
<1>1. ReplayInv => TypeOK
  BY DEF ReplayInv
<1> QED
  BY <1>1, ReplayInvariant, PTL

\* Reservations and order histories stay in step through every accepted log:
\* settle_paper_entry and settle_paper_exit always find the reservation their
\* order made, and a reservation is never sold by two live exits.
THEOREM Matching == Spec => []ReservationsMatchOrders
<1>1. ReplayInv => ReservationsMatchOrders
  BY DEF ReplayInv
<1> QED
  BY <1>1, ReplayInvariant, PTL

\* What one step of the replay may do to a terminal order: nothing.
LEMMA FinalStep ==
    ASSUME ReplayInv, Next
    PROVE  \A i \in DOMAIN orders : ~Live(orders[i]) => orders'[i] = orders[i]
<1>1. orders \in Seq(Orders)
  BY DEF ReplayInv, TypeOK
<1>2. CASE NextEntry \/ NextExit
  <2>1. PICK o \in Orders : orders' = Append(orders, o)
    BY <1>2, NextEntryOrder, NextExitOrder DEF ReplayEntry, ReplayExit
  <2> QED
    BY <1>1, <2>1
<1>3. CASE NextEvent
  <2>1. PICK k \in DOMAIN orders, e \in Events : ReplayEvent(k, e)
    BY <1>3 DEF NextEvent
  <2>2. PICK o : o = Reduce(orders[k], e)
    OBVIOUS
  <2>3. Live(orders[k]) /\ \A j \in DOMAIN orders : j # k => orders'[j] = orders[j]
    BY <2>1, <2>2, EventOrders
  <2> QED
    BY <2>3
<1> QED
  BY <1>2, <1>3 DEF Next

\* A settled order is never reopened or rewritten by a later operation.
THEOREM Finality == Spec => TerminalOrdersAreFinal
<1>1. ReplayInv /\ [Next]_vars =>
        [\A i \in DOMAIN orders : ~Live(orders[i]) => orders'[i] = orders[i]]_vars
  BY FinalStep
<1> QED
  BY <1>1, ReplayInvariant, PTL DEF Spec, TerminalOrdersAreFinal

-----------------------------------------------------------------------------
\* The average price.

Bounded(o) == /\ o.leg = "ENTRY" => o.notional <= o.limit * o.filled
              /\ o.leg = "EXIT" => o.notional >= o.limit * o.filled

LEMMA TimesMonotone == \A a, b, c \in Nat : a <= b => a * c <= b * c
OBVIOUS

LEMMA TimesPlus == \A a, b, c \in Nat : a * (b + c) = a * b + a * c
OBVIOUS

\* One fill within the limit keeps the average within the limit.
LEMMA ReduceBounded ==
    ASSUME NEW o \in Orders, NEW e \in Events, CanReduce(o, e), Bounded(o)
    PROVE  Bounded(Reduce(o, e))
<1>1. /\ o.notional \in Nat /\ o.filled \in Nat /\ o.limit \in Nat /\ o.leg \in {"ENTRY", "EXIT"}
      /\ e.price \in Nat /\ e.inc \in Nat
  BY EventFields DEF Orders
<1>2. PICK f \in Nat : f = o.limit * o.filled
  BY <1>1, NatTimes
<1>3. PICK g \in Nat : g = o.limit * e.inc
  BY <1>1, NatTimes
<1>4. PICK h \in Nat : h = e.price * e.inc
  BY <1>1, NatTimes
<1>5. o.limit * (o.filled + e.inc) = f + g
  BY <1>1, <1>2, <1>3, TimesPlus
<1>6. /\ o.leg = "ENTRY" => h <= g
      /\ o.leg = "EXIT" => h >= g
  <2>1. CASE e.inc = 0
    BY <1>1, <1>3, <1>4, <2>1
  <2>2. CASE e.inc > 0
    <3>1. LimitRespected(o, e.price)
      BY <2>2 DEF CanReduce
    <3>2. CASE o.leg = "ENTRY"
      <4>1. e.price <= o.limit
        BY <3>1, <3>2 DEF LimitRespected
      <4> QED
        BY <1>1, <1>3, <1>4, <3>2, <4>1, TimesMonotone
    <3>3. CASE o.leg = "EXIT"
      <4>1. o.limit <= e.price
        BY <1>1, <3>1, <3>3 DEF LimitRespected
      <4> QED
        BY <1>1, <1>3, <1>4, <3>3, <4>1, TimesMonotone
    <3> QED
      BY <1>1, <3>2, <3>3
  <2> QED
    BY <1>1, <2>1, <2>2
<1>7. /\ Reduce(o, e).leg = o.leg
      /\ Reduce(o, e).limit * Reduce(o, e).filled = f + g
      /\ Reduce(o, e).notional = o.notional + h
  BY <1>4, <1>5, ReduceType
<1>8. /\ o.leg = "ENTRY" => o.notional <= f
      /\ o.leg = "EXIT" => o.notional >= f
  BY <1>2 DEF Bounded
<1>9. /\ o.leg = "ENTRY" => o.notional + h <= f + g
      /\ o.leg = "EXIT" => o.notional + h >= f + g
  BY <1>1, <1>6, <1>8
<1> QED
  BY <1>7, <1>9 DEF Bounded

LEMMA AverageStep ==
    ASSUME ReplayInv, AverageWithinLimit, [Next]_vars
    PROVE  AverageWithinLimit'
<1>1. orders \in Seq(Orders)
  BY DEF ReplayInv, TypeOK
<1>2. \A i \in DOMAIN orders : Bounded(orders[i])
  BY DEF AverageWithinLimit, Bounded
<1> SUFFICES \A i \in DOMAIN orders' : Bounded(orders'[i])
  BY DEF AverageWithinLimit, Bounded
<1>3. CASE NextEntry \/ NextExit
  <2>1. PICK o : \/ /\ NextEntry
                    /\ \E a \in Arbitrations, sym \in Symbols, q \in Quantities, p \in Prices,
                          d \in Shortfalls, t \in Times, x \in Lifetimes :
                          o = NewOrder("ENTRY", a, 0, sym, q, p, BuyCost(p * q) - d, t, t + x)
                    /\ ReplayEntry(o)
                 \/ /\ NextExit
                    /\ \E i \in DOMAIN orders, sym \in Symbols, q \in Quantities, p \in Prices,
                          t \in Times, x \in Lifetimes :
                          o = NewOrder("EXIT", orders[i].arb, i, sym, q, p, 0, t, t + x)
                    /\ ReplayExit(o)
    BY <1>3 DEF NextEntry, NextExit
  <2>2. o.notional = 0 /\ o.filled = 0 /\ o.limit \in Nat
    BY <2>1, PaperReplayAssumption DEF NewOrder
  <2>3. Bounded(o)
    BY <2>2 DEF Bounded
  <2>4. orders' = Append(orders, o)
    BY <2>1 DEF ReplayEntry, ReplayExit
  <2> QED
    BY <1>1, <1>2, <2>3, <2>4
<1>4. CASE NextEvent
  <2>1. PICK k \in DOMAIN orders, e \in Events : ReplayEvent(k, e)
    BY <1>4 DEF NextEvent
  <2>2. PICK o : o = Reduce(orders[k], e)
    OBVIOUS
  <2>3. /\ DOMAIN orders' = DOMAIN orders /\ orders'[k] = o /\ orders[k] \in Orders
        /\ \A j \in DOMAIN orders : j # k => orders'[j] = orders[j]
    BY <2>1, <2>2, EventOrders
  <2>4. CanReduce(orders[k], e)
    BY <2>1 DEF ReplayEvent
  <2>5. Bounded(o)
    BY <1>2, <2>2, <2>3, <2>4, ReduceBounded
  <2> QED
    BY <1>2, <2>3, <2>5
<1>5. CASE UNCHANGED vars
  BY <1>2, <1>5 DEF vars
<1> QED
  BY <1>3, <1>4, <1>5 DEF Next

\* In every accepted log the average fill price respects the order's limit,
\* so the reducer's check of the average can never be the one that raises.
THEOREM Average == Spec => []AverageWithinLimit
<1>1. Init => AverageWithinLimit
  BY DEF Init, AverageWithinLimit
<1>2. ReplayInv /\ AverageWithinLimit /\ [Next]_vars => AverageWithinLimit'
  BY AverageStep
<1> QED
  BY <1>1, <1>2, ReplayInvariant, PTL DEF Spec
-----------------------------------------------------------------------------
\* Conservation.  Every step changes at most one term of each sum.

\* An exit's entry is settled, and a settled entry reserves no cash.
ParentsSettled ==
    \A x \in DOMAIN orders : orders[x].leg = "EXIT" => ~Live(orders[orders[x].parent])
SettledHoldNoCash == \A i \in Settled(Entries) : Reserved[i] = 0

ConserveInv == ReplayInv /\ ParentsSettled /\ SettledHoldNoCash /\ LedgerConserved

\* Every set summed over is finite and every term is an integer.
LEMMA Terms ==
    ASSUME ReplayInv
    PROVE  /\ DOMAIN ledger.res = DOMAIN orders
           /\ \A S \in SUBSET DOMAIN orders : IsFiniteSet(S)
           /\ \A i \in DOMAIN orders :
                 /\ orders[i] \in Orders /\ ledger.res[i] \in Reservations
                 /\ Filled[i] = orders[i].filled /\ Filled[i] \in Int
                 /\ Held[i] = ledger.res[i].qty /\ Held[i] \in Int
                 /\ Reserved[i] = ledger.res[i].cash /\ Reserved[i] \in Int
                 /\ Cost[i] = BuyCost(orders[i].notional) /\ Cost[i] \in Int
<1>1. /\ orders \in Seq(Orders) /\ ledger.res \in Seq(Reservations)
      /\ DOMAIN ledger.res = DOMAIN orders
  BY DEF ReplayInv, TypeOK, Ledgers, ReservationsMatchOrders
<1>2. PICK n \in Nat : DOMAIN orders = 1 .. n
  BY <1>1
<1>3. IsFiniteSet(1 .. n)
  BY FS_Interval
<1>4. \A S \in SUBSET DOMAIN orders : IsFiniteSet(S)
  BY <1>2, <1>3, FS_Subset
<1>5. ASSUME NEW i \in DOMAIN orders
      PROVE  /\ orders[i] \in Orders /\ ledger.res[i] \in Reservations
             /\ Filled[i] = orders[i].filled /\ Filled[i] \in Int
             /\ Held[i] = ledger.res[i].qty /\ Held[i] \in Int
             /\ Reserved[i] = ledger.res[i].cash /\ Reserved[i] \in Int
             /\ Cost[i] = BuyCost(orders[i].notional) /\ Cost[i] \in Int
  <2>1. orders[i] \in Orders /\ ledger.res[i] \in Reservations
    BY <1>1
  <2>2. /\ orders[i].filled \in Int /\ ledger.res[i].qty \in Int /\ ledger.res[i].cash \in Int
        /\ orders[i].notional \in Nat
    BY <2>1 DEF Orders, Reservations
  <2>3. BuyCost(orders[i].notional) \in Int
    BY <2>2, BuyCostType
  <2> QED
    BY <1>1, <2>1, <2>2, <2>3 DEF Filled, Held, Reserved, Cost
<1> QED
  BY <1>1, <1>4, <1>5

\* A step that settles no order leaves the sums over settled orders alone.
LEMMA NothingSettles ==
    ASSUME ReplayInv,
           \A j \in DOMAIN orders :
              /\ j \in DOMAIN orders'
              /\ orders'[j].leg = orders[j].leg /\ orders'[j].parent = orders[j].parent
              /\ Live(orders'[j]) <=> Live(orders[j])
              /\ ~Live(orders[j]) => orders'[j] = orders[j],
           \A j \in DOMAIN orders' : j \notin DOMAIN orders => Live(orders'[j])
    PROVE  /\ Settled(Entries)' = Settled(Entries)
           /\ \A S : Sold(S)' = Sold(S)
           /\ \A i \in Settled(Entries) : Filled'[i] = Filled[i]
           /\ \A S : SumFunctionOnSet(Filled', Sold(S)) = SumFunctionOnSet(Filled, Sold(S))
           /\ SumFunctionOnSet(Cost', Settled(Entries)) = SumFunctionOnSet(Cost, Settled(Entries))
<1>1. Settled(Entries)' = Settled(Entries)
  BY DEF Settled, Entries
<1>2. \A S : Sold(S)' = Sold(S)
  BY DEF Sold, Settled
<1>3. \A j \in DOMAIN orders : ~Live(orders[j]) => Filled'[j] = Filled[j] /\ Cost'[j] = Cost[j]
  BY DEF Filled, Cost
<1>4. PICK f, g, c, d : f = Filled /\ g = Filled' /\ c = Cost /\ d = Cost'
  OBVIOUS
<1>5. ASSUME NEW S PROVE SumFunctionOnSet(g, Sold(S)) = SumFunctionOnSet(f, Sold(S))
  <2>1. PICK T : T = Sold(S)
    OBVIOUS
  <2>2. T \in SUBSET DOMAIN orders /\ \A x \in T : f[x] = g[x]
    BY <1>3, <1>4, <2>1 DEF Sold, Settled
  <2>3. IsFiniteSet(T)
    BY <2>2, Terms
  <2> QED
    BY <2>1, <2>2, <2>3, SumSame
<1>6. SumFunctionOnSet(d, Settled(Entries)) = SumFunctionOnSet(c, Settled(Entries))
  <2>1. PICK T : T = Settled(Entries)
    OBVIOUS
  <2>2. T \in SUBSET DOMAIN orders /\ \A x \in T : c[x] = d[x]
    BY <1>3, <1>4, <2>1 DEF Settled, Entries
  <2>3. IsFiniteSet(T)
    BY <2>2, Terms
  <2> QED
    BY <2>1, <2>2, <2>3, SumSame
<1>7. \A i \in Settled(Entries) : Filled'[i] = Filled[i]
  BY <1>3 DEF Settled, Entries
<1> QED
  BY <1>1, <1>2, <1>4, <1>5, <1>6, <1>7

\* What the ledger's transitions do to cash and positions, and what a
\* reservation holds after each.
LEMMA ReserveEntryAccounts ==
    ASSUME NEW l \in Ledgers, NEW o \in Orders
    PROVE  /\ ReserveEntry(l, o).cash = l.cash - o.cash
           /\ ReserveEntry(l, o).pos = [l.pos EXCEPT ![o.sym] = l.pos[o.sym] - o.qty]
           /\ PendingEntry(o).cash = o.cash
BY DEF ReserveEntry, Ledgers, PendingEntry, NoReservation

LEMMA ReserveExitAccounts ==
    ASSUME NEW l \in Ledgers, NEW x, NEW o, NEW r \in Reservations
    PROVE  /\ ReserveExit(l, x, o).cash = l.cash
           /\ ReserveExit(l, x, o).pos = l.pos
           /\ Exiting(r, x).cash = r.cash /\ Exiting(r, x).qty = r.qty
BY DEF ReserveExit, Ledgers, Exiting, Reservations

LEMMA SettleEntryAccounts ==
    ASSUME NEW l \in Ledgers, NEW i, NEW o \in Orders
    PROVE  /\ SettleEntry(l, i, o).cash = l.cash + l.res[i].cash - BuyCost(o.notional)
           /\ SettleEntry(l, i, o).pos[o.sym] = l.pos[o.sym] + l.res[i].qty - o.filled
           /\ \A s \in Symbols : s # o.sym => SettleEntry(l, i, o).pos[s] = l.pos[s]
           /\ AfterEntry(o).cash = 0 /\ AfterEntry(o).qty = o.filled
<1>1. o.sym \in Symbols /\ l.pos \in [Symbols -> Nat]
  BY DEF Orders, Ledgers
<1> QED
  BY <1>1 DEF SettleEntry, Ledgers, AfterEntry, Bought, NoReservation

LEMMA SettleExitAccounts ==
    ASSUME NEW l \in Ledgers, NEW x, NEW o \in Orders, NEW r \in Reservations, o.filled <= r.qty
    PROVE  /\ SettleExit(l, x, o).cash = l.cash
           /\ SettleExit(l, x, o).pos = l.pos
           /\ AfterExit(r, o).qty = r.qty - o.filled
           /\ r.cash = 0 => AfterExit(r, o).cash = 0
<1>1. SettleExit(l, x, o).cash = l.cash /\ SettleExit(l, x, o).pos = l.pos
  BY DEF SettleExit, Ledgers
<1>2. r.qty \in Nat /\ o.filled \in Nat
  BY DEF Reservations, Orders
<1>3. AfterExit(r, o).qty = r.qty - o.filled /\ (r.cash = 0 => AfterExit(r, o).cash = 0)
  BY <1>2 DEF AfterExit, Reopened, NoReservation, Reservations
<1> QED
  BY <1>1, <1>3

\* Two sums with the same terms, and two that differ in one.
LEMMA SameTerms ==
    ASSUME ReplayInv, NEW f, NEW g, NEW S \in SUBSET DOMAIN orders, \A i \in S : g[i] = f[i]
    PROVE  SumFunctionOnSet(g, S) = SumFunctionOnSet(f, S)
BY Terms, SumSame

\* What the settled exits of a set of entries sold is a number.
LEMMA SoldType == ASSUME ReplayInv, NEW S PROVE SumFunctionOnSet(Filled, Sold(S)) \in Int
<1>1. PICK f, T : f = Filled /\ T = Sold(S)
  OBVIOUS
<1>2. T \in SUBSET DOMAIN orders
  BY <1>1 DEF Sold, Settled
<1>3. IsFiniteSet(T) /\ \A x \in T : f[x] \in Int
  BY <1>1, <1>2, Terms
<1> QED
  BY <1>1, <1>3, SumType

\* So is what the settled entries cost.
LEMMA CostType == ASSUME ReplayInv PROVE SumFunctionOnSet(Cost, Settled(Entries)) \in Int
<1>1. PICK f, T : f = Cost /\ T = Settled(Entries)
  OBVIOUS
<1>2. T \in SUBSET DOMAIN orders
  BY <1>1 DEF Entries, Settled
<1>3. IsFiniteSet(T) /\ \A x \in T : f[x] \in Int
  BY <1>1, <1>2, Terms
<1> QED
  BY <1>1, <1>3, SumType

\* An entry intent: its reservation moves o.qty shares and o.cash.
LEMMA EntryConserves ==
    ASSUME ConserveInv, NEW o \in Orders, o.leg = "ENTRY", Live(o), o.filled = 0,
           ReplayEntry(o), ReplayInv'
    PROVE  ConserveInv'
<1>a. PICK n, r : n = Len(orders) + 1 /\ r = PendingEntry(o)
  OBVIOUS
<1>0. ReplayInv /\ CanReserveEntry(ledger, o)
  BY DEF ConserveInv, ReplayEntry
<1>1. /\ ledger \in Ledgers /\ orders \in Seq(Orders) /\ ledger.res \in Seq(Reservations)
      /\ Len(ledger.res) = Len(orders)
  BY <1>0 DEF ReplayInv, TypeOK, Ledgers, ReservationsMatchOrders
<1>2. /\ ledger'.res = Append(ledger.res, r) /\ r.qty = o.qty /\ r.cash = o.cash
      /\ ledger'.cash = ledger.cash - o.cash
      /\ ledger'.pos = [ledger.pos EXCEPT ![o.sym] = ledger.pos[o.sym] - o.qty]
  BY <1>a, <1>0, <1>1, ReserveEntryType, ReserveEntryAccounts DEF ReplayEntry
<1>3. orders' = Append(orders, o)
  BY DEF ReplayEntry
<1>4. /\ DOMAIN orders = 1 .. n - 1 /\ DOMAIN orders' = DOMAIN orders \cup {n}
      /\ DOMAIN ledger'.res = DOMAIN orders \cup {n} /\ n \notin DOMAIN orders
      /\ orders'[n] = o /\ ledger'.res[n] = r
      /\ \A i \in DOMAIN orders : orders'[i] = orders[i] /\ ledger'.res[i] = ledger.res[i]
  BY <1>a, <1>1, <1>2, <1>3
<1>5. /\ o.qty \in Int /\ o.cash \in Int /\ o.sym \in Symbols
      /\ ledger.cash \in Int /\ ledger.pos \in [Symbols -> Nat] /\ StartCash \in Int
  BY <1>1, PaperLedgerAssumption DEF Orders, Ledgers
<1>6. \A x \in DOMAIN orders : orders[x].leg = "EXIT" => orders[x].parent \in DOMAIN orders
  BY <1>0 DEF ReplayInv, ReservationsMatchOrders, ExitMatches
<1>7. ParentsSettled'
  BY <1>4, <1>6 DEF ConserveInv, ParentsSettled
<1>8. /\ Settled(Entries)' = Settled(Entries)
      /\ \A S : Sold(S)' = Sold(S)
      /\ \A i \in Settled(Entries) : Filled'[i] = Filled[i]
      /\ \A S : SumFunctionOnSet(Filled', Sold(S)) = SumFunctionOnSet(Filled, Sold(S))
      /\ SumFunctionOnSet(Cost', Settled(Entries)) = SumFunctionOnSet(Cost, Settled(Entries))
  BY <1>0, <1>4, NothingSettles
<1>9. /\ \A i \in DOMAIN orders : Held'[i] = Held[i] /\ Reserved'[i] = Reserved[i]
      /\ Held'[n] = o.qty /\ Reserved'[n] = o.cash
  BY <1>1, <1>2, <1>4 DEF Held, Reserved
<1>10. Settled(Entries) \subseteq DOMAIN orders
  BY DEF Settled, Entries
<1>11. SettledHoldNoCash'
  BY <1>8, <1>9, <1>10 DEF ConserveInv, SettledHoldNoCash
<1>12. CycleConserved'
  BY <1>8, <1>9, <1>10 DEF ConserveInv, LedgerConserved, CycleConserved
<1>13. PICK f, g, h, k : f = Held /\ g = Held' /\ h = Reserved /\ k = Reserved'
  OBVIOUS
<1>14. ASSUME NEW sym \in Symbols
       PROVE  ledger'.pos[sym] + SumFunctionOnSet(Held', EntriesOf(sym)')
                + SumFunctionOnSet(Filled', Sold(EntriesOf(sym))') = StartPosition[sym]
  <2>1. PICK S : S = EntriesOf(sym)
    OBVIOUS
  <2>2. S \in SUBSET DOMAIN orders /\ n \notin S
    BY <1>4, <2>1 DEF EntriesOf, Entries
  <2>3. PICK a, b, c : /\ a = SumFunctionOnSet(f, S) /\ b = SumFunctionOnSet(Filled, Sold(S))
                       /\ c = ledger.pos[sym]
    OBVIOUS
  <2>4. c + a + b = StartPosition[sym] /\ c \in Int
    BY <1>5, <1>13, <2>1, <2>3 DEF ConserveInv, LedgerConserved, InventoryConserved
  <2>5. SumFunctionOnSet(g, S) = a /\ a \in Int
    BY <1>0, <1>9, <1>13, <2>2, <2>3, SameTerms, Terms, SumType
  <2>6. b \in Int
    BY <1>0, <2>3, SoldType
  <2>7. SumFunctionOnSet(Filled', Sold(S)') = b
    BY <1>8, <2>3
  <2>8. CASE sym # o.sym
    <3>1. EntriesOf(sym)' = S /\ ledger'.pos[sym] = c
      BY <1>2, <1>4, <1>5, <2>1, <2>3, <2>8, ZenonT(60) DEF EntriesOf, Entries
    <3> QED
      BY <1>13, <2>3, <2>4, <2>5, <2>7, <3>1
  <2>9. CASE sym = o.sym
    <3>1. EntriesOf(sym)' = S \cup {n} /\ ledger'.pos[sym] = c - o.qty
      BY <1>2, <1>4, <1>5, <2>1, <2>3, <2>9 DEF EntriesOf, Entries
    <3>2. Sold(S \cup {n}) = Sold(S)
      BY <1>4, <1>6 DEF Sold, Settled
    <3>3. Sold(S \cup {n})' = Sold(S)'
      BY <1>8, <3>2
    <3>4. SumFunctionOnSet(g, S \cup {n}) = SumFunctionOnSet(g, S) + g[n]
      <4>1. IsFiniteSet(S) /\ \A y \in S \cup {n} : g[y] \in Int
        BY <1>0, <1>5, <1>9, <1>13, <2>2, Terms
      <4> QED
        BY <2>2, <4>1, SumAdd
    <3>5. SumFunctionOnSet(g, S \cup {n}) = a + o.qty
      BY <1>9, <1>13, <2>5, <3>4
    <3> QED
      BY <1>5, <1>13, <2>4, <2>5, <2>6, <2>7, <3>1, <3>3, <3>5
  <2> QED
    BY <2>8, <2>9
<1>15. InventoryConserved'
  BY <1>14 DEF InventoryConserved
<1>16. CashConserved'
  <2>1. PICK D, a, b : /\ D = DOMAIN orders /\ a = SumFunctionOnSet(h, D)
                       /\ b = SumFunctionOnSet(Cost, Settled(Entries))
    OBVIOUS
  <2>2. ledger.cash + a + b = StartCash
    BY <1>0, <1>13, <2>1, Terms DEF ConserveInv, LedgerConserved, CashConserved
  <2>3. SumFunctionOnSet(k, D) = a /\ a \in Int
    BY <1>0, <1>9, <1>13, <2>1, SameTerms, Terms, SumType
  <2>4. SumFunctionOnSet(k, D \cup {n}) = a + o.cash
    <3>1. IsFiniteSet(D) /\ n \notin D /\ \A y \in D \cup {n} : k[y] \in Int
      BY <1>0, <1>4, <1>5, <1>9, <1>13, <2>1, Terms
    <3>2. SumFunctionOnSet(k, D \cup {n}) = SumFunctionOnSet(k, D) + k[n]
      BY <3>1, SumAdd
    <3> QED
      BY <1>9, <1>13, <2>3, <3>2
  <2>5. b \in Int
    BY <1>0, <2>1, CostType
  <2>6. SumFunctionOnSet(Reserved', DOMAIN ledger'.res) = a + o.cash
    BY <1>4, <1>13, <2>1, <2>4
  <2>7. SumFunctionOnSet(Cost', Settled(Entries)') = b
    BY <1>8, <2>1
  <2>8. ledger.cash - o.cash + (a + o.cash) + b = StartCash
    BY <1>5, <2>2, <2>3, <2>5
  <2> QED
    BY <1>2, <2>6, <2>7, <2>8 DEF CashConserved
<1> QED
  BY <1>7, <1>11, <1>12, <1>15, <1>16 DEF ConserveInv, LedgerConserved

\* A step that moves no cash and no shares: a new exit, or an event that
\* leaves its order live.
LEMMA NothingMoves ==
    ASSUME ConserveInv, ParentsSettled',
           \A j \in DOMAIN orders :
              /\ j \in DOMAIN orders'
              /\ orders'[j].leg = orders[j].leg /\ orders'[j].parent = orders[j].parent
              /\ orders'[j].sym = orders[j].sym
              /\ Live(orders'[j]) <=> Live(orders[j])
              /\ ~Live(orders[j]) => orders'[j] = orders[j]
              /\ Held'[j] = Held[j] /\ Reserved'[j] = Reserved[j],
           \A j \in DOMAIN orders' : j \notin DOMAIN orders =>
              Live(orders'[j]) /\ orders'[j].leg = "EXIT",
           ledger'.pos = ledger.pos, ledger'.cash = ledger.cash,
           SumFunctionOnSet(Reserved', DOMAIN ledger'.res) =
              SumFunctionOnSet(Reserved, DOMAIN ledger.res),
           ReplayInv'
    PROVE  ConserveInv'
<1>0. ReplayInv
  BY DEF ConserveInv
<1>1. /\ Settled(Entries)' = Settled(Entries)
      /\ \A S : Sold(S)' = Sold(S)
      /\ \A i \in Settled(Entries) : Filled'[i] = Filled[i]
      /\ \A S : SumFunctionOnSet(Filled', Sold(S)) = SumFunctionOnSet(Filled, Sold(S))
      /\ SumFunctionOnSet(Cost', Settled(Entries)) = SumFunctionOnSet(Cost, Settled(Entries))
  BY <1>0, NothingSettles
<1>2. Settled(Entries) \subseteq DOMAIN orders
  BY DEF Settled, Entries
<1>3. SettledHoldNoCash'
  BY <1>1, <1>2 DEF ConserveInv, SettledHoldNoCash
<1>4. CycleConserved'
  BY <1>1, <1>2 DEF ConserveInv, LedgerConserved, CycleConserved
<1>5. ASSUME NEW sym \in Symbols
      PROVE  ledger'.pos[sym] + SumFunctionOnSet(Held', EntriesOf(sym)')
               + SumFunctionOnSet(Filled', Sold(EntriesOf(sym))') = StartPosition[sym]
  <2>1. PICK S, f, g : S = EntriesOf(sym) /\ f = Held /\ g = Held'
    OBVIOUS
  <2>2. S \in SUBSET DOMAIN orders
    BY <2>1 DEF EntriesOf, Entries
  <2>3. EntriesOf(sym)' = S
    BY <2>1 DEF EntriesOf, Entries
  <2>4. SumFunctionOnSet(g, S) = SumFunctionOnSet(f, S)
    BY <1>0, <2>1, <2>2, SameTerms
  <2>5. SumFunctionOnSet(Filled', Sold(S)') = SumFunctionOnSet(Filled, Sold(S))
    BY <1>1
  <2>6. ledger.pos[sym] + SumFunctionOnSet(f, S) + SumFunctionOnSet(Filled, Sold(S))
          = StartPosition[sym]
    BY <2>1 DEF ConserveInv, LedgerConserved, InventoryConserved
  <2> QED
    BY <2>1, <2>3, <2>4, <2>5, <2>6
<1>6. InventoryConserved'
  BY <1>5 DEF InventoryConserved
<1>7. CashConserved'
  BY <1>1 DEF ConserveInv, LedgerConserved, CashConserved
<1> QED
  BY <1>3, <1>4, <1>6, <1>7 DEF ConserveInv, LedgerConserved

\* An exit intent: its reservation keeps its shares.
LEMMA ExitConserves ==
    ASSUME ConserveInv, NEW o \in Orders, o.leg = "EXIT", Live(o), o.filled = 0,
           ReplayExit(o), ReplayInv'
    PROVE  ConserveInv'
<1>0. ReplayInv /\ CanReserveExit(ledger, o)
  BY DEF ConserveInv, ReplayExit
<1>1. /\ ledger \in Ledgers /\ orders \in Seq(Orders) /\ ledger.res \in Seq(Reservations)
      /\ Len(ledger.res) = Len(orders)
  BY <1>0 DEF ReplayInv, TypeOK, Ledgers, ReservationsMatchOrders
<1>2. PICK n, p, q, r : /\ n \in Nat /\ n = Len(orders) + 1 /\ p = o.parent
                        /\ q = ledger.res[p] /\ r = Exiting(q, n)
  BY <1>1
<1>3. p \in DOMAIN orders /\ q \in Reservations /\ q.status = "OPEN"
  BY <1>0, <1>1, <1>2 DEF CanReserveExit
<1>4. ledger' = ReserveExit(ledger, n, o) /\ orders' = Append(orders, o)
  BY <1>2 DEF ReplayExit
<1>5. ledger'.res = Append([ledger.res EXCEPT ![p] = r], NoReservation) /\ r \in Reservations
  BY <1>0, <1>1, <1>2, <1>4, ReserveExitType
<1>6. /\ ledger'.cash = ledger.cash /\ ledger'.pos = ledger.pos
      /\ r.cash = q.cash /\ r.qty = q.qty
  BY <1>1, <1>2, <1>3, <1>4, ReserveExitAccounts
<1>7. /\ DOMAIN orders' = DOMAIN orders \cup {n} /\ DOMAIN ledger'.res = DOMAIN orders \cup {n}
      /\ n \notin DOMAIN orders
      /\ orders'[n] = o /\ ledger'.res[n] = NoReservation /\ ledger'.res[p] = r
      /\ \A i \in DOMAIN orders : /\ orders'[i] = orders[i]
                                  /\ i # p => ledger'.res[i] = ledger.res[i]
  <2>0. [ledger.res EXCEPT ![p] = r] \in Seq(Reservations)
    BY <1>1, <1>3, <1>5
  <2>1. PICK res \in Seq(Reservations) : res = [ledger.res EXCEPT ![p] = r]
    BY <2>0
  <2>2. /\ Len(res) = Len(ledger.res) /\ DOMAIN res = DOMAIN ledger.res /\ res[p] = r
        /\ \A i \in DOMAIN res : i # p => res[i] = ledger.res[i]
    BY <1>1, <1>3, <2>1
  <2>3. ledger'.res = Append(res, NoReservation) /\ n = Len(res) + 1
    BY <1>1, <1>2, <1>5, <2>1, <2>2
  <2>4. p \in DOMAIN res /\ DOMAIN res = DOMAIN orders /\ DOMAIN orders = 1 .. n - 1
    BY <1>1, <1>2, <1>3, <2>2
  <2>5. DOMAIN ledger'.res = DOMAIN orders \cup {n} /\ ledger'.res[n] = NoReservation
    BY <2>1, <2>3, <2>4
  <2>6. \A i \in DOMAIN res : ledger'.res[i] = res[i]
    BY <2>1, <2>3
  <2>7. /\ DOMAIN orders' = DOMAIN orders \cup {n} /\ orders'[n] = o
        /\ \A i \in DOMAIN orders : orders'[i] = orders[i]
    BY <1>1, <1>2, <1>4
  <2> QED
    BY <2>2, <2>4, <2>5, <2>6, <2>7
<1>8. \A i \in DOMAIN orders : Held'[i] = Held[i] /\ Reserved'[i] = Reserved[i]
  BY <1>0, <1>2, <1>6, <1>7, Terms DEF Held, Reserved
<1>9. Reserved'[n] = 0
  BY <1>7 DEF Reserved, NoReservation
<1>10. ~Live(orders[p])
  <2>1. q # NoReservation
    BY <1>3 DEF NoReservation
  <2>2. IF orders[p].leg = "ENTRY" THEN EntryMatches(p) ELSE ExitMatches(p)
    BY <1>0, <1>3 DEF ReplayInv, ReservationsMatchOrders
  <2> QED
    BY <1>2, <1>3, <2>1, <2>2 DEF EntryMatches, ExitMatches
<1>11. \A x \in DOMAIN orders : orders[x].leg = "EXIT" => orders[x].parent \in DOMAIN orders
  <2>1. \A x \in DOMAIN orders : orders[x].leg = "EXIT" => ExitMatches(x)
    BY <1>0 DEF ReplayInv, ReservationsMatchOrders
  <2> QED
    BY <2>1 DEF ExitMatches
<1>12. ParentsSettled'
  BY <1>2, <1>3, <1>7, <1>10, <1>11 DEF ConserveInv, ParentsSettled
<1>13. SumFunctionOnSet(Reserved', DOMAIN ledger'.res) =
         SumFunctionOnSet(Reserved, DOMAIN ledger.res)
  <2>1. PICK D, f, g : D = DOMAIN orders /\ f = Reserved /\ g = Reserved'
    OBVIOUS
  <2>2. SumFunctionOnSet(g, D) = SumFunctionOnSet(f, D) /\ SumFunctionOnSet(f, D) \in Int
    BY <1>0, <1>8, <2>1, SameTerms, Terms, SumType
  <2>3. IsFiniteSet(D) /\ \A y \in D \cup {n} : g[y] \in Int
    BY <1>0, <1>8, <1>9, <2>1, Terms
  <2>4. SumFunctionOnSet(g, D \cup {n}) = SumFunctionOnSet(g, D) + g[n]
    BY <1>7, <2>1, <2>3, SumAdd
  <2> QED
    BY <1>0, <1>7, <1>9, <2>1, <2>2, <2>4, Terms
<1> QED
  BY <1>6, <1>7, <1>8, <1>12, <1>13, NothingMoves

\* An event that leaves its order live does not touch the ledger.
LEMMA LiveEventConserves ==
    ASSUME ConserveInv, NEW i \in DOMAIN orders, NEW e \in Events, ReplayEvent(i, e),
           Live(Reduce(orders[i], e)), ReplayInv'
    PROVE  ConserveInv'
<1>0. ReplayInv
  BY DEF ConserveInv
<1>1. PICK o : o = Reduce(orders[i], e)
  OBVIOUS
<1>2. /\ orders[i] \in Orders /\ Live(orders[i]) /\ Live(o)
      /\ o.leg = orders[i].leg /\ o.parent = orders[i].parent
      /\ DOMAIN orders' = DOMAIN orders /\ orders'[i] = o
      /\ \A j \in DOMAIN orders : j # i => orders'[j] = orders[j]
  BY <1>0, <1>1, EventOrders
<1>3. o.sym = orders[i].sym
  BY <1>1, <1>2, ReduceType
<1>4. ledger' = ledger
  BY <1>1, <1>2 DEF ReplayEvent
<1>5. Held' = Held /\ Reserved' = Reserved
  BY <1>4 DEF Held, Reserved
<1>6. \A j \in DOMAIN orders :
         /\ orders'[j].leg = orders[j].leg /\ orders'[j].parent = orders[j].parent
         /\ orders'[j].sym = orders[j].sym
         /\ Live(orders'[j]) <=> Live(orders[j])
         /\ ~Live(orders[j]) => orders'[j] = orders[j]
  BY <1>2, <1>3
<1>7. ParentsSettled'
  <2>1. \A x \in DOMAIN orders : orders[x].leg = "EXIT" => ExitMatches(x)
    BY <1>0 DEF ReplayInv, ReservationsMatchOrders
  <2> QED
    BY <1>2, <1>6, <2>1 DEF ConserveInv, ParentsSettled, ExitMatches
<1> QED
  BY <1>2, <1>4, <1>5, <1>6, <1>7, NothingMoves

\* One term of a sum is replaced.
LEMMA OneTerm ==
    ASSUME NEW f, NEW g, NEW S, IsFiniteSet(S), NEW x,
           \A y \in S : f[y] \in Int /\ g[y] \in Int, \A y \in S : y # x => g[y] = f[y]
    PROVE  /\ x \in S => SumFunctionOnSet(g, S) = SumFunctionOnSet(f, S) - f[x] + g[x]
           /\ x \notin S => SumFunctionOnSet(g, S) = SumFunctionOnSet(f, S)
           /\ SumFunctionOnSet(f, S) \in Int
<1>1. SumFunctionOnSet(f, S) \in Int
  BY SumType
<1>2. CASE x \in S
  BY <1>1, <1>2, SumChange
<1>3. CASE x \notin S
  BY <1>1, <1>3, SumSame
<1> QED
  BY <1>2, <1>3

\* An event that ends an entry: what it did not buy returns, with its cash.
LEMMA EntryEndConserves ==
    ASSUME ConserveInv, NEW k \in DOMAIN orders, NEW e \in Events, ReplayEvent(k, e),
           ~Live(Reduce(orders[k], e)), orders[k].leg = "ENTRY", ReplayInv'
    PROVE  ConserveInv'
<1>0. ReplayInv
  BY DEF ConserveInv
<1>1. PICK o, q, r : o = Reduce(orders[k], e) /\ q = ledger.res[k] /\ r = AfterEntry(o)
  OBVIOUS
<1>2. /\ orders[k] \in Orders /\ o \in Orders /\ Live(orders[k]) /\ ~Live(o)
      /\ o.leg = "ENTRY" /\ o.parent = orders[k].parent
      /\ o.filled <= o.qty /\ o.qty = orders[k].qty
      /\ DOMAIN orders' = DOMAIN orders /\ orders'[k] = o
      /\ \A j \in DOMAIN orders : j # k => orders'[j] = orders[j]
  BY <1>0, <1>1, EventOrders
<1>3. o.sym = orders[k].sym /\ o.sym \in Symbols /\ o.filled \in Int /\ o.notional \in Nat
  BY <1>1, <1>2, ReduceType DEF Orders
<1>4. ledger' = SettleEntry(ledger, k, o) /\ CanSettleEntry(ledger, k, o)
  BY <1>1, <1>2 DEF ReplayEvent, Settle, Settleable, CanSettleExit
<1>5. /\ ledger \in Ledgers /\ ledger.res \in Seq(Reservations) /\ k \in DOMAIN ledger.res
      /\ DOMAIN ledger.res = DOMAIN orders /\ q \in Reservations /\ q.qty = o.qty
      /\ ledger.cash \in Int /\ ledger.pos \in [Symbols -> Nat] /\ StartCash \in Int
  <2>1. ledger \in Ledgers
    BY <1>0 DEF ReplayInv, TypeOK
  <2>2. DOMAIN ledger.res = DOMAIN orders /\ q \in Reservations
    BY <1>0, <1>1, Terms
  <2>3. ledger.res \in Seq(Reservations) /\ ledger.cash \in Int /\ ledger.pos \in [Symbols -> Nat]
    BY <2>1 DEF Ledgers
  <2>4. q.qty = o.qty
    BY <1>0, <1>1, <1>2 DEF ReplayInv, FillsWithinReservations
  <2>5. StartCash \in Int
    BY PaperLedgerAssumption
  <2> QED
    BY <2>1, <2>2, <2>3, <2>4, <2>5
<1>6. ledger'.res = [ledger.res EXCEPT ![k] = r]
  BY <1>1, <1>2, <1>4, <1>5, SettleEntryType
<1>7. /\ ledger'.cash = ledger.cash + q.cash - BuyCost(o.notional)
      /\ ledger'.pos[o.sym] = ledger.pos[o.sym] + q.qty - o.filled
      /\ \A s \in Symbols : s # o.sym => ledger'.pos[s] = ledger.pos[s]
      /\ r.cash = 0 /\ r.qty = o.filled
  <2>1. /\ SettleEntry(ledger, k, o).cash = ledger.cash + ledger.res[k].cash - BuyCost(o.notional)
        /\ SettleEntry(ledger, k, o).pos[o.sym] = ledger.pos[o.sym] + ledger.res[k].qty - o.filled
        /\ \A s \in Symbols : s # o.sym => SettleEntry(ledger, k, o).pos[s] = ledger.pos[s]
        /\ AfterEntry(o).cash = 0 /\ AfterEntry(o).qty = o.filled
    <3>1. ledger \in Ledgers /\ o \in Orders
      BY <1>2, <1>5
    <3> QED
      BY <3>1, SettleEntryAccounts
  <2> QED
    BY <1>1, <1>4, <2>1
<1>8. q.qty \in Int /\ q.cash \in Int /\ BuyCost(o.notional) \in Int
  <2>1. q.qty \in Int /\ q.cash \in Int
    BY <1>5 DEF Reservations
  <2>2. BuyCost(o.notional) \in Nat
    BY <1>3, BuyCostType
  <2> QED
    BY <2>1, <2>2
<1>9. /\ DOMAIN ledger'.res = DOMAIN orders /\ ledger'.res[k] = r
      /\ \A j \in DOMAIN orders : j # k => ledger'.res[j] = ledger.res[j]
  BY <1>5, <1>6
<1>10. /\ k \notin Settled(Entries) /\ Settled(Entries)' = Settled(Entries) \cup {k}
       /\ Settled(Entries) \subseteq DOMAIN orders
       /\ \A sym : EntriesOf(sym)' = EntriesOf(sym) /\ EntriesOf(sym) \subseteq DOMAIN orders
       /\ \A sym : k \in EntriesOf(sym) <=> sym = o.sym
  BY <1>2, <1>3 DEF Settled, Entries, EntriesOf
<1>11. \A S : Sold(S)' = Sold(S) /\ k \notin Sold(S) /\ Sold(S) \subseteq DOMAIN orders
  BY <1>2 DEF Sold, Settled
<1>12. ParentsSettled'
  <2>1. \A x \in DOMAIN orders : orders[x].leg = "EXIT" => ExitMatches(x)
    BY <1>0 DEF ReplayInv, ReservationsMatchOrders
  <2> QED
    BY <1>2, <2>1 DEF ConserveInv, ParentsSettled, ExitMatches
<1>13. Sold({k}) = {}
  BY <1>2 DEF ConserveInv, ParentsSettled, Sold, Settled
<1>14. /\ \A j \in DOMAIN orders :
             j # k => /\ Filled'[j] = Filled[j] /\ Cost'[j] = Cost[j]
                      /\ Held'[j] = Held[j] /\ Reserved'[j] = Reserved[j]
       /\ Filled'[k] = o.filled /\ Cost'[k] = BuyCost(o.notional)
       /\ Held[k] = q.qty /\ Held'[k] = o.filled
       /\ Reserved[k] = q.cash /\ Reserved'[k] = 0
  BY <1>1, <1>2, <1>5, <1>7, <1>9 DEF Filled, Cost, Held, Reserved
<1>15. PICK f, fn, c, cn, h, hn, v, vn :
          /\ f = Filled /\ fn = Filled' /\ c = Cost /\ cn = Cost'
          /\ h = Held /\ hn = Held' /\ v = Reserved /\ vn = Reserved'
  OBVIOUS
<1>16. \A j \in DOMAIN orders :
          /\ f[j] \in Int /\ fn[j] \in Int /\ c[j] \in Int /\ cn[j] \in Int
          /\ h[j] \in Int /\ hn[j] \in Int /\ v[j] \in Int /\ vn[j] \in Int
  BY <1>0, <1>3, <1>8, <1>14, <1>15, Terms
<1>17. \A S : SumFunctionOnSet(fn, Sold(S)) = SumFunctionOnSet(f, Sold(S))
  <2> TAKE S
  <2>1. PICK T : T = Sold(S)
    OBVIOUS
  <2>2. T \in SUBSET DOMAIN orders /\ \A i \in T : fn[i] = f[i]
    BY <1>11, <1>14, <1>15, <2>1
  <2> QED
    BY <1>0, <2>1, <2>2, SameTerms
<1>18. SettledHoldNoCash'
  BY <1>10, <1>14 DEF ConserveInv, SettledHoldNoCash
<1>19. CycleConserved'
  <2> SUFFICES ASSUME NEW i \in Settled(Entries)'
               PROVE  SumFunctionOnSet(fn, Sold({i})') + hn[i] = fn[i]
    BY <1>15 DEF CycleConserved
  <2>0. Sold({i})' = Sold({i})
    BY <1>11
  <2>1. CASE i = k
    <3>1. SumFunctionOnSet(fn, Sold({k})) = 0
      BY <1>13, SumEmpty
    <3> QED
      BY <1>3, <1>14, <1>15, <2>0, <2>1, <3>1
  <2>2. CASE i # k
    <3>1. i \in Settled(Entries) /\ i \in DOMAIN orders
      BY <1>10, <2>2
    <3>2. SumFunctionOnSet(f, Sold({i})) + h[i] = f[i]
      BY <1>15, <3>1 DEF ConserveInv, LedgerConserved, CycleConserved
    <3> QED
      BY <1>14, <1>15, <1>17, <2>0, <2>2, <3>1, <3>2
  <2> QED
    BY <2>1, <2>2
<1>20. ASSUME NEW sym \in Symbols
       PROVE  ledger'.pos[sym] + SumFunctionOnSet(Held', EntriesOf(sym)')
                + SumFunctionOnSet(Filled', Sold(EntriesOf(sym))') = StartPosition[sym]
  <2>1. PICK S, a, b, p : /\ S = EntriesOf(sym) /\ a = SumFunctionOnSet(h, S)
                          /\ b = SumFunctionOnSet(f, Sold(S)) /\ p = ledger.pos[sym]
    OBVIOUS
  <2>2. p + a + b = StartPosition[sym] /\ p \in Int
    BY <1>5, <1>15, <2>1 DEF ConserveInv, LedgerConserved, InventoryConserved
  <2>3. S \in SUBSET DOMAIN orders /\ IsFiniteSet(S) /\ (k \in S <=> sym = o.sym)
    BY <1>0, <1>10, <2>1, Terms
  <2>4. b \in Int
    BY <1>0, <1>15, <2>1, SoldType
  <2>5. /\ k \in S => SumFunctionOnSet(hn, S) = a - h[k] + hn[k]
        /\ k \notin S => SumFunctionOnSet(hn, S) = a
        /\ a \in Int
    <3>1. \A y \in S : h[y] \in Int /\ hn[y] \in Int /\ (y # k => hn[y] = h[y])
      BY <1>14, <1>15, <1>16, <2>3
    <3> QED
      BY <2>1, <2>3, <3>1, OneTerm
  <2>6. SumFunctionOnSet(Filled', Sold(S)') = b
    BY <1>11, <1>15, <1>17, <2>1
  <2>7. EntriesOf(sym)' = S
    BY <1>10, <2>1
  <2>8. CASE sym = o.sym
    <3>1. ledger'.pos[sym] = p + q.qty - o.filled
      BY <1>5, <1>7, <2>1, <2>8
    <3>2. SumFunctionOnSet(hn, S) = a - q.qty + o.filled
      BY <1>14, <1>15, <2>3, <2>5, <2>8
    <3>3. (p + q.qty - o.filled) + (a - q.qty + o.filled) + b = StartPosition[sym]
      BY <1>3, <1>8, <2>2, <2>4, <2>5
    <3> QED
      BY <1>15, <2>6, <2>7, <3>1, <3>2, <3>3
  <2>9. CASE sym # o.sym
    <3>1. ledger'.pos[sym] = p
      BY <1>5, <1>7, <2>1, <2>9
    <3> QED
      BY <1>15, <2>2, <2>3, <2>5, <2>6, <2>7, <2>9, <3>1
  <2> QED
    BY <2>8, <2>9
<1>21. InventoryConserved'
  BY <1>20 DEF InventoryConserved
<1>22. CashConserved'
  <2>1. PICK D, E, a, b : /\ D = DOMAIN orders /\ E = Settled(Entries)
                          /\ a = SumFunctionOnSet(v, D) /\ b = SumFunctionOnSet(c, E)
    OBVIOUS
  <2>2. ledger.cash + a + b = StartCash
    BY <1>5, <1>15, <2>1 DEF ConserveInv, LedgerConserved, CashConserved
  <2>3. IsFiniteSet(D) /\ E \in SUBSET D /\ IsFiniteSet(E) /\ k \notin E /\ k \in D
    BY <1>0, <1>10, <2>1, Terms
  <2>4. SumFunctionOnSet(vn, D) = a - q.cash /\ a \in Int
    <3>1. \A y \in D : v[y] \in Int /\ vn[y] \in Int /\ (y # k => vn[y] = v[y])
      BY <1>14, <1>15, <1>16, <2>1
    <3>2. SumFunctionOnSet(vn, D) = a - v[k] + vn[k] /\ a \in Int
      BY <2>1, <2>3, <3>1, OneTerm
    <3> QED
      BY <1>8, <1>14, <1>15, <3>2
  <2>5. SumFunctionOnSet(cn, E \cup {k}) = b + BuyCost(o.notional) /\ b \in Int
    <3>1. \A y \in E : cn[y] = c[y]
      BY <1>14, <1>15, <2>1, <2>3
    <3>2. SumFunctionOnSet(cn, E) = b
      BY <1>0, <2>1, <2>3, <3>1, SameTerms
    <3>3. \A y \in E \cup {k} : cn[y] \in Int
      BY <1>16, <2>1, <2>3
    <3>4. SumFunctionOnSet(cn, E \cup {k}) = SumFunctionOnSet(cn, E) + cn[k]
      BY <2>3, <3>3, SumAdd
    <3>5. b \in Int
      BY <2>3, <3>2, <3>3, SumType
    <3> QED
      BY <1>14, <1>15, <3>2, <3>4, <3>5
  <2>6. /\ SumFunctionOnSet(Reserved', DOMAIN ledger'.res) = a - q.cash
        /\ SumFunctionOnSet(Cost', Settled(Entries)') = b + BuyCost(o.notional)
    BY <1>9, <1>10, <1>15, <2>1, <2>4, <2>5
  <2>7. (ledger.cash + q.cash - BuyCost(o.notional)) + (a - q.cash) + (b + BuyCost(o.notional))
           = StartCash
    BY <1>5, <1>8, <2>2, <2>4, <2>5
  <2> QED
    BY <1>7, <2>6, <2>7 DEF CashConserved
<1> QED
  BY <1>12, <1>18, <1>19, <1>21, <1>22 DEF ConserveInv, LedgerConserved

\* An event that ends an exit: its shares leave the parent's reservation.
LEMMA ExitEndConserves ==
    ASSUME ConserveInv, NEW k \in DOMAIN orders, NEW e \in Events, ReplayEvent(k, e),
           ~Live(Reduce(orders[k], e)), orders[k].leg # "ENTRY", ReplayInv'
    PROVE  ConserveInv'
<1>0. ReplayInv
  BY DEF ConserveInv
<1>1. PICK o, p : o = Reduce(orders[k], e) /\ p = orders[k].parent
  OBVIOUS
<1>2. /\ orders[k] \in Orders /\ o \in Orders /\ Live(orders[k]) /\ ~Live(o)
      /\ o.leg = "EXIT" /\ orders[k].leg = "EXIT" /\ o.parent = p
      /\ DOMAIN orders' = DOMAIN orders /\ orders'[k] = o
      /\ \A j \in DOMAIN orders : j # k => orders'[j] = orders[j]
  <2>1. /\ orders[k] \in Orders /\ o \in Orders /\ Live(orders[k]) /\ o.leg = orders[k].leg
        /\ o.parent = p /\ DOMAIN orders' = DOMAIN orders /\ orders'[k] = o
        /\ \A j \in DOMAIN orders : j # k => orders'[j] = orders[j]
    BY <1>0, <1>1, EventOrders
  <2>2. o.leg \in {"ENTRY", "EXIT"}
    BY <2>1 DEF Orders
  <2> QED
    BY <1>1, <2>1, <2>2
<1>3. o.sym = orders[k].sym /\ o.filled \in Int
  BY <1>1, <1>2, ReduceType DEF Orders
<1>4. ledger' = SettleExit(ledger, k, o) /\ CanSettleExit(ledger, k, o)
  BY <1>1, <1>2 DEF ReplayEvent, Settle, Settleable, CanSettleEntry
<1>5. /\ ExitMatches(k) /\ p \in DOMAIN orders /\ orders[p].leg = "ENTRY" /\ p # k
      /\ ~Live(orders[p])
  <2>1. ExitMatches(k)
    BY <1>0, <1>2 DEF ReplayInv, ReservationsMatchOrders
  <2> QED
    BY <1>1, <1>2, <2>1 DEF ExitMatches, ConserveInv, ParentsSettled
<1>6. PICK q, r : q = ledger.res[p] /\ r = AfterExit(q, o)
  OBVIOUS
<1>7. /\ ledger \in Ledgers /\ ledger.res \in Seq(Reservations) /\ p \in DOMAIN ledger.res
      /\ DOMAIN ledger.res = DOMAIN orders /\ q \in Reservations /\ o.filled <= q.qty
      /\ ledger.cash \in Int /\ ledger.pos \in [Symbols -> Nat]
  BY <1>0, <1>2, <1>4, <1>5, <1>6
     DEF ReplayInv, TypeOK, Ledgers, ReservationsMatchOrders, CanSettleExit
<1>8. ledger'.res = [ledger.res EXCEPT ![p] = r]
  BY <1>2, <1>4, <1>6, <1>7, SettleExitType
<1>9. /\ ledger'.cash = ledger.cash /\ ledger'.pos = ledger.pos
      /\ r.qty = q.qty - o.filled /\ (q.cash = 0 => r.cash = 0)
  <2>1. /\ SettleExit(ledger, k, o).cash = ledger.cash
        /\ SettleExit(ledger, k, o).pos = ledger.pos
        /\ AfterExit(q, o).qty = q.qty - o.filled
        /\ q.cash = 0 => AfterExit(q, o).cash = 0
    <3>1. ledger \in Ledgers /\ o \in Orders /\ q \in Reservations /\ o.filled <= q.qty
      BY <1>2, <1>7
    <3> QED
      BY <3>1, SettleExitAccounts
  <2> QED
    BY <1>4, <1>6, <2>1
<1>10. q.qty \in Int /\ q.cash \in Int
  BY <1>7 DEF Reservations
<1>11. /\ DOMAIN ledger'.res = DOMAIN orders /\ ledger'.res[p] = r
       /\ \A j \in DOMAIN orders : j # p => ledger'.res[j] = ledger.res[j]
  BY <1>7, <1>8
<1>12. /\ Settled(Entries)' = Settled(Entries) /\ p \in Settled(Entries)
       /\ Settled(Entries) \subseteq DOMAIN orders /\ k \notin Settled(Entries)
       /\ \A sym : EntriesOf(sym)' = EntriesOf(sym) /\ EntriesOf(sym) \subseteq DOMAIN orders
  BY <1>2, <1>3, <1>5 DEF Settled, Entries, EntriesOf
<1>13. \A S : /\ k \notin Sold(S) /\ Sold(S) \subseteq DOMAIN orders
              /\ p \in S => Sold(S)' = Sold(S) \cup {k}
              /\ p \notin S => Sold(S)' = Sold(S)
  BY <1>1, <1>2 DEF Sold, Settled
<1>14. ParentsSettled'
  <2>1. \A x \in DOMAIN orders : orders[x].leg = "EXIT" => ExitMatches(x)
    BY <1>0 DEF ReplayInv, ReservationsMatchOrders
  <2> QED
    BY <1>1, <1>2, <2>1 DEF ConserveInv, ParentsSettled, ExitMatches
<1>15. q.cash = 0 /\ r.cash = 0
  <2>1. Reserved[p] = 0
    BY <1>12 DEF ConserveInv, SettledHoldNoCash
  <2> QED
    BY <1>6, <1>7, <1>9, <2>1 DEF Reserved
<1>16. /\ \A j \in DOMAIN orders : /\ j # k => Filled'[j] = Filled[j] /\ Cost'[j] = Cost[j]
                                   /\ j # p => Held'[j] = Held[j]
                                   /\ Reserved'[j] = Reserved[j]
       /\ Filled'[k] = o.filled
       /\ Held[p] = q.qty /\ Held'[p] = q.qty - o.filled
  BY <1>2, <1>5, <1>6, <1>7, <1>9, <1>11, <1>15 DEF Filled, Cost, Held, Reserved
<1>17. PICK f, fn, h, hn : f = Filled /\ fn = Filled' /\ h = Held /\ hn = Held'
  OBVIOUS
<1>18. \A j \in DOMAIN orders : f[j] \in Int /\ fn[j] \in Int /\ h[j] \in Int /\ hn[j] \in Int
  <2>1. \A j \in DOMAIN orders : f[j] \in Int /\ h[j] \in Int
    BY <1>0, <1>17, Terms
  <2> QED
    BY <1>3, <1>10, <1>16, <1>17, <2>1
<1>19. ASSUME NEW S
       PROVE  /\ SumFunctionOnSet(fn, Sold(S)') =
                    SumFunctionOnSet(f, Sold(S)) + (IF p \in S THEN o.filled ELSE 0)
              /\ SumFunctionOnSet(f, Sold(S)) \in Int
  <2>1. PICK T : T = Sold(S)
    OBVIOUS
  <2>2. T \in SUBSET DOMAIN orders /\ k \notin T
    BY <1>13, <2>1
  <2>3. SumFunctionOnSet(fn, T) = SumFunctionOnSet(f, T)
    BY <1>0, <1>16, <1>17, <2>2, SameTerms
  <2>4. SumFunctionOnSet(f, T) \in Int
    BY <1>0, <1>17, <2>1, SoldType
  <2>5. SumFunctionOnSet(fn, T \cup {k}) = SumFunctionOnSet(fn, T) + fn[k]
    <3>1. IsFiniteSet(T) /\ \A y \in T \cup {k} : fn[y] \in Int
      BY <1>0, <1>18, <2>2, Terms
    <3> QED
      BY <2>2, <3>1, SumAdd
  <2>6. CASE p \in S
    BY <1>13, <1>16, <1>17, <2>1, <2>3, <2>4, <2>5, <2>6
  <2>7. CASE p \notin S
    BY <1>13, <2>1, <2>3, <2>4, <2>7
  <2> QED
    BY <2>6, <2>7
<1>20. SettledHoldNoCash'
  BY <1>12, <1>16 DEF ConserveInv, SettledHoldNoCash
<1>21. CycleConserved'
  <2> SUFFICES ASSUME NEW i \in Settled(Entries)'
               PROVE  SumFunctionOnSet(fn, Sold({i})') + hn[i] = fn[i]
    BY <1>17 DEF CycleConserved
  <2>1. i \in Settled(Entries) /\ i \in DOMAIN orders /\ i # k
    BY <1>12
  <2>2. SumFunctionOnSet(f, Sold({i})) + h[i] = f[i]
    BY <1>17, <2>1 DEF ConserveInv, LedgerConserved, CycleConserved
  <2>3. fn[i] = f[i] /\ h[i] \in Int /\ f[i] \in Int
    BY <1>16, <1>17, <1>18, <2>1
  <2>4. PICK S : S = {i}
    OBVIOUS
  <2>5. /\ SumFunctionOnSet(fn, Sold(S)') =
              SumFunctionOnSet(f, Sold(S)) + (IF p \in S THEN o.filled ELSE 0)
        /\ SumFunctionOnSet(f, Sold(S)) \in Int
    BY <1>19
  <2>6. CASE i = p
    <3>1. hn[i] = h[i] - o.filled
      BY <1>16, <1>17, <2>6
    <3> QED
      BY <1>3, <2>2, <2>3, <2>4, <2>5, <2>6, <3>1
  <2>7. CASE i # p
    <3>1. hn[i] = h[i]
      BY <1>16, <1>17, <2>1, <2>7
    <3> QED
      BY <2>2, <2>3, <2>4, <2>5, <2>7, <3>1
  <2> QED
    BY <2>6, <2>7
<1>22. ASSUME NEW sym \in Symbols
       PROVE  ledger'.pos[sym] + SumFunctionOnSet(Held', EntriesOf(sym)')
                + SumFunctionOnSet(Filled', Sold(EntriesOf(sym))') = StartPosition[sym]
  <2>1. PICK S, a, b, c : /\ S = EntriesOf(sym) /\ a = SumFunctionOnSet(h, S)
                          /\ b = SumFunctionOnSet(f, Sold(S)) /\ c = ledger.pos[sym]
    OBVIOUS
  <2>2. c + a + b = StartPosition[sym] /\ c \in Int
    BY <1>7, <1>17, <2>1 DEF ConserveInv, LedgerConserved, InventoryConserved
  <2>3. S \in SUBSET DOMAIN orders /\ IsFiniteSet(S)
    BY <1>0, <1>12, <2>1, Terms
  <2>4. /\ p \in S => SumFunctionOnSet(hn, S) = a - h[p] + hn[p]
        /\ p \notin S => SumFunctionOnSet(hn, S) = a
        /\ a \in Int
    <3>1. \A y \in S : h[y] \in Int /\ hn[y] \in Int /\ (y # p => hn[y] = h[y])
      BY <1>16, <1>17, <1>18, <2>3
    <3> QED
      BY <2>1, <2>3, <3>1, OneTerm
  <2>5. /\ SumFunctionOnSet(fn, Sold(S)') = b + (IF p \in S THEN o.filled ELSE 0)
        /\ b \in Int
    BY <1>19, <2>1
  <2>6. SumFunctionOnSet(hn, S) = a - (IF p \in S THEN o.filled ELSE 0)
    BY <1>3, <1>10, <1>16, <1>17, <2>4
  <2>7. EntriesOf(sym)' = S /\ Sold(EntriesOf(sym))' = Sold(S)'
    BY <1>12, <2>1
  <2>8. ledger'.pos[sym] = c
    BY <1>9, <2>1
  <2>9. PICK d \in Int : d = IF p \in S THEN o.filled ELSE 0
    BY <1>3
  <2>10. c + (a - d) + (b + d) = StartPosition[sym]
    BY <2>2, <2>4, <2>5, <2>9
  <2> QED
    BY <1>17, <2>5, <2>6, <2>7, <2>8, <2>9, <2>10
<1>23. InventoryConserved'
  BY <1>22 DEF InventoryConserved
<1>24. CashConserved'
  <2>1. PICK D, E, v, vn, c, cn : /\ D = DOMAIN orders /\ E = Settled(Entries)
                                  /\ v = Reserved /\ vn = Reserved' /\ c = Cost /\ cn = Cost'
    OBVIOUS
  <2>2. SumFunctionOnSet(vn, D) = SumFunctionOnSet(v, D)
    BY <1>0, <1>16, <2>1, SameTerms
  <2>3. SumFunctionOnSet(cn, E) = SumFunctionOnSet(c, E)
    BY <1>0, <1>12, <1>16, <2>1, SameTerms
  <2>4. ledger.cash + SumFunctionOnSet(v, D) + SumFunctionOnSet(c, E) = StartCash
    BY <1>7, <2>1 DEF ConserveInv, LedgerConserved, CashConserved
  <2> QED
    BY <1>9, <1>11, <1>12, <2>1, <2>2, <2>3, <2>4 DEF CashConserved
<1> QED
  BY <1>14, <1>20, <1>21, <1>23, <1>24 DEF ConserveInv, LedgerConserved

LEMMA InitConserves == Init => ConserveInv
<1> SUFFICES ASSUME Init PROVE ConserveInv
  OBVIOUS
<1>1. ReplayInv /\ orders = <<>> /\ ledger = InitialLedger
  BY InitInv DEF Init
<1>2. /\ DOMAIN orders = {} /\ ledger.res = <<>> /\ DOMAIN ledger.res = {}
      /\ ledger.cash = StartCash /\ ledger.pos = StartPosition
  BY <1>1 DEF InitialLedger
<1>3. Entries = {} /\ Settled(Entries) = {} /\ \A S : Sold(S) = {}
  BY <1>2 DEF Entries, Settled, Sold
<1>4. \A sym : EntriesOf(sym) = {}
  BY <1>3 DEF EntriesOf
<1>5. PICK f, h, v, c : f = Filled /\ h = Held /\ v = Reserved /\ c = Cost
  OBVIOUS
<1>6. /\ SumFunctionOnSet(f, {}) = 0 /\ SumFunctionOnSet(h, {}) = 0
      /\ SumFunctionOnSet(v, {}) = 0 /\ SumFunctionOnSet(c, {}) = 0
  BY SumEmpty
<1>7. ParentsSettled /\ SettledHoldNoCash /\ CycleConserved
  BY <1>2, <1>3 DEF ParentsSettled, SettledHoldNoCash, CycleConserved
<1>8. InventoryConserved
  <2> SUFFICES ASSUME NEW sym \in Symbols
               PROVE  ledger.pos[sym] + SumFunctionOnSet(Held, EntriesOf(sym))
                        + SumFunctionOnSet(Filled, Sold(EntriesOf(sym))) = StartPosition[sym]
    BY Zenon DEF InventoryConserved
  <2>1. PICK S : S = EntriesOf(sym)
    OBVIOUS
  <2>2. S = {} /\ Sold(S) = {}
    BY <1>3, <1>4, <2>1
  <2>3. ledger.pos[sym] = StartPosition[sym] /\ StartPosition[sym] \in Nat
    BY <1>2, PaperLedgerAssumption
  <2> QED
    BY <1>5, <1>6, <2>1, <2>2, <2>3
<1>9. CashConserved
  <2>1. StartCash \in Nat
    BY PaperLedgerAssumption
  <2>2. SumFunctionOnSet(v, DOMAIN ledger.res) = 0 /\ SumFunctionOnSet(c, Settled(Entries)) = 0
    BY <1>2, <1>3, <1>6
  <2> QED
    BY <1>2, <1>5, <2>1, <2>2 DEF CashConserved
<1> QED
  BY <1>1, <1>7, <1>8, <1>9 DEF ConserveInv, LedgerConserved

LEMMA ConserveStep == ConserveInv /\ [Next]_vars => ConserveInv'
<1> SUFFICES ASSUME ConserveInv, [Next]_vars PROVE ConserveInv'
  OBVIOUS
<1>0. ReplayInv /\ ReplayInv'
  BY NextInv DEF ConserveInv
<1>1. CASE NextEntry
  BY <1>0, <1>1, NextEntryOrder, EntryConserves
<1>2. CASE NextExit
  BY <1>0, <1>2, NextExitOrder, ExitConserves
<1>3. CASE NextEvent
  <2>1. PICK i \in DOMAIN orders, e \in Events : ReplayEvent(i, e)
    BY <1>3 DEF NextEvent
  <2>2. CASE Live(Reduce(orders[i], e))
    BY <1>0, <2>1, <2>2, LiveEventConserves
  <2>3. CASE ~Live(Reduce(orders[i], e)) /\ orders[i].leg = "ENTRY"
    BY <1>0, <2>1, <2>3, EntryEndConserves
  <2>4. CASE ~Live(Reduce(orders[i], e)) /\ orders[i].leg # "ENTRY"
    BY <1>0, <2>1, <2>4, ExitEndConserves
  <2> QED
    BY <2>2, <2>3, <2>4
<1>4. CASE UNCHANGED vars
  BY <1>0, <1>4
     DEF vars, ConserveInv, ParentsSettled, SettledHoldNoCash, LedgerConserved, CycleConserved,
         InventoryConserved, CashConserved, Entries, EntriesOf, Settled, Sold,
         Filled, Cost, Held, Reserved
<1> QED
  BY <1>1, <1>2, <1>3, <1>4 DEF Next

\* After every log PaperSession.reconcile accepts, cash, reserved cash and what
\* the settled entries cost add up to the account's cash; available, reserved
\* and sold shares to its settled inventory; and what a cycle still holds and
\* has sold to what it bought.  Partial fills, partial exits and cancellations
\* in any order neither create nor lose a share or a dong.
THEOREM Conservation == Spec => []LedgerConserved
<1>1. ConserveInv => LedgerConserved
  BY DEF ConserveInv
<1> QED
  BY <1>1, InitConserves, ConserveStep, PTL DEF Spec
=============================================================================
