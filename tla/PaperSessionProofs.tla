-------------------------- MODULE PaperSessionProofs --------------------------
(***************************************************************************)
(* Proofs about the paper session.                                         *)
(*                                                                         *)
(* One session at a time (PaperExecution): the cash reserve is held,       *)
(* orders keep to their lives and exits to their entries, a quote's        *)
(* displayed liquidity is not used twice, and it goes to the orders in     *)
(* price-time priority. The induction is over whole sessions. Good(s) says *)
(* of a session that its order table and reservation table run side by     *)
(* side, that every order is within its life, that a reservation being     *)
(* held or sold is that of a settled entry and holds no more than the      *)
(* entry bought, that a live exit is the one its parent waits for, and     *)
(* that the reserve is held. Each operator a command is composed of takes  *)
(* a good session to a good one: the ledger's transitions, an appended     *)
(* intent, an appended event, a turn of a loop, the loop, the command.     *)
(*                                                                         *)
(* Many workers at once (PaperRuntime): the processes and their database   *)
(* implement AtomicSession, and the two tables agree, for every number of  *)
(* workers, accounts, crashes, quotes and limits.                          *)
(***************************************************************************)
EXTENDS PaperExecution, PaperRuntime, SumTheorems, SequenceTheorems, TLAPS

(***************************************************************************)
(* What a session keeps: the fields its transitions read, the order table  *)
(* beside the reservation table, and every order within its life.          *)
(***************************************************************************)
SomeSeq(x) == \E S : x \in Seq(S)

IsOrder(o) ==
    /\ {"leg", "arb", "parent", "sym", "qty", "limit", "created", "expires", "status", "filled",
        "notional", "lastAt", "lastFill", "seen"} \subseteq DOMAIN o
    /\ o.leg \in {"ENTRY", "EXIT"}
    /\ o.arb \in Arbs /\ o.qty \in Int /\ o.created \in Int /\ o.expires \in Int
    /\ o.filled \in Nat /\ o.notional \in Int

IsReservation(r) ==
    /\ {"status", "cash", "qty", "exit", "num", "den"} \subseteq DOMAIN r
    /\ r.cash \in Int /\ r.qty \in Int

InLife(o) ==
    /\ o.filled > 0 => o.created < o.lastFill[1] /\ o.lastFill[1] < o.expires
    /\ o.status \in FillTypes => o.lastAt < o.expires

IsLedger(l) ==
    /\ {"rev", "cash", "pos", "cycles", "pnl", "res"} \subseteq DOMAIN l
    /\ l.cash \in Int /\ SomeSeq(l.res) /\ \A i \in DOMAIN l.res : IsReservation(l.res[i])

IsSession(s) ==
    /\ {"ok", "rev", "ledger", "orders", "ops", "liquidity", "lastAt", "cursor"} \subseteq DOMAIN s
    /\ IsLedger(s.ledger) /\ SomeSeq(s.orders) /\ Len(s.ledger.res) = Len(s.orders)
    /\ \A i \in DOMAIN s.orders : IsOrder(s.orders[i]) /\ InLife(s.orders[i])
    /\ s.cursor \in [Symbols -> Quotes \cup {NoQuote}]

\* A reservation being held or sold is that of a settled entry, and holds no
\* more than the entry bought; a live exit is the one its parent waits for.
HeldIsLawful(s, i) ==
    s.ledger.res[i].status \in {"OPEN", "EXIT_PENDING"} =>
       /\ s.orders[i].leg = "ENTRY" /\ ~Live(s.orders[i])
       /\ s.ledger.res[i].qty <= s.orders[i].filled

LegIsLawful(s, x) ==
    LET o == s.orders[x]
    IN  /\ o.leg = "ENTRY" => o.parent = 0
        /\ o.leg = "EXIT" =>
              /\ o.parent \in DOMAIN s.orders /\ ~Live(s.orders[o.parent])
              /\ o.qty <= s.orders[o.parent].filled
              /\ o.created >= ExitFrom[o.arb]
              /\ Live(o) => /\ s.ledger.res[o.parent].status = "EXIT_PENDING"
                            /\ s.ledger.res[o.parent].exit = x

CyclesAreLawful(s) == \A i \in DOMAIN s.orders : HeldIsLawful(s, i) /\ LegIsLawful(s, i)

SessionInv(s) == IsSession(s) /\ CyclesAreLawful(s)

\* What no event does: start a cycle, take cash, add or remove an order.
OnlySettles(s, t) ==
    /\ t.ledger.cycles = s.ledger.cycles /\ t.ledger.cash >= s.ledger.cash
    /\ DOMAIN t.orders = DOMAIN s.orders /\ t.cursor = s.cursor

-----------------------------------------------------------------------------
\* Sequences of any element.
LEMMA AppendIsSeq ==
    ASSUME NEW x, NEW e, SomeSeq(x)
    PROVE  /\ SomeSeq(Append(x, e)) /\ Len(x) \in Nat /\ Len(Append(x, e)) = Len(x) + 1
           /\ DOMAIN x = 1 .. Len(x) /\ DOMAIN Append(x, e) = 1 .. Len(x) + 1
           /\ Append(x, e)[Len(x) + 1] = e
           /\ \A i \in DOMAIN x : Append(x, e)[i] = x[i]
<1>1. PICK S : x \in Seq(S)
  BY DEF SomeSeq
<1>2. x \in Seq(S \cup {e})
  BY <1>1
<1>3. Append(x, e) \in Seq(S \cup {e})
  BY <1>2
<1>4. /\ Len(x) \in Nat /\ Len(Append(x, e)) = Len(x) + 1
      /\ DOMAIN x = 1 .. Len(x) /\ DOMAIN Append(x, e) = 1 .. Len(x) + 1
      /\ Append(x, e)[Len(x) + 1] = e
      /\ \A i \in DOMAIN x : Append(x, e)[i] = x[i]
  BY <1>2
<1> QED
  BY <1>3, <1>4 DEF SomeSeq

Put(x, i, e) == [x EXCEPT ![i] = e]

LEMMA PutIsSeq ==
    ASSUME NEW x, NEW i, NEW e, SomeSeq(x)
    PROVE  /\ SomeSeq(Put(x, i, e)) /\ Len(Put(x, i, e)) = Len(x)
           /\ DOMAIN Put(x, i, e) = DOMAIN x
           /\ i \in DOMAIN x => Put(x, i, e)[i] = e
           /\ \A k \in DOMAIN x : k # i => Put(x, i, e)[k] = x[k]
<1>1. PICK S : x \in Seq(S)
  BY DEF SomeSeq
<1>2. Len(x) \in Nat /\ x \in [1..Len(x) -> S]
  BY <1>1
<1>3. Put(x, i, e) \in [1..Len(x) -> S \cup {e}]
  BY <1>2 DEF Put
<1>4. Put(x, i, e) \in Seq(S \cup {e})
  BY <1>2, <1>3
<1>5. Len(Put(x, i, e)) = Len(x) /\ DOMAIN Put(x, i, e) = DOMAIN x
  BY <1>1, <1>2, <1>3, <1>4
<1>6. /\ i \in DOMAIN x => Put(x, i, e)[i] = e
      /\ \A k \in DOMAIN x : k # i => Put(x, i, e)[k] = x[k]
  BY DEF Put
<1> QED
  BY <1>4, <1>5, <1>6 DEF SomeSeq

\* An event the callers build: a fill falls inside the order's life.
Timely(o, e) ==
    /\ e.inc \in Int /\ e.price \in Int
    /\ e.type \notin FillTypes => e.inc = 0
    /\ e.inc > 0 => o.created < e.pos[1] /\ e.pos[1] < o.expires /\ e.at < o.expires

\* Reducing a timely event keeps an order's identity and its life.
LEMMA ReducedInLife ==
    ASSUME NEW o, NEW e, IsOrder(o), InLife(o), Timely(o, e), CanReduce(o, e)
    PROVE  /\ IsOrder(Reduce(o, e)) /\ InLife(Reduce(o, e)) /\ Live(o)
           /\ Reduce(o, e).leg = o.leg /\ Reduce(o, e).arb = o.arb
           /\ Reduce(o, e).parent = o.parent /\ Reduce(o, e).qty = o.qty
           /\ Reduce(o, e).created = o.created
<1>1. PICK r, fill, seen, n, m : /\ r = Reduce(o, e)
                                 /\ fill = (IF e.inc > 0 THEN e.pos ELSE o.lastFill)
                                 /\ seen = (IF e.inc > 0 THEN o.seen \cup {<<e.pos[2], e.pos[3]>>}
                                            ELSE o.seen)
                                 /\ n = o.filled + e.inc /\ m = o.notional + e.price * e.inc
  OBVIOUS
<1>2. r = [o EXCEPT !.status = e.type, !.filled = n, !.notional = m, !.lastAt = e.at,
                    !.lastFill = fill, !.seen = seen]
  BY <1>1 DEF Reduce
<1>3. /\ DOMAIN r = DOMAIN o
      /\ r.leg = o.leg /\ r.arb = o.arb /\ r.parent = o.parent /\ r.qty = o.qty
      /\ r.created = o.created /\ r.expires = o.expires
  BY <1>2 DEF IsOrder
<1>4. /\ r.status = e.type /\ r.filled = n /\ r.notional = m /\ r.lastAt = e.at
      /\ r.lastFill = fill
  BY <1>2 DEF IsOrder
<1>5. e.inc \in Nat /\ (e.type \in FillTypes <=> e.inc > 0)
  BY DEF Timely, CanReduce
<1>6. n \in Nat /\ m \in Int
  BY <1>1, <1>5 DEF IsOrder, Timely
<1>7. IsOrder(r)
  BY <1>3, <1>4, <1>6 DEF IsOrder
<1>8. InLife(r)
  <2>1. CASE e.inc > 0
    BY <1>1, <1>3, <1>4, <2>1 DEF InLife, Timely
  <2>2. CASE e.inc = 0
    <3>1. e.type \notin FillTypes /\ n = o.filled /\ fill = o.lastFill
      BY <1>1, <1>5, <2>2 DEF IsOrder
    <3> QED
      BY <1>3, <1>4, <3>1 DEF InLife
  <2> QED
    BY <1>5, <2>1, <2>2
<1>9. Live(o)
  BY DEF CanReduce, Allowed, Live, Terminal
<1> QED
  BY <1>1, <1>3, <1>7, <1>8, <1>9

LEMMA SettleEntryKeeps ==
    ASSUME NEW l, NEW i, NEW o, IsLedger(l), i \in DOMAIN l.res, IsOrder(o), CanSettleEntry(l, i, o),
           NEW m, m = SettleEntry(l, i, o)
    PROVE  /\ IsLedger(m) /\ m.cycles = l.cycles /\ m.cash >= l.cash
           /\ Len(m.res) = Len(l.res) /\ DOMAIN m.res = DOMAIN l.res
           /\ \A k \in DOMAIN l.res : k # i => m.res[k] = l.res[k]
           /\ m.res[i].status \in {"NONE", "OPEN"}
           /\ m.res[i].status = "OPEN" => m.res[i].qty = o.filled
<1>1. PICK r, cash, pos : 
         /\ r = (IF o.filled = 0 THEN NoReservation
                 ELSE [NoReservation EXCEPT !.status = "OPEN", !.qty = o.filled,
                                            !.num = o.notional, !.den = o.filled])
         /\ cash = l.cash + l.res[i].cash - BuyCost(o.notional)
         /\ pos = [l.pos EXCEPT ![o.sym] = l.pos[o.sym] + l.res[i].qty - o.filled]
  OBVIOUS
<1>2. m = [l EXCEPT !.rev = l.rev + 1, !.cash = cash, !.pos = pos, !.res = [l.res EXCEPT ![i] = r]]
  BY <1>1 DEF SettleEntry
<1>3. /\ DOMAIN m = DOMAIN l /\ m.cash = cash /\ m.cycles = l.cycles
      /\ m.res = Put(l.res, i, r)
  BY <1>2 DEF IsLedger, Put
<1>4. /\ IsReservation(r) /\ r.status \in {"NONE", "OPEN"} /\ (r.status = "OPEN" => r.qty = o.filled)
  BY <1>1 DEF IsReservation, NoReservation, IsOrder
<1>5. BuyCost(o.notional) \in Int /\ l.res[i].cash \in Int /\ l.cash \in Int
      /\ BuyCost(o.notional) <= l.res[i].cash
  BY PaperLedgerAssumption DEF BuyCost, Bps, IsOrder, IsLedger, IsReservation, CanSettleEntry
<1>6. cash \in Int /\ cash >= l.cash
  BY <1>1, <1>5
<1>7. /\ SomeSeq(m.res) /\ Len(m.res) = Len(l.res) /\ DOMAIN m.res = DOMAIN l.res /\ m.res[i] = r
      /\ \A k \in DOMAIN l.res : k # i => m.res[k] = l.res[k]
  BY <1>3, PutIsSeq DEF IsLedger
<1>8. IsLedger(m)
  BY <1>3, <1>4, <1>6, <1>7 DEF IsLedger
<1> QED
  BY <1>3, <1>4, <1>6, <1>7, <1>8

LEMMA SettleExitKeeps ==
    ASSUME NEW l, NEW x, NEW o, IsLedger(l), o.parent \in DOMAIN l.res, IsOrder(o),
           CanSettleExit(l, x, o), NEW m, m = SettleExit(l, x, o)
    PROVE  /\ IsLedger(m) /\ m.cycles = l.cycles /\ m.cash = l.cash
           /\ Len(m.res) = Len(l.res) /\ DOMAIN m.res = DOMAIN l.res
           /\ \A k \in DOMAIN l.res : k # o.parent => m.res[k] = l.res[k]
           /\ m.res[o.parent].status \in {"NONE", "OPEN"}
           /\ m.res[o.parent].status = "OPEN" => m.res[o.parent].qty <= l.res[o.parent].qty
<1>1. PICK p, q : p = o.parent /\ q = l.res[p]
  OBVIOUS
<1>2. PICK r, pnl : 
         /\ r = (IF o.filled = q.qty THEN NoReservation
                 ELSE [q EXCEPT !.status = "OPEN", !.exit = 0, !.qty = q.qty - o.filled])
         /\ pnl = l.pnl + SaleValue(o.notional) - BuyCost(q.num * o.filled) \div q.den
  OBVIOUS
<1>3. m = [l EXCEPT !.rev = l.rev + 1, !.pnl = pnl, !.res = [l.res EXCEPT ![p] = r]]
  BY <1>1, <1>2 DEF SettleExit
<1>4. /\ DOMAIN m = DOMAIN l /\ m.cash = l.cash /\ m.cycles = l.cycles
      /\ m.res = Put(l.res, p, r)
  BY <1>3 DEF IsLedger, Put
<1>5. IsReservation(q) /\ q.qty \in Int /\ o.filled \in Nat
  BY <1>1 DEF IsLedger, IsReservation, IsOrder
<1>6. IsReservation(r) /\ r.status \in {"NONE", "OPEN"} /\ (r.status = "OPEN" => r.qty <= q.qty)
  <2>1. CASE o.filled = q.qty
    BY <1>2, <2>1 DEF IsReservation, NoReservation
  <2>2. CASE o.filled # q.qty
    BY <1>2, <1>5, <2>2 DEF IsReservation
  <2> QED
    BY <2>1, <2>2
<1>7. /\ SomeSeq(m.res) /\ Len(m.res) = Len(l.res) /\ DOMAIN m.res = DOMAIN l.res /\ m.res[p] = r
      /\ \A k \in DOMAIN l.res : k # p => m.res[k] = l.res[k]
  BY <1>1, <1>4, PutIsSeq DEF IsLedger
<1>8. IsLedger(m)
  BY <1>4, <1>6, <1>7 DEF IsLedger
<1> QED
  BY <1>1, <1>4, <1>6, <1>7, <1>8

\* The state of a session after an event on order i, whether it ended the order or not.
Applied(s, t, i, o) ==
    /\ DOMAIN t = DOMAIN s /\ SomeSeq(t.orders) /\ Len(t.orders) = Len(s.orders)
    /\ DOMAIN t.orders = DOMAIN s.orders
    /\ t.orders[i] = o /\ \A k \in DOMAIN s.orders : k # i => t.orders[k] = s.orders[k]
    /\ t.ledger = (IF Live(o) THEN s.ledger ELSE Settle(s.ledger, i, o))
    /\ t.cursor = s.cursor

LEMMA ReducedApplied ==
    ASSUME NEW s, NEW i, NEW e, NEW o, IsSession(s), i \in DOMAIN s.orders
    PROVE  \/ AppendReduced(s, i, e, o) = Raise(s)
           \/ /\ Applied(s, AppendReduced(s, i, e, o), i, o)
              /\ Live(o) \/ Settleable(s.ledger, i, o)
<1> SUFFICES ASSUME CanDraw(s.liquidity, o, e) /\ (Live(o) \/ Settleable(s.ledger, i, o))
             PROVE  Applied(s, AppendReduced(s, i, e, o), i, o)
  BY DEF AppendReduced
<1>1. PICK ledger, liq, op, list, n : 
         /\ ledger = (IF Live(o) THEN s.ledger ELSE Settle(s.ledger, i, o))
         /\ liq = Draw(s.liquidity, o, e) /\ op = <<i, e.type, e.at>>
         /\ list = Put(s.orders, i, o) /\ n = Append(s.ops, op)
  OBVIOUS
<1>2. PICK u : u = [s EXCEPT !.orders = list, !.ledger = ledger, !.liquidity = liq]
  OBVIOUS
<1>3. /\ DOMAIN u = DOMAIN s /\ u.orders = list /\ u.ledger = ledger /\ u.cursor = s.cursor
      /\ u.ops = s.ops
  BY <1>2 DEF IsSession
<1>4. AppendReduced(s, i, e, o) = Log(u, i, e.type, e.at)
  BY <1>1, <1>2 DEF AppendReduced, Put
<1>5. PICK t : t = Log(u, i, e.type, e.at)
  OBVIOUS
<1>6. t = [u EXCEPT !.ops = n, !.lastAt = e.at]
  BY <1>1, <1>3, <1>5 DEF Log
<1>7. /\ DOMAIN t = DOMAIN s /\ t.orders = list /\ t.ledger = ledger /\ t.cursor = s.cursor
  BY <1>3, <1>6 DEF IsSession
<1>8. /\ SomeSeq(list) /\ Len(list) = Len(s.orders) /\ DOMAIN list = DOMAIN s.orders /\ list[i] = o
      /\ \A k \in DOMAIN s.orders : k # i => list[k] = s.orders[k]
  BY <1>1, PutIsSeq DEF IsSession
<1>9. Applied(s, t, i, o)
  BY <1>1, <1>7, <1>8 DEF Applied
<1> QED
  BY <1>4, <1>5, <1>9

LEMMA RaiseKeeps ==
    ASSUME NEW s, SessionInv(s) PROVE SessionInv(Raise(s)) /\ OnlySettles(s, Raise(s))
<1>1. PICK t : t = Raise(s)
  OBVIOUS
<1>2. /\ DOMAIN t = DOMAIN s /\ t.orders = s.orders /\ t.ledger = s.ledger /\ t.cursor = s.cursor
  BY <1>1 DEF Raise, SessionInv, IsSession
<1>3. IsSession(t) /\ CyclesAreLawful(t)
  BY <1>2, Zenon DEF SessionInv, IsSession, CyclesAreLawful, HeldIsLawful, LegIsLawful
<1>4. t.ledger.cash >= s.ledger.cash
  BY <1>2 DEF SessionInv, IsSession, IsLedger
<1> QED
  BY <1>1, <1>2, <1>3, <1>4 DEF SessionInv, OnlySettles

\* An order stays lawful while what it says of itself and of its parent does.
LEMMA LegKept ==
    ASSUME NEW s, NEW t, NEW x, LegIsLawful(s, x),
           NEW o, o = s.orders[x], NEW r, r = t.orders[x], DOMAIN s.orders \subseteq DOMAIN t.orders,
           r.leg = o.leg, r.parent = o.parent, r.qty = o.qty, r.created = o.created, r.arb = o.arb,
           Live(r) => Live(o),
           o.leg = "EXIT" => t.orders[o.parent] = s.orders[o.parent],
           o.leg = "EXIT" /\ Live(r) => t.ledger.res[o.parent] = s.ledger.res[o.parent]
    PROVE  LegIsLawful(t, x)
<1>1. CASE o.leg # "EXIT"
  BY <1>1, SMTT(40) DEF LegIsLawful
<1>2. CASE o.leg = "EXIT"
  <2>1. PICK p, q : p = o.parent /\ q = s.orders[p]
    OBVIOUS
  <2>2. /\ p \in DOMAIN s.orders /\ ~Live(q) /\ o.qty <= q.filled
        /\ o.created >= ExitFrom[o.arb]
        /\ Live(o) => s.ledger.res[p].status = "EXIT_PENDING" /\ s.ledger.res[p].exit = x
    BY <1>2, <2>1 DEF LegIsLawful
  <2>3. p \in DOMAIN t.orders /\ t.orders[p] = q
    BY <1>2, <2>1, <2>2
  <2>4. Live(r) => t.ledger.res[p].status = "EXIT_PENDING" /\ t.ledger.res[p].exit = x
    BY <1>2, <2>1, <2>2
  <2> QED
    BY <1>2, <2>1, <2>2, <2>3, <2>4 DEF LegIsLawful
<1> QED
  BY <1>1, <1>2

LEMMA EventKeeps ==
    ASSUME NEW s, NEW i, NEW e, NEW o, NEW r, NEW t, SessionInv(s), i \in DOMAIN s.orders,
           o = s.orders[i], Timely(o, e), CanReduce(o, e), r = Reduce(o, e),
           Applied(s, t, i, r), Live(r) \/ Settleable(s.ledger, i, r)
    PROVE  SessionInv(t) /\ OnlySettles(s, t)
<1>1. /\ IsSession(s) /\ IsOrder(o) /\ InLife(o) /\ IsLedger(s.ledger)
      /\ DOMAIN s.ledger.res = DOMAIN s.orders
  <2>1. Len(s.ledger.res) = Len(s.orders) /\ SomeSeq(s.orders) /\ SomeSeq(s.ledger.res)
    BY DEF SessionInv, IsSession, IsLedger
  <2> QED
    BY <2>1, AppendIsSeq DEF SessionInv, IsSession
<1>2. /\ IsOrder(r) /\ InLife(r) /\ Live(o)
      /\ r.leg = o.leg /\ r.arb = o.arb /\ r.parent = o.parent /\ r.qty = o.qty
      /\ r.created = o.created
  BY <1>1, ReducedInLife
<1>3. /\ DOMAIN t = DOMAIN s /\ SomeSeq(t.orders) /\ Len(t.orders) = Len(s.orders)
      /\ DOMAIN t.orders = DOMAIN s.orders
      /\ t.orders[i] = r /\ \A k \in DOMAIN s.orders : k # i => t.orders[k] = s.orders[k]
      /\ t.cursor = s.cursor
  BY DEF Applied
<1>4. \A k \in DOMAIN t.orders : IsOrder(t.orders[k]) /\ InLife(t.orders[k])
  BY <1>1, <1>2, <1>3 DEF IsSession
\* Reservations of the orders other than i, as they were.
<1>5. s.ledger.res[i].status \notin {"OPEN", "EXIT_PENDING"}
  BY <1>2 DEF SessionInv, CyclesAreLawful, HeldIsLawful
<1>6. \A x \in DOMAIN s.orders : s.orders[x].leg = "EXIT" => s.orders[x].parent # i
  BY <1>2 DEF SessionInv, CyclesAreLawful, LegIsLawful
<1>7. ASSUME IsLedger(t.ledger), t.ledger.cycles = s.ledger.cycles,
             t.ledger.cash >= s.ledger.cash, Len(t.ledger.res) = Len(s.ledger.res)
      PROVE  IsSession(t) /\ OnlySettles(s, t)
  <2>1. OnlySettles(s, t)
    BY <1>3, <1>7 DEF OnlySettles
  <2>2. IsSession(t)
    BY <1>1, <1>3, <1>4, <1>7 DEF IsSession
  <2> QED
    BY <2>1, <2>2
<1>a. \A k \in DOMAIN s.orders : HeldIsLawful(s, k) /\ LegIsLawful(s, k)
  BY DEF SessionInv, CyclesAreLawful
<1>8. CASE Live(r)
  <2>1. t.ledger = s.ledger
    BY <1>8 DEF Applied
  <2>2. IsSession(t) /\ OnlySettles(s, t)
    BY <1>1, <1>7, <2>1 DEF IsLedger
  <2>3. CyclesAreLawful(t)
    <3> SUFFICES ASSUME NEW x \in DOMAIN s.orders
                 PROVE  HeldIsLawful(t, x) /\ LegIsLawful(t, x)
      BY <1>3 DEF CyclesAreLawful
    <3>1. HeldIsLawful(t, x)
      BY <1>3, <1>5, <1>a, <2>1 DEF HeldIsLawful
    <3>2. PICK q, n : q = s.orders[x] /\ n = t.orders[x]
      OBVIOUS
    <3>3. /\ n.leg = q.leg /\ n.parent = q.parent /\ n.qty = q.qty /\ n.created = q.created
          /\ n.arb = q.arb /\ (Live(n) => Live(q))
      BY <1>2, <1>3, <3>2, SMTT(40)
    <3>4. q.leg = "EXIT" => t.orders[q.parent] = s.orders[q.parent]
      BY <1>3, <1>6, <1>a, <3>2, SMTT(40) DEF LegIsLawful
    <3>5. LegIsLawful(t, x)
      BY <1>3, <1>a, <2>1, <3>2, <3>3, <3>4, LegKept
    <3> QED
      BY <3>1, <3>5
  <2> QED
    BY <2>2, <2>3 DEF SessionInv
<1>9. CASE ~Live(r) /\ r.leg = "ENTRY"
  <2>1. PICK m : m = t.ledger
    OBVIOUS
  <2>2. m = SettleEntry(s.ledger, i, r) /\ CanSettleEntry(s.ledger, i, r)
    BY <1>9, <2>1 DEF Applied, Settle, Settleable, CanSettleExit
  <2>3. /\ IsLedger(m) /\ m.cycles = s.ledger.cycles /\ m.cash >= s.ledger.cash
        /\ Len(m.res) = Len(s.ledger.res) /\ DOMAIN m.res = DOMAIN s.ledger.res
        /\ \A k \in DOMAIN s.ledger.res : k # i => m.res[k] = s.ledger.res[k]
        /\ m.res[i].status \in {"NONE", "OPEN"}
        /\ m.res[i].status = "OPEN" => m.res[i].qty = r.filled
    BY <1>1, <1>2, <2>2, SettleEntryKeeps
  <2>4. IsSession(t) /\ OnlySettles(s, t)
    BY <1>7, <2>1, <2>3
  <2>5. r.filled \in Nat
    BY <1>2 DEF IsOrder
  <2>7. CyclesAreLawful(t)
    <3> SUFFICES ASSUME NEW x \in DOMAIN s.orders
                 PROVE  HeldIsLawful(t, x) /\ LegIsLawful(t, x)
      BY <1>3 DEF CyclesAreLawful
    <3>1. HeldIsLawful(t, x)
      BY <1>1, <1>3, <1>9, <1>a, <2>1, <2>3, <2>5, SMTT(40) DEF HeldIsLawful
    <3>2. PICK q, n : q = s.orders[x] /\ n = t.orders[x]
      OBVIOUS
    <3>3. /\ n.leg = q.leg /\ n.parent = q.parent /\ n.qty = q.qty /\ n.created = q.created
          /\ n.arb = q.arb /\ (Live(n) => Live(q))
      BY <1>2, <1>3, <3>2, SMTT(40)
    <3>4. q.leg = "EXIT" => /\ t.orders[q.parent] = s.orders[q.parent]
                            /\ t.ledger.res[q.parent] = s.ledger.res[q.parent]
      BY <1>1, <1>3, <1>6, <1>a, <2>1, <2>3, <3>2 DEF LegIsLawful
    <3>5. LegIsLawful(t, x)
      BY <1>3, <1>a, <3>2, <3>3, <3>4, LegKept
    <3> QED
      BY <3>1, <3>5
  <2> QED
    BY <2>4, <2>7 DEF SessionInv
<1>10. CASE ~Live(r) /\ r.leg = "EXIT"
  <2>1. PICK m, p : m = t.ledger /\ p = r.parent
    OBVIOUS
  <2>2. m = SettleExit(s.ledger, i, r) /\ CanSettleExit(s.ledger, i, r)
    BY <1>10, <2>1 DEF Applied, Settle, Settleable, CanSettleEntry
  <2>3. /\ p \in DOMAIN s.orders /\ p # i /\ ~Live(s.orders[p])
        /\ s.ledger.res[p].status = "EXIT_PENDING" /\ s.ledger.res[p].exit = i
    <3>1. p = o.parent /\ o.leg = "EXIT" /\ Live(o)
      BY <1>2, <1>10, <2>1
    <3>2. LegIsLawful(s, i)
      BY <1>a
    <3>3. p # i
      BY <1>6, <3>1, SMTT(40)
    <3> QED
      BY <3>1, <3>2, <3>3, SMTT(40) DEF LegIsLawful
  <2>4. /\ IsLedger(m) /\ m.cycles = s.ledger.cycles /\ m.cash = s.ledger.cash
        /\ Len(m.res) = Len(s.ledger.res) /\ DOMAIN m.res = DOMAIN s.ledger.res
        /\ \A k \in DOMAIN s.ledger.res : k # p => m.res[k] = s.ledger.res[k]
        /\ m.res[p].status \in {"NONE", "OPEN"}
        /\ m.res[p].status = "OPEN" => m.res[p].qty <= s.ledger.res[p].qty
    BY <1>1, <1>2, <2>1, <2>2, <2>3, SettleExitKeeps
  <2>5. IsSession(t) /\ OnlySettles(s, t)
    BY <1>1, <1>7, <2>1, <2>4 DEF IsLedger
  <2>6. ASSUME NEW k \in DOMAIN s.orders PROVE HeldIsLawful(t, k)
    <3> SUFFICES ASSUME m.res[k].status \in {"OPEN", "EXIT_PENDING"}
                 PROVE  /\ t.orders[k].leg = "ENTRY" /\ ~Live(t.orders[k])
                        /\ m.res[k].qty <= t.orders[k].filled
      BY <2>1 DEF HeldIsLawful
    <3>1. k # i
      BY <1>1, <1>5, <2>3, <2>4
    <3>2. CASE k # p
      BY <1>1, <1>3, <1>a, <2>4, <3>1, <3>2 DEF HeldIsLawful
    <3>3. CASE k = p
      <4>1. s.orders[p].leg = "ENTRY" /\ s.ledger.res[p].qty <= s.orders[p].filled
        BY <1>a, <2>3 DEF HeldIsLawful
      <4>2. s.ledger.res[p].qty \in Int /\ m.res[p].qty \in Int /\ s.orders[p].filled \in Int
        BY <1>1, <2>3, <2>4 DEF IsSession, IsLedger, IsReservation, IsOrder
      <4> QED
        BY <1>3, <2>3, <2>4, <3>1, <3>3, <4>1, <4>2, SMTT(40)
    <3> QED
      BY <3>2, <3>3
  <2>7. \A x \in DOMAIN s.orders : s.orders[x].leg = "EXIT" /\ Live(s.orders[x]) /\ x # i
                                     => s.orders[x].parent # p
    BY <1>a, <2>3 DEF LegIsLawful
  <2>8. ASSUME NEW x \in DOMAIN s.orders PROVE LegIsLawful(t, x)
    <3>2. PICK q, n : q = s.orders[x] /\ n = t.orders[x]
      OBVIOUS
    <3>3. /\ n.leg = q.leg /\ n.parent = q.parent /\ n.qty = q.qty /\ n.created = q.created
          /\ n.arb = q.arb /\ (Live(n) => Live(q))
      BY <1>2, <1>3, <3>2, SMTT(40)
    <3>4. q.leg = "EXIT" => /\ q.parent \in DOMAIN s.orders
                            /\ t.orders[q.parent] = s.orders[q.parent]
      BY <1>3, <1>6, <1>a, <3>2, SMTT(40) DEF LegIsLawful
    <3>5. q.leg = "EXIT" /\ Live(n) => q.parent # p
      BY <1>3, <1>10, <2>7, <3>2, <3>3
    <3>6. q.leg = "EXIT" /\ Live(n) => t.ledger.res[q.parent] = s.ledger.res[q.parent]
      BY <1>1, <2>1, <2>4, <3>4, <3>5
    <3> QED
      BY <1>3, <1>a, <3>2, <3>3, <3>4, <3>6, LegKept
  <2>9. CyclesAreLawful(t)
    BY <1>3, <2>6, <2>8 DEF CyclesAreLawful
  <2> QED
    BY <2>5, <2>9 DEF SessionInv
<1>11. Live(r) \/ r.leg \in {"ENTRY", "EXIT"}
  BY DEF Settleable, CanSettleEntry, CanSettleExit
<1> QED
  BY <1>8, <1>9, <1>10, <1>11

LEMMA AppendEventKeeps ==
    ASSUME NEW s, NEW i, NEW e, SessionInv(s), i \in DOMAIN s.orders, Timely(s.orders[i], e)
    PROVE  SessionInv(AppendEvent(s, i, e)) /\ OnlySettles(s, AppendEvent(s, i, e))
<1>1. CASE AppendEvent(s, i, e) = Raise(s)
  BY <1>1, RaiseKeeps
<1>2. CASE AppendEvent(s, i, e) # Raise(s)
  <2>1. PICK o, r : o = s.orders[i] /\ r = Reduce(o, e)
    OBVIOUS
  <2>2. CanReduce(o, e) /\ AppendEvent(s, i, e) = AppendReduced(s, i, e, r)
    BY <1>2, <2>1 DEF AppendEvent, With
  <2>3. PICK t : t = AppendReduced(s, i, e, r)
    OBVIOUS
  <2>4. Applied(s, t, i, r) /\ (Live(r) \/ Settleable(s.ledger, i, r))
    BY <1>2, <2>2, <2>3, ReducedApplied DEF SessionInv
  <2>5. SessionInv(t) /\ OnlySettles(s, t)
    BY <2>1, <2>2, <2>4, EventKeeps
  <2> QED
    BY <2>2, <2>3, <2>5
<1> QED
  BY <1>1, <1>2

CashHeld(s) == s.ledger.cycles > 0 => s.ledger.cash >= CashReserve

Good(s) == SessionInv(s) /\ CashHeld(s)

LEMMA SettlingIsGood == ASSUME NEW s, NEW t, Good(s), SessionInv(t), OnlySettles(s, t) PROVE Good(t)
<1>1. s.ledger.cash \in Int /\ t.ledger.cash \in Int /\ CashReserve \in Nat
  BY PaperSessionAssumption DEF Good, SessionInv, IsSession, IsLedger
<1> QED
  BY <1>1 DEF Good, CashHeld, OnlySettles

LEMMA RaiseIsGood == ASSUME NEW s, Good(s) PROVE Good(Raise(s)) /\ Raise(s).cursor = s.cursor
BY RaiseKeeps, SettlingIsGood DEF Good, OnlySettles

LEMMA AppendEventIsGood ==
    ASSUME NEW s, NEW i, NEW e, Good(s), i \in DOMAIN s.orders, Timely(s.orders[i], e)
    PROVE  /\ Good(AppendEvent(s, i, e))
           /\ DOMAIN AppendEvent(s, i, e).orders = DOMAIN s.orders
           /\ AppendEvent(s, i, e).cursor = s.cursor
<1>1. PICK t : t = AppendEvent(s, i, e)
  OBVIOUS
<1>2. SessionInv(t) /\ OnlySettles(s, t)
  BY <1>1, AppendEventKeeps DEF Good
<1> QED
  BY <1>1, <1>2, SettlingIsGood DEF OnlySettles

\* An intent the planner makes: of an entry, that it leaves the reserve in cash.
Planned(s, o) ==
    /\ IsOrder(o) /\ InLife(o) /\ o.status = "CREATED" /\ o.cash \in Int
    /\ o.leg = "ENTRY" => o.parent = 0 /\ s.ledger.cash - o.cash >= CashReserve
    /\ o.leg # "ENTRY" => o.created >= ExitFrom[o.arb]

\* The ledger and the orders after an intent, whichever its leg.
LEMMA AppendIntentApplied ==
    ASSUME NEW s, NEW o, IsSession(s), NEW t, t = AppendIntent(s, o), NEW n, n = Len(s.orders) + 1
    PROVE  \/ t = Raise(s)
           \/ /\ DOMAIN t = DOMAIN s /\ t.orders = Append(s.orders, o) /\ t.cursor = s.cursor
              /\ \/ /\ o.leg = "ENTRY" /\ CanReserveEntry(s.ledger, o)
                    /\ t.ledger = ReserveEntry(s.ledger, o)
                 \/ /\ o.leg = "EXIT" /\ CanReserveExit(s.ledger, o)
                    /\ t.ledger = ReserveExit(s.ledger, n, o)
<1> SUFFICES ASSUME t # Raise(s)
             PROVE  /\ DOMAIN t = DOMAIN s /\ t.orders = Append(s.orders, o) /\ t.cursor = s.cursor
                    /\ \/ /\ o.leg = "ENTRY" /\ CanReserveEntry(s.ledger, o)
                          /\ t.ledger = ReserveEntry(s.ledger, o)
                       \/ /\ o.leg = "EXIT" /\ CanReserveExit(s.ledger, o)
                          /\ t.ledger = ReserveExit(s.ledger, n, o)
  OBVIOUS
<1>1. PICK ledger, list, u : 
         /\ ledger = (IF o.leg = "ENTRY" THEN ReserveEntry(s.ledger, o)
                                         ELSE ReserveExit(s.ledger, n, o))
         /\ list = Append(s.orders, o) /\ u = [s EXCEPT !.orders = list, !.ledger = ledger]
  OBVIOUS
<1>2. /\ o.leg = "ENTRY" => CanReserveEntry(s.ledger, o)
      /\ o.leg # "ENTRY" => CanReserveExit(s.ledger, o) /\ o.leg = "EXIT"
      /\ t = Log(u, n, o.leg, o.created)
  BY <1>1 DEF AppendIntent, CanReserveExit
<1>3. DOMAIN u = DOMAIN s /\ u.orders = list /\ u.ledger = ledger /\ u.cursor = s.cursor
  BY <1>1 DEF IsSession
<1>4. PICK ops : ops = Append(u.ops, <<n, o.leg, o.created>>)
  OBVIOUS
<1>5. t = [u EXCEPT !.ops = ops, !.lastAt = o.created]
  BY <1>2, <1>4 DEF Log
<1>6. DOMAIN t = DOMAIN s /\ t.orders = list /\ t.ledger = ledger /\ t.cursor = s.cursor
  BY <1>3, <1>5 DEF IsSession
<1> QED
  BY <1>1, <1>2, <1>6

LEMMA ReserveEntryKeeps ==
    ASSUME NEW l, NEW o, IsLedger(l), IsOrder(o), o.cash \in Int, NEW m, m = ReserveEntry(l, o)
    PROVE  /\ IsLedger(m) /\ m.cash = l.cash - o.cash
           /\ SomeSeq(m.res) /\ Len(m.res) = Len(l.res) + 1
           /\ \A k \in DOMAIN l.res : m.res[k] = l.res[k]
           /\ m.res[Len(l.res) + 1].status = "ENTRY_PENDING"
<1>1. PICK r, cash, pos, res : 
         /\ r = [NoReservation EXCEPT !.status = "ENTRY_PENDING", !.cash = o.cash, !.qty = o.qty]
         /\ cash = l.cash - o.cash /\ pos = [l.pos EXCEPT ![o.sym] = l.pos[o.sym] - o.qty]
         /\ res = Append(l.res, r)
  OBVIOUS
<1>2. m = [l EXCEPT !.rev = l.rev + 1, !.cash = cash, !.pos = pos, !.cycles = l.cycles + 1, !.res = res]
  BY <1>1 DEF ReserveEntry
<1>3. DOMAIN m = DOMAIN l /\ m.cash = cash /\ m.res = res
  BY <1>2 DEF IsLedger
<1>4. IsReservation(r) /\ r.status = "ENTRY_PENDING"
  BY <1>1 DEF IsReservation, NoReservation, IsOrder
<1>5. /\ SomeSeq(res) /\ Len(res) = Len(l.res) + 1 /\ Len(l.res) \in Nat
      /\ DOMAIN l.res = 1 .. Len(l.res) /\ DOMAIN res = 1 .. Len(l.res) + 1
      /\ res[Len(l.res) + 1] = r /\ \A k \in DOMAIN l.res : res[k] = l.res[k]
  BY <1>1, AppendIsSeq DEF IsLedger
<1>6. \A k \in DOMAIN res : IsReservation(res[k])
  <2> SUFFICES ASSUME NEW k \in DOMAIN res PROVE IsReservation(res[k])
    OBVIOUS
  <2>1. CASE k \in DOMAIN l.res
    BY <1>5, <2>1 DEF IsLedger
  <2>2. CASE k = Len(l.res) + 1
    BY <1>4, <1>5, <2>2
  <2> QED
    BY <1>5, <2>1, <2>2
<1>7. cash \in Int
  BY <1>1 DEF IsLedger
<1>8. IsLedger(m)
  BY <1>3, <1>5, <1>6, <1>7 DEF IsLedger
<1> QED
  BY <1>1, <1>3, <1>4, <1>5, <1>8

LEMMA ReserveExitKeeps ==
    ASSUME NEW l, NEW x, NEW o, IsLedger(l), CanReserveExit(l, o), NEW m, m = ReserveExit(l, x, o)
    PROVE  /\ IsLedger(m) /\ m.cash = l.cash /\ m.cycles = l.cycles
           /\ SomeSeq(m.res) /\ Len(m.res) = Len(l.res) + 1
           /\ \A k \in DOMAIN l.res : k # o.parent => m.res[k] = l.res[k]
           /\ m.res[o.parent].status = "EXIT_PENDING" /\ m.res[o.parent].exit = x
           /\ m.res[o.parent].qty = l.res[o.parent].qty
           /\ m.res[Len(l.res) + 1].status = "NONE"
<1>0. PICK p, q, r : /\ p = o.parent /\ q = l.res[p]
                     /\ r = [q EXCEPT !.status = "EXIT_PENDING", !.exit = x]
  OBVIOUS
<1>1. PICK list, res : list = Put(l.res, p, r) /\ res = Append(list, NoReservation)
  OBVIOUS
<1>2. p \in DOMAIN l.res /\ IsReservation(q)
  BY <1>0 DEF CanReserveExit, IsLedger
<1>3. m = [l EXCEPT !.rev = l.rev + 1, !.res = res]
  <2>1. [l.res EXCEPT ![p].status = "EXIT_PENDING", ![p].exit = x] = list
    BY <1>0, <1>1, <1>2 DEF Put
  <2> QED
    BY <1>0, <1>1, <2>1 DEF ReserveExit
<1>4. DOMAIN m = DOMAIN l /\ m.cash = l.cash /\ m.cycles = l.cycles /\ m.res = res
  BY <1>3 DEF IsLedger
<1>5. IsReservation(r) /\ r.status = "EXIT_PENDING" /\ r.exit = x /\ r.qty = q.qty
  BY <1>0, <1>2 DEF IsReservation
<1>6. /\ SomeSeq(list) /\ Len(list) = Len(l.res) /\ DOMAIN list = DOMAIN l.res /\ list[p] = r
      /\ \A k \in DOMAIN l.res : k # p => list[k] = l.res[k]
  BY <1>1, <1>2, PutIsSeq DEF IsLedger
<1>7. /\ SomeSeq(res) /\ Len(res) = Len(list) + 1 /\ Len(list) \in Nat
      /\ DOMAIN list = 1 .. Len(list) /\ DOMAIN res = 1 .. Len(list) + 1
      /\ res[Len(list) + 1] = NoReservation /\ \A k \in DOMAIN list : res[k] = list[k]
  BY <1>1, <1>6, AppendIsSeq
<1>8. \A k \in DOMAIN res : IsReservation(res[k])
  <2> SUFFICES ASSUME NEW k \in DOMAIN res PROVE IsReservation(res[k])
    OBVIOUS
  <2>1. CASE k \in DOMAIN l.res /\ k # p
    BY <1>6, <1>7, <2>1 DEF IsLedger
  <2>2. CASE k = p
    BY <1>2, <1>5, <1>6, <1>7, <2>2
  <2>3. CASE k = Len(list) + 1
    BY <1>7, <2>3 DEF IsReservation, NoReservation
  <2> QED
    BY <1>6, <1>7, <2>1, <2>2, <2>3
<1>9. IsLedger(m)
  BY <1>4, <1>7, <1>8 DEF IsLedger
<1>10. \A k \in DOMAIN l.res : k # p => res[k] = l.res[k]
  BY <1>6, <1>7
<1>11. res[p] = r /\ res[Len(l.res) + 1] = NoReservation /\ Len(res) = Len(l.res) + 1
  BY <1>2, <1>6, <1>7
<1>12. NoReservation.status = "NONE"
  BY DEF NoReservation
<1> QED
  BY <1>0, <1>4, <1>5, <1>7, <1>9, <1>10, <1>11, <1>12

LEMMA AppendIntentIsGood ==
    ASSUME NEW s, NEW o, Good(s), Planned(s, o), NEW t, t = AppendIntent(s, o)
    PROVE  /\ Good(t) /\ t.cursor = s.cursor
           /\ t = Raise(s) \/ /\ Len(s.orders) + 1 \in DOMAIN t.orders
                              /\ t.orders[Len(s.orders) + 1] = o
<1>1. CASE t = Raise(s)
  BY <1>1, RaiseIsGood
<1>2. CASE t # Raise(s)
  <2>1. PICK n : n = Len(s.orders) + 1
    OBVIOUS
  <2>2. IsSession(s) /\ IsLedger(s.ledger) /\ SomeSeq(s.orders) /\ SomeSeq(s.ledger.res)
    BY DEF Good, SessionInv, IsSession, IsLedger
  <2>3. /\ DOMAIN t = DOMAIN s /\ t.orders = Append(s.orders, o) /\ t.cursor = s.cursor
        /\ \/ /\ o.leg = "ENTRY" /\ CanReserveEntry(s.ledger, o)
              /\ t.ledger = ReserveEntry(s.ledger, o)
           \/ /\ o.leg = "EXIT" /\ CanReserveExit(s.ledger, o)
              /\ t.ledger = ReserveExit(s.ledger, n, o)
    BY <1>2, <2>1, <2>2, AppendIntentApplied
  <2>4. /\ SomeSeq(t.orders) /\ Len(t.orders) = n /\ n \in Nat
        /\ DOMAIN s.orders = 1 .. n - 1 /\ DOMAIN t.orders = 1 .. n /\ t.orders[n] = o
        /\ \A k \in DOMAIN s.orders : t.orders[k] = s.orders[k]
    BY <2>1, <2>2, <2>3, AppendIsSeq
  <2>5. Len(s.ledger.res) = n - 1 /\ DOMAIN s.ledger.res = DOMAIN s.orders
    <3>1. Len(s.ledger.res) = Len(s.orders)
      BY <2>2 DEF IsSession
    <3>2. DOMAIN s.ledger.res = 1 .. Len(s.ledger.res) /\ Len(s.orders) \in Nat
      BY <2>2, AppendIsSeq
    <3> QED
      BY <2>1, <2>4, <3>1, <3>2
  <2>6. \A k \in DOMAIN t.orders : IsOrder(t.orders[k]) /\ InLife(t.orders[k])
    <3> SUFFICES ASSUME NEW k \in DOMAIN t.orders
                 PROVE  IsOrder(t.orders[k]) /\ InLife(t.orders[k])
      OBVIOUS
    <3>1. CASE k = n
      BY <2>4, <3>1 DEF Planned
    <3>2. CASE k \in DOMAIN s.orders
      BY <2>2, <2>4, <3>2 DEF IsSession
    <3> QED
      BY <2>4, <3>1, <3>2
  <2>7. ASSUME IsLedger(t.ledger), Len(t.ledger.res) = n PROVE IsSession(t)
    BY <2>2, <2>3, <2>4, <2>6, <2>7 DEF IsSession
  <2>8. \A k \in DOMAIN s.orders : HeldIsLawful(s, k) /\ LegIsLawful(s, k)
    BY DEF Good, SessionInv, CyclesAreLawful
  <2>9. Live(o) /\ o.status = "CREATED"
    BY DEF Planned, Live, Terminal
  \* The orders the session had stay lawful while the reservations they name do.
  <2>10. ASSUME NEW k \in DOMAIN s.orders,
                s.orders[k].leg = "EXIT" /\ Live(s.orders[k]) =>
                    t.ledger.res[s.orders[k].parent] = s.ledger.res[s.orders[k].parent]
         PROVE  LegIsLawful(t, k)
    <3>1. PICK q : q = s.orders[k]
      OBVIOUS
    <3>2. t.orders[k] = q /\ LegIsLawful(s, k) /\ DOMAIN s.orders \subseteq DOMAIN t.orders
      BY <2>4, <2>8, <3>1
    <3>3. q.leg = "EXIT" => t.orders[q.parent] = s.orders[q.parent]
      BY <2>4, <3>1, <3>2 DEF LegIsLawful
    <3> QED
      BY <2>10, <3>1, <3>2, <3>3, LegKept
  <2>11. CASE o.leg = "ENTRY"
    <3>1. PICK m : m = t.ledger
      OBVIOUS
    <3>2. m = ReserveEntry(s.ledger, o) /\ o.cash \in Int /\ IsOrder(o) /\ o.parent = 0
          /\ s.ledger.cash - o.cash >= CashReserve
      BY <2>3, <2>11, <3>1 DEF Planned
    <3>3. /\ IsLedger(m) /\ m.cash = s.ledger.cash - o.cash
          /\ SomeSeq(m.res) /\ Len(m.res) = n
          /\ \A k \in DOMAIN s.orders : m.res[k] = s.ledger.res[k]
          /\ m.res[n].status = "ENTRY_PENDING"
      <4>1. Len(s.ledger.res) + 1 = n
        BY <2>4, <2>5
      <4> QED
        BY <2>2, <2>5, <3>2, <4>1, ReserveEntryKeeps
    <3>4. IsSession(t)
      BY <2>7, <3>1, <3>3
    <3>5. CashHeld(t)
      BY <3>1, <3>2, <3>3 DEF CashHeld
    <3>6. \A k \in DOMAIN t.orders : HeldIsLawful(t, k)
      BY <2>4, <2>8, <3>1, <3>3 DEF HeldIsLawful
    <3>7. \A k \in DOMAIN s.orders : LegIsLawful(t, k)
      <4> SUFFICES ASSUME NEW k \in DOMAIN s.orders PROVE LegIsLawful(t, k)
        OBVIOUS
      <4>1. s.orders[k].leg = "EXIT" => s.orders[k].parent \in DOMAIN s.orders
        BY <2>8 DEF LegIsLawful
      <4> QED
        BY <2>10, <3>1, <3>3, <4>1
    <3>8. LegIsLawful(t, n)
      BY <2>4, <2>11, <3>2 DEF LegIsLawful
    <3>9. CyclesAreLawful(t)
      BY <2>4, <3>6, <3>7, <3>8 DEF CyclesAreLawful
    <3> QED
      BY <2>1, <2>3, <2>4, <3>4, <3>5, <3>9 DEF Good, SessionInv
  <2>12. CASE o.leg = "EXIT"
    <3>1. PICK m, p : m = t.ledger /\ p = o.parent
      OBVIOUS
    <3>2. /\ m = ReserveExit(s.ledger, n, o) /\ CanReserveExit(s.ledger, o)
          /\ p \in DOMAIN s.orders /\ s.ledger.res[p].status = "OPEN"
          /\ s.ledger.res[p].qty = o.qty
      BY <2>3, <2>5, <2>12, <3>1 DEF CanReserveExit
    <3>3. /\ IsLedger(m) /\ m.cash = s.ledger.cash /\ m.cycles = s.ledger.cycles
          /\ SomeSeq(m.res) /\ Len(m.res) = n
          /\ \A k \in DOMAIN s.orders : k # p => m.res[k] = s.ledger.res[k]
          /\ m.res[p].status = "EXIT_PENDING" /\ m.res[p].exit = n
          /\ m.res[p].qty = s.ledger.res[p].qty
          /\ m.res[n].status = "NONE"
      <4>1. Len(s.ledger.res) + 1 = n
        BY <2>4, <2>5
      <4> QED
        <5>1. PICK l : l = s.ledger
          OBVIOUS
        <5>2. IsLedger(l) /\ CanReserveExit(l, o) /\ m = ReserveExit(l, n, o)
          BY <2>2, <3>2, <5>1
        <5>3. /\ IsLedger(m) /\ m.cash = l.cash /\ m.cycles = l.cycles
              /\ SomeSeq(m.res) /\ Len(m.res) = Len(l.res) + 1
              /\ \A k \in DOMAIN l.res : k # o.parent => m.res[k] = l.res[k]
              /\ m.res[o.parent].status = "EXIT_PENDING" /\ m.res[o.parent].exit = n
              /\ m.res[o.parent].qty = l.res[o.parent].qty
              /\ m.res[Len(l.res) + 1].status = "NONE"
          BY <5>2, ReserveExitKeeps
        <5> QED
          BY <2>5, <3>1, <4>1, <5>1, <5>3
    <3>4. IsSession(t)
      BY <2>7, <3>1, <3>3
    <3>5. CashHeld(t)
      BY <3>1, <3>3 DEF Good, CashHeld
    <3>6. /\ s.orders[p].leg = "ENTRY" /\ ~Live(s.orders[p])
          /\ s.ledger.res[p].qty <= s.orders[p].filled
      BY <2>8, <3>2 DEF HeldIsLawful
    <3>7. \A k \in DOMAIN t.orders : HeldIsLawful(t, k)
      BY <2>4, <2>8, <3>1, <3>2, <3>3, <3>6 DEF HeldIsLawful
    <3>8. \A k \in DOMAIN s.orders : LegIsLawful(t, k)
      <4> SUFFICES ASSUME NEW k \in DOMAIN s.orders PROVE LegIsLawful(t, k)
        OBVIOUS
      <4>1. s.orders[k].leg = "EXIT" => s.orders[k].parent \in DOMAIN s.orders
        BY <2>8 DEF LegIsLawful
      <4>2. s.orders[k].leg = "EXIT" /\ Live(s.orders[k]) => s.orders[k].parent # p
        BY <2>8, <3>2 DEF LegIsLawful
      <4> QED
        BY <2>10, <3>1, <3>3, <4>1, <4>2
    <3>9. LegIsLawful(t, n)
      <4>1. t.orders[p] = s.orders[p] /\ p \in DOMAIN t.orders
        BY <2>4, <3>2
      <4>2. o.created >= ExitFrom[o.arb]
        BY <2>12 DEF Planned
      <4> QED
        BY <2>4, <2>12, <3>1, <3>2, <3>3, <3>6, <4>1, <4>2 DEF LegIsLawful
    <3>10. CyclesAreLawful(t)
      BY <2>4, <3>7, <3>8, <3>9 DEF CyclesAreLawful
    <3> QED
      BY <2>1, <2>3, <2>4, <3>4, <3>5, <3>10 DEF Good, SessionInv
  <2> QED
    BY <2>3, <2>11, <2>12
<1> QED
  BY <1>1, <1>2

LEMMA AcceptedIsGood ==
    ASSUME NEW s, NEW o, Good(s), Planned(s, o)
    PROVE  Good(Accepted(s, o)) /\ Accepted(s, o).cursor = s.cursor
<1>1. PICK t, n, e : t = AppendIntent(s, o) /\ n = Len(s.orders) + 1
                     /\ e = Event("ACCEPTED", o.created)
  OBVIOUS
<1>2. Accepted(s, o) = AppendEvent(t, n, e)
  BY <1>1 DEF Accepted, With
<1>3. Good(t) /\ t.cursor = s.cursor /\ (t = Raise(s) \/ (n \in DOMAIN t.orders /\ t.orders[n] = o))
  BY <1>1, AppendIntentIsGood
<1>4. CASE t = Raise(s)
  <2>1. t.ok = FALSE
    BY <1>4 DEF Raise, Good, SessionInv, IsSession
  <2>2. AppendEvent(t, n, e) = Raise(t)
    BY <2>1 DEF AppendEvent
  <2> QED
    BY <1>2, <1>3, <2>2, RaiseIsGood
<1>5. CASE n \in DOMAIN t.orders /\ t.orders[n] = o
  <2>1. Timely(o, e)
    BY <1>1 DEF Timely, Event, FillTypes
  <2> QED
    BY <1>2, <1>3, <1>5, <2>1, AppendEventIsGood
<1> QED
  BY <1>3, <1>4, <1>5

LEMMA FinishIsGood ==
    ASSUME NEW p, NEW c, Good(c)
    PROVE  /\ Good(Finish(p, c)) /\ Finish(p, c).orders = c.orders
           /\ Finish(p, c).cursor = c.cursor /\ Finish(p, c).ok = c.ok
<1>1. PICK d : d = [c EXCEPT !.rev = p.rev + 1]
  OBVIOUS
<1>2. Finish(p, c) \in {c, d}
  BY <1>1 DEF Finish, With
<1>3. DOMAIN d = DOMAIN c /\ d.orders = c.orders /\ d.ledger = c.ledger /\ d.cursor = c.cursor
      /\ d.ok = c.ok
  BY <1>1 DEF Good, SessionInv, IsSession
<1>4. IsSession(d) /\ CyclesAreLawful(d) /\ CashHeld(d)
  BY <1>3, ZenonT(60) DEF Good, SessionInv, IsSession, CyclesAreLawful, HeldIsLawful, LegIsLawful, CashHeld
<1> QED
  BY <1>2, <1>3, <1>4 DEF Good, SessionInv

(***************************************************************************)
(* The matcher's queue lists the eligible intents: in a strict total order *)
(* of a finite set, every rank below its cardinality is some element's.    *)
(***************************************************************************)
Under(R, S, i) == {j \in S : <<j, i>> \in R}

Strict(R, S) ==
    /\ \A i \in S : <<i, i>> \notin R
    /\ \A i, j \in S : i # j => <<i, j>> \in R \/ <<j, i>> \in R
    /\ \A i, j, k \in S : <<i, j>> \in R /\ <<j, k>> \in R => <<i, k>> \in R

LEMMA RanksGrow ==
    ASSUME NEW S, IsFiniteSet(S), NEW R, Strict(R, S), NEW n \in Nat, n = Cardinality(S)
    PROVE  /\ \A i \in S : IsFiniteSet(Under(R, S, i)) /\ Cardinality(Under(R, S, i)) \in 0 .. n - 1
           /\ \A i, j \in S : <<i, j>> \in R
                 => Cardinality(Under(R, S, i)) < Cardinality(Under(R, S, j))
<1>1. \A i \in S : /\ IsFiniteSet(Under(R, S, i)) /\ Cardinality(Under(R, S, i)) \in 0 .. n - 1
  <2> SUFFICES ASSUME NEW i \in S
               PROVE  IsFiniteSet(Under(R, S, i)) /\ Cardinality(Under(R, S, i)) \in 0 .. n - 1
    OBVIOUS
  <2>1. PICK U : U = Under(R, S, i)
    OBVIOUS
  <2>2. U \in SUBSET S /\ i \notin U
    BY <2>1 DEF Under, Strict
  <2>3. /\ IsFiniteSet(U) /\ Cardinality(U) <= Cardinality(S)
        /\ Cardinality(S) = Cardinality(U) => S = U
    BY <2>2, FS_Subset
  <2>4. Cardinality(U) \in Nat
    BY <2>3, FS_CardinalityType
  <2>5. Cardinality(U) # n
    BY <2>2, <2>3
  <2> QED
    BY <2>1, <2>3, <2>4, <2>5
<1>2. ASSUME NEW i \in S, NEW j \in S, <<i, j>> \in R
      PROVE  Cardinality(Under(R, S, i)) < Cardinality(Under(R, S, j))
  <2>1. PICK U, V : U = Under(R, S, i) /\ V = Under(R, S, j)
    OBVIOUS
  <2>2. U \in SUBSET V /\ i \in V /\ i \notin U
    BY <1>2, <2>1 DEF Under, Strict
  <2>3. IsFiniteSet(V) /\ Cardinality(U) \in Nat /\ Cardinality(V) \in Nat
    BY <1>1, <2>1
  <2>4. Cardinality(U) <= Cardinality(V) /\ (Cardinality(V) = Cardinality(U) => V = U)
    BY <2>2, <2>3, FS_Subset
  <2> QED
    BY <2>1, <2>2, <2>3, <2>4
<1> QED
  BY <1>1, <1>2

LEMMA EveryRankIsTaken ==
    ASSUME NEW S, IsFiniteSet(S), NEW R, Strict(R, S), NEW k \in 1 .. Cardinality(S)
    PROVE  \E i \in S : Cardinality(Under(R, S, i)) = k - 1
<1>1. PICK n \in Nat : n = Cardinality(S)
  BY FS_CardinalityType
<1>2. \A i \in S : /\ IsFiniteSet(Under(R, S, i)) /\ Cardinality(Under(R, S, i)) \in 0 .. n - 1
  BY <1>1, RanksGrow
<1>3. ASSUME NEW i \in S, NEW j \in S, <<i, j>> \in R
      PROVE  Cardinality(Under(R, S, i)) < Cardinality(Under(R, S, j))
  BY <1>1, <1>3, RanksGrow
<1>4. SUFFICES ASSUME \A i \in S : Cardinality(Under(R, S, i)) # k - 1 PROVE FALSE
  OBVIOUS
<1>5. PICK I, T : I = 0 .. n - 1 /\ T = I \ {k - 1}
  OBVIOUS
<1>6. IsFiniteSet(T) /\ Cardinality(T) = n - 1
  <2>1. n - 1 \in Int /\ n >= 1 /\ k - 1 \in I
    BY <1>1, <1>5
  <2>2. IsFiniteSet(I) /\ Cardinality(I) = n
    BY <1>5, <2>1, FS_Interval
  <2>3. PICK x : x = k - 1
    OBVIOUS
  <2>4. x \in I /\ T = I \ {x}
    BY <1>5, <2>1, <2>3
  <2>5. IsFiniteSet(I \ {x}) /\ Cardinality(I \ {x}) = Cardinality(I) - 1
    BY <2>2, <2>4, FS_RemoveElement
  <2> QED
    BY <2>2, <2>4, <2>5
<1>7. PICK f : f = [i \in S |-> Cardinality(Under(R, S, i))]
  OBVIOUS
<1>8. f \in [S -> T]
  BY <1>2, <1>4, <1>5, <1>7
<1>9. PICK x \in S, y \in S : x # y /\ f[x] = f[y]
  BY <1>1, <1>6, <1>8, FS_PigeonHole
<1>10. f[x] = Cardinality(Under(R, S, x)) /\ f[y] = Cardinality(Under(R, S, y))
  BY <1>7
<1>11. Cardinality(Under(R, S, x)) \in Int /\ Cardinality(Under(R, S, y)) \in Int
  BY <1>2
<1>c. Cardinality(Under(R, S, x)) = Cardinality(Under(R, S, y))
  BY <1>9, <1>10
<1>d. PICK c \in Int, d \in Int : c = Cardinality(Under(R, S, x)) /\ d = Cardinality(Under(R, S, y))
  BY <1>11
<1>12. <<x, y>> \in R \/ <<y, x>> \in R
  BY <1>9 DEF Strict
<1>13. CASE <<x, y>> \in R
  <2>1. Cardinality(Under(R, S, x)) < Cardinality(Under(R, S, y))
    BY <1>3, <1>13
  <2> QED
    BY <1>c, <1>d, <2>1
<1>14. CASE <<y, x>> \in R
  <2>1. Cardinality(Under(R, S, y)) < Cardinality(Under(R, S, x))
    BY <1>3, <1>14
  <2> QED
    BY <1>c, <1>d, <2>1
<1> QED
  BY <1>12, <1>13, <1>14

\* Priority, creation time, sha256 and position order the intents strictly.
Goes(i, j, a, b) ==
    \/ a[1] < b[1]
    \/ a[1] = b[1] /\ a[2] < b[2]
    \/ a[1] = b[1] /\ a[2] = b[2] /\ a[3] < b[3]
    \/ a[1] = b[1] /\ a[2] = b[2] /\ a[3] = b[3] /\ i < j

Key(s, k) == <<ArbPriority[s.orders[k].arb], s.orders[k].created, ArbDigest[s.orders[k].arb]>>

LEMMA PrecedesIs ==
    ASSUME NEW s, NEW i, NEW j PROVE Precedes(s, i, j) <=> Goes(i, j, Key(s, i), Key(s, j))
BY DEF Precedes, Before, Goes, Key

LEMMA GoesIsStrict ==
    ASSUME NEW i \in Nat, NEW j \in Nat, NEW k \in Nat,
           NEW a \in Int \X Int \X Int, NEW b \in Int \X Int \X Int, NEW c \in Int \X Int \X Int
    PROVE  /\ ~Goes(i, i, a, a)
           /\ i # j => Goes(i, j, a, b) \/ Goes(j, i, b, a)
           /\ Goes(i, j, a, b) /\ Goes(j, k, b, c) => Goes(i, k, a, c)
<1>1. PICK a1 \in Int, a2 \in Int, a3 \in Int : a[1] = a1 /\ a[2] = a2 /\ a[3] = a3
  OBVIOUS
<1>2. PICK b1 \in Int, b2 \in Int, b3 \in Int : b[1] = b1 /\ b[2] = b2 /\ b[3] = b3
  OBVIOUS
<1>3. PICK c1 \in Int, c2 \in Int, c3 \in Int : c[1] = c1 /\ c[2] = c2 /\ c[3] = c3
  OBVIOUS
<1> QED
  BY <1>1, <1>2, <1>3 DEF Goes

\* The intents a quote may reach, by the order in which it reaches them.
Eligible(s, q) ==
    {i \in DOMAIN s.orders : s.orders[i].sym = q.sym /\ s.orders[i].created <= q.observed}

Ahead(s, S) == {p \in S \X S : Precedes(s, p[1], p[2])}

\* Q lists S, the k-th having k - 1 of them ahead of it.
Ranks(Q, S, R) ==
    /\ IsFiniteSet(S) /\ Strict(R, S) /\ Len(Q) \in Nat /\ Len(Q) = Cardinality(S)
    /\ \A k \in 1 .. Len(Q) : Q[k] \in S /\ Cardinality(Under(R, S, Q[k])) = k - 1

LEMMA QueueRanks ==
    ASSUME NEW s, NEW q, IsSession(s), NEW Q, Q = Queue(s, q), NEW S, S = Eligible(s, q)
    PROVE  Ranks(Q, S, Ahead(s, S))
<1>1. S = {i \in DOMAIN s.orders : s.orders[i].sym = q.sym /\ s.orders[i].created <= q.observed}
  BY DEF Eligible
<1>2. DOMAIN s.orders = 1 .. Len(s.orders) /\ Len(s.orders) \in Nat
  BY AppendIsSeq DEF IsSession
<1>3. IsFiniteSet(1 .. Len(s.orders))
  BY <1>2, FS_Interval
<1>4. S \in SUBSET (1 .. Len(s.orders))
  BY <1>1, <1>2
<1>5. IsFiniteSet(S)
  BY <1>3, <1>4, FS_Subset
<1>6. PICK m \in Nat : m = Cardinality(S)
  BY <1>5, FS_CardinalityType
<1>7. PICK R : R = Ahead(s, S)
  OBVIOUS
<1>8. \A i, j \in S : <<i, j>> \in R <=> Goes(i, j, Key(s, i), Key(s, j))
  BY <1>7, PrecedesIs DEF Ahead
<1>9. \A i \in S : Key(s, i) \in Int \X Int \X Int /\ i \in Nat
  <2> SUFFICES ASSUME NEW i \in S PROVE Key(s, i) \in Int \X Int \X Int /\ i \in Nat
    OBVIOUS
  <2>1. IsOrder(s.orders[i]) /\ i \in Nat
    BY <1>1, <1>2 DEF IsSession
  <2>2. s.orders[i].arb \in Arbs /\ s.orders[i].created \in Int
    BY <2>1 DEF IsOrder
  <2>3. ArbPriority[s.orders[i].arb] \in Int /\ ArbDigest[s.orders[i].arb] \in Int
    BY <2>2, PaperSessionAssumption
  <2> QED
    BY <2>1, <2>2, <2>3 DEF Key
<1>10. /\ \A i \in S : <<i, i>> \notin R
       /\ \A i, j \in S : i # j => <<i, j>> \in R \/ <<j, i>> \in R
       /\ \A i, j, k \in S : <<i, j>> \in R /\ <<j, k>> \in R => <<i, k>> \in R
  BY <1>8, <1>9, GoesIsStrict
<1>a. Strict(R, S)
  BY <1>10 DEF Strict
<1>11. \A i \in S : Under(R, S, i) = {j \in S : Precedes(s, j, i)}
  BY <1>7 DEF Under, Ahead
<1>12. \A k \in 1 .. m : \E i \in S : Cardinality({j \in S : Precedes(s, j, i)}) = k - 1
  <2> SUFFICES ASSUME NEW k \in 1 .. m
               PROVE  \E i \in S : Cardinality({j \in S : Precedes(s, j, i)}) = k - 1
    OBVIOUS
  <2>1. PICK i \in S : Cardinality(Under(R, S, i)) = k - 1
    BY <1>5, <1>6, <1>a, EveryRankIsTaken
  <2> QED
    BY <1>11, <2>1
<1>13. Q = [k \in 1 .. m |-> CHOOSE i \in S : Cardinality({j \in S : Precedes(s, j, i)}) = k - 1]
  BY <1>1, <1>6 DEF Queue
<1>14. \A k \in 1 .. m : Q[k] \in S /\ Cardinality({j \in S : Precedes(s, j, Q[k])}) = k - 1
  <2> SUFFICES ASSUME NEW k \in 1 .. m
               PROVE  Q[k] \in S /\ Cardinality({j \in S : Precedes(s, j, Q[k])}) = k - 1
    OBVIOUS
  <2>1. Q[k] = CHOOSE i \in S : Cardinality({j \in S : Precedes(s, j, i)}) = k - 1
    BY <1>13
  <2> QED
    BY <1>12, <2>1
<1>15. Q \in [1 .. m -> S]
  BY <1>13, <1>14
<1>16. Q \in Seq(S)
  BY <1>15
<1>17. Len(Q) = m
  BY <1>15, <1>16
<1>18. \A k \in 1 .. m : Q[k] \in S /\ Cardinality(Under(R, S, Q[k])) = k - 1
  BY <1>11, <1>14
<1> QED
  BY <1>5, <1>6, <1>7, <1>a, <1>17, <1>18 DEF Ranks

LEMMA QueueListsOrders ==
    ASSUME NEW s, NEW q, IsSession(s), NEW Q, Q = Queue(s, q)
    PROVE  Len(Q) \in Nat /\ \A k \in 1 .. Len(Q) : Q[k] \in DOMAIN s.orders
<1>1. PICK S : S = Eligible(s, q)
  OBVIOUS
<1>2. S \subseteq DOMAIN s.orders
  BY <1>1 DEF Eligible
<1>3. Ranks(Q, S, Ahead(s, S))
  BY <1>1, QueueRanks
<1> QED
  BY <1>2, <1>3 DEF Ranks

(***************************************************************************)
(* The commands that append one intent or one event.                       *)
(***************************************************************************)
LEMMA NewOrderIs ==
    ASSUME NEW leg \in {"ENTRY", "EXIT"}, NEW arb \in Arbs, NEW parent, NEW sym, NEW qty \in Int,
           NEW limit, NEW cash \in Int, NEW created \in Int, NEW expires \in Int,
           NEW o, o = NewOrder(leg, arb, parent, sym, qty, limit, cash, created, expires)
    PROVE  /\ IsOrder(o) /\ InLife(o) /\ o.status = "CREATED" /\ o.cash = cash
           /\ o.leg = leg /\ o.arb = arb /\ o.parent = parent /\ o.created = created
<1>1. o = [leg |-> leg, arb |-> arb, parent |-> parent, sym |-> sym, qty |-> qty,
           limit |-> limit, cash |-> cash, created |-> created, expires |-> expires,
           status |-> "CREATED", filled |-> 0, notional |-> 0, lastAt |-> created,
           lastFill |-> NoFill, seen |-> {}]
  BY DEF NewOrder
<1>2. /\ o.status = "CREATED" /\ o.cash = cash /\ o.leg = leg /\ o.arb = arb
      /\ o.parent = parent /\ o.created = created /\ o.expires = expires /\ o.qty = qty
      /\ o.filled = 0 /\ o.notional = 0
  BY <1>1
<1>3. DOMAIN o = {"leg", "arb", "parent", "sym", "qty", "limit", "cash", "created", "expires",
                  "status", "filled", "notional", "lastAt", "lastFill", "seen"}
  BY <1>1
<1>4. IsOrder(o)
  BY <1>2, <1>3 DEF IsOrder
<1>5. InLife(o)
  BY <1>2 DEF InLife, FillTypes
<1> QED
  BY <1>2, <1>4, <1>5

LEMMA QuoteIs ==
    ASSUME NEW q \in Quotes
    PROVE  /\ q.sym \in Symbols /\ q.observed \in Nat /\ q.received \in Nat /\ q.ask \in Nat
           /\ q.bid \in Nat /\ q.askQty \in Nat /\ q.bidQty \in Nat /\ q.received <= q.observed
BY PaperSessionAssumption

LEMMA EntryIsPlanned ==
    ASSUME NEW s, NEW a \in Arbs, NEW q \in Quotes, EntryPlanned(s.ledger, a, q),
           NEW o, o = EntryIntent(a, q)
    PROVE  Planned(s, o)
<1>1. q.observed \in Nat /\ q.ask \in Nat
  BY QuoteIs
<1>2. TimeInForce \in Nat /\ LimitOffset \in Nat /\ TickSize \in Nat /\ OrderQuantity \in Nat
  BY PaperSessionAssumption
<1>3. PICK price, n, cash : /\ price = EntryLimit(q) /\ n = price * OrderQuantity
                            /\ cash = BuyCost(n)
  OBVIOUS
<1>4. price \in Nat
  BY <1>1, <1>2, <1>3 DEF EntryLimit
<1>5. n \in Nat
  BY <1>2, <1>3, <1>4
<1>6. cash \in Int
  BY <1>3, <1>5, PaperLedgerAssumption DEF BuyCost, Bps
<1>7. o = NewOrder("ENTRY", a, 0, ArbSymbol[a], OrderQuantity, price, cash, q.observed,
                   q.observed + TimeInForce)
  BY <1>3 DEF EntryIntent
<1>8. q.observed + TimeInForce \in Int
  BY <1>1, <1>2
<1>9. /\ IsOrder(o) /\ InLife(o) /\ o.status = "CREATED" /\ o.cash = cash
      /\ o.leg = "ENTRY" /\ o.parent = 0
  BY <1>1, <1>2, <1>6, <1>7, <1>8, NewOrderIs
<1>10. s.ledger.cash - cash >= CashReserve
  BY <1>3 DEF EntryPlanned
<1> QED
  BY <1>6, <1>9, <1>10 DEF Planned

LEMMA SubmitEntryIsGood ==
    ASSUME NEW s, Good(s), NEW a \in Arbs, NEW q \in Quotes
    PROVE  /\ Good(SubmitEntry(s, a, q, s.ledger))
           /\ SubmitEntry(s, a, q, s.ledger).cursor = s.cursor
<1>1. PICK o : o = EntryIntent(a, q)
  OBVIOUS
<1>2. \/ SubmitEntry(s, a, q, s.ledger) \in {s, Raise(s)}
      \/ /\ EntryPlanned(s.ledger, a, q)
         /\ SubmitEntry(s, a, q, s.ledger) = Finish(s, Accepted(s, o))
  BY <1>1 DEF SubmitEntry
<1>3. EntryPlanned(s.ledger, a, q) => Planned(s, o)
  BY <1>1, EntryIsPlanned
<1>4. CASE SubmitEntry(s, a, q, s.ledger) \in {s, Raise(s)}
  BY <1>4, RaiseIsGood
<1>5. CASE EntryPlanned(s.ledger, a, q) /\ SubmitEntry(s, a, q, s.ledger) = Finish(s, Accepted(s, o))
  BY <1>3, <1>5, AcceptedIsGood, FinishIsGood
<1> QED
  BY <1>2, <1>4, <1>5

LEMMA ExitIsPlanned ==
    ASSUME NEW s, Good(s), NEW i \in DOMAIN s.orders, NEW q \in Quotes, ExitPlanned(s, i, q),
           NEW o, o = ExitIntent(s, i, q)
    PROVE  Planned(s, o)
<1>1. q.observed \in Nat /\ TimeInForce \in Nat
  BY QuoteIs, PaperSessionAssumption
<1>2. IsSession(s) /\ IsLedger(s.ledger) /\ SomeSeq(s.orders) /\ SomeSeq(s.ledger.res)
      /\ Len(s.ledger.res) = Len(s.orders)
  BY DEF Good, SessionInv, IsSession, IsLedger
<1>3. DOMAIN s.ledger.res = DOMAIN s.orders
  BY <1>2, AppendIsSeq
<1>4. PICK b, n, y : b = s.orders[i].arb /\ n = s.ledger.res[i].qty /\ y = s.orders[i].sym
  OBVIOUS
<1>5. b \in Arbs /\ n \in Int
  BY <1>2, <1>3, <1>4 DEF IsSession, IsOrder, IsLedger, IsReservation
<1>6. PICK price : price = ExitLimit(q)
  OBVIOUS
<1>7. o = NewOrder("EXIT", b, i, y, n, price, 0, q.observed, q.observed + TimeInForce)
  BY <1>4, <1>6 DEF ExitIntent
<1>8. q.observed + TimeInForce \in Int
  BY <1>1
<1>9. /\ IsOrder(o) /\ InLife(o) /\ o.status = "CREATED" /\ o.cash = 0
      /\ o.leg = "EXIT" /\ o.arb = b /\ o.created = q.observed
  BY <1>1, <1>5, <1>7, <1>8, NewOrderIs
<1>10. o.created >= ExitFrom[o.arb]
  BY <1>4, <1>9 DEF ExitPlanned
<1> QED
  BY <1>9, <1>10 DEF Planned

LEMMA SubmitExitIsGood ==
    ASSUME NEW s, Good(s), NEW i, NEW q \in Quotes
    PROVE  Good(SubmitExit(s, i, q)) /\ SubmitExit(s, i, q).cursor = s.cursor
<1>1. PICK o : o = ExitIntent(s, i, q)
  OBVIOUS
<1>2. \/ SubmitExit(s, i, q) \in {s, Raise(s)}
      \/ /\ i \in DOMAIN s.orders /\ ExitPlanned(s, i, q)
         /\ SubmitExit(s, i, q) = Finish(s, Accepted(s, o))
  BY <1>1 DEF SubmitExit
<1>3. i \in DOMAIN s.orders /\ ExitPlanned(s, i, q) => Planned(s, o)
  BY <1>1, ExitIsPlanned
<1>4. CASE SubmitExit(s, i, q) \in {s, Raise(s)}
  BY <1>4, RaiseIsGood
<1>5. CASE /\ i \in DOMAIN s.orders /\ ExitPlanned(s, i, q)
           /\ SubmitExit(s, i, q) = Finish(s, Accepted(s, o))
  BY <1>3, <1>5, AcceptedIsGood, FinishIsGood
<1> QED
  BY <1>2, <1>4, <1>5

LEMMA PlainIsTimely ==
    ASSUME NEW o, NEW type \in {"CANCELLED", "EXPIRED"}, NEW at PROVE Timely(o, Event(type, at))
<1>1. PICK e : e = Event(type, at)
  OBVIOUS
<1>2. e.inc = 0 /\ e.price = 0 /\ e.type = type
  BY <1>1 DEF Event
<1> QED
  BY <1>1, <1>2 DEF Timely, FillTypes

LEMMA CancelOrderIsGood ==
    ASSUME NEW s, Good(s), NEW i, NEW at
    PROVE  Good(CancelOrder(s, i, at)) /\ CancelOrder(s, i, at).cursor = s.cursor
<1>1. \/ CancelOrder(s, i, at) \in {s, Raise(s)}
      \/ /\ i \in DOMAIN s.orders
         /\ CancelOrder(s, i, at) = Finish(s, AppendEvent(s, i, Event("CANCELLED", at)))
  BY DEF CancelOrder
<1>2. CASE CancelOrder(s, i, at) \in {s, Raise(s)}
  BY <1>2, RaiseIsGood
<1>3. CASE /\ i \in DOMAIN s.orders
           /\ CancelOrder(s, i, at) = Finish(s, AppendEvent(s, i, Event("CANCELLED", at)))
  <2>1. PICK e : e = Event("CANCELLED", at)
    OBVIOUS
  <2>2. Timely(s.orders[i], e)
    BY <2>1, PlainIsTimely
  <2> QED
    BY <1>3, <2>1, <2>2, AppendEventIsGood, FinishIsGood
<1> QED
  BY <1>1, <1>2, <1>3

(***************************************************************************)
(* The loops of advance_clock and process_quote, as functions of the       *)
(* number of turns taken; turn k starts from what turn k - 1 left.         *)
(***************************************************************************)
Expire(r, i, at) ==
    IF Live(r.orders[i]) /\ at >= r.orders[i].expires
    THEN AppendEvent(r, i, Event("EXPIRED", at)) ELSE r

\* A turn of the loop x: a clock's, or a quote's.
Turn(x, r, k) == IF x.clock THEN Expire(r, k, x.at) ELSE MatchQuote(r, x.queue[k], x.q)

Runs(f, x, base, n) == f = [k \in 0 .. n |-> IF k = 0 THEN base ELSE Turn(x, f[k - 1], k)]

\* Counting up to n.
LEMMA UpTo ==
    ASSUME NEW n \in Nat, NEW B, 0 \in B, \A k \in 1 .. n : k - 1 \in B => k \in B
    PROVE  n \in B
<1>1. PICK C : C = {m \in 0 .. n : m \notin B}
  OBVIOUS
<1>2. CASE C = {}
  BY <1>1, <1>2
<1>3. CASE C # {}
  <2>1. C \in SUBSET Nat
    BY <1>1
  <2>2. PICK m \in C : \A l \in C : ~(l < m)
    BY <1>3, <2>1, FirstOf
  <2>3. m \in 0 .. n /\ m \notin B
    BY <1>1, <2>2
  <2>4. m \in 1 .. n
    BY <2>3
  <2>5. m - 1 \in 0 .. n /\ m - 1 < m
    BY <2>4
  <2>6. m - 1 \in B
    BY <1>1, <2>2, <2>5
  <2> QED
    BY <2>3, <2>4, <2>6
<1> QED
  BY <1>2, <1>3

LEMMA RunsExists == ASSUME NEW x, NEW base, NEW n \in Nat PROVE \E f : Runs(f, x, base, n)
<1>1. PICK B : B = {m \in Nat : \E f : Runs(f, x, base, m)}
  OBVIOUS
<1>2. 0 \in B
  <2>1. PICK f : f = [k \in 0 .. 0 |-> base]
    OBVIOUS
  <2>2. f = [k \in 0 .. 0 |-> IF k = 0 THEN base ELSE Turn(x, f[k - 1], k)]
    BY <2>1
  <2>3. Runs(f, x, base, 0)
    BY <2>2 DEF Runs
  <2> QED
    BY <1>1, <2>3
<1>3. ASSUME NEW m \in 1 .. n, m - 1 \in B PROVE m \in B
  <2>1. m \in Nat /\ m - 1 \in Nat /\ m # 0
    OBVIOUS
  <2>2. PICK f : Runs(f, x, base, m - 1)
    BY <1>1, <1>3
  <2>3. PICK g : g = [k \in 0 .. m |-> IF k = m THEN Turn(x, f[m - 1], m) ELSE f[k]]
    OBVIOUS
  <2>4. \A k \in 0 .. m : g[k] = IF k = 0 THEN base ELSE Turn(x, g[k - 1], k)
    <3> SUFFICES ASSUME NEW k \in 0 .. m
                 PROVE  g[k] = IF k = 0 THEN base ELSE Turn(x, g[k - 1], k)
      OBVIOUS
    <3>1. CASE k = m
      <4>1. m - 1 \in 0 .. m /\ m - 1 # m /\ m \in 0 .. m
        BY <2>1
      <4>2. g[m - 1] = f[m - 1] /\ g[m] = Turn(x, f[m - 1], m)
        BY <2>3, <4>1
      <4> QED
        BY <2>1, <3>1, <4>2
    <3>2. CASE k # m
      <4>1. k \in 0 .. (m - 1)
        BY <2>1, <3>2
      <4>2. g[k] = f[k] /\ (k # 0 => k - 1 \in 0 .. (m - 1) /\ k - 1 # m /\ g[k - 1] = f[k - 1])
        BY <2>1, <2>3, <4>1
      <4>3. f[k] = IF k = 0 THEN base ELSE Turn(x, f[k - 1], k)
        BY <2>2, <4>1 DEF Runs
      <4> QED
        BY <4>2, <4>3
    <3> QED
      BY <3>1, <3>2
  <2>5. Runs(g, x, base, m)
    BY <2>3, <2>4 DEF Runs
  <2> QED
    BY <1>1, <2>1, <2>5
<1>4. n \in B
  BY <1>2, <1>3, UpTo
<1> QED
  BY <1>1, <1>4

\* What every turn keeps, the loop keeps.
LEMMA RunsKeep ==
    ASSUME NEW f, NEW x, NEW base, NEW n \in Nat, Runs(f, x, base, n)
    PROVE  f[0] = base /\ \A k \in 1 .. n : f[k] = Turn(x, f[k - 1], k)
<1>1. f = [k \in 0 .. n |-> IF k = 0 THEN base ELSE Turn(x, f[k - 1], k)]
  BY DEF Runs
<1>2. 0 \in 0 .. n /\ \A k \in 1 .. n : k \in 0 .. n /\ k # 0
  OBVIOUS
<1> QED
  BY <1>1, <1>2

LEMMA ExpireIsGood ==
    ASSUME NEW s, NEW r, NEW i \in DOMAIN s.orders, NEW at,
           Good(r), DOMAIN r.orders = DOMAIN s.orders, r.cursor = s.cursor
    PROVE  /\ Good(Expire(r, i, at)) /\ DOMAIN Expire(r, i, at).orders = DOMAIN s.orders
           /\ Expire(r, i, at).cursor = s.cursor
<1>1. PICK e : e = Event("EXPIRED", at)
  OBVIOUS
<1>2. Expire(r, i, at) \in {r, AppendEvent(r, i, e)}
  BY <1>1 DEF Expire
<1>3. Timely(r.orders[i], e)
  BY <1>1, PlainIsTimely
<1>4. /\ Good(AppendEvent(r, i, e))
      /\ DOMAIN AppendEvent(r, i, e).orders = DOMAIN r.orders
      /\ AppendEvent(r, i, e).cursor = r.cursor
  BY <1>3, AppendEventIsGood
<1> QED
  BY <1>2, <1>4

\* advance_clock's loop, as it is written.
Expiring(f, s, at, n) ==
    f = [k \in 0 .. n |-> IF k = 0 THEN s ELSE With(f[k - 1], LAMBDA r : Expire(r, k, at))]

LEMMA ExpiringIs ==
    ASSUME NEW f, NEW s, NEW at, NEW n, NEW x, x = [clock |-> TRUE, at |-> at]
    PROVE  Expiring(f, s, at, n) <=> Runs(f, x, s, n)
<1>1. ASSUME NEW v, NEW k PROVE With(v, LAMBDA r : Expire(r, k, at)) = Expire(v, k, at)
  BY DEF With
<1>2. Expiring(f, s, at, n)
         <=> f = [k \in 0 .. n |-> IF k = 0 THEN s ELSE Expire(f[k - 1], k, at)]
  BY <1>1, Zenon DEF Expiring
<1>3. ASSUME NEW v, NEW k PROVE Turn(x, v, k) = Expire(v, k, at)
  BY DEF Turn
<1>4. Runs(f, x, s, n) <=> f = [k \in 0 .. n |-> IF k = 0 THEN s ELSE Expire(f[k - 1], k, at)]
  BY <1>3, Zenon DEF Runs
<1> QED
  BY <1>2, <1>4

\* The clock's loop, turn by turn.
ClockTurns(f, x, s, at, n) ==
    /\ Runs(f, x, s, n) /\ AdvanceClock(s, at) = Finish(s, f[n])
    /\ \A r, k : Turn(x, r, k) = Expire(r, k, at)

LEMMA ClockRuns ==
    ASSUME NEW s, NEW at, NEW n \in Nat, n = Len(s.orders) PROVE \E f, x : ClockTurns(f, x, s, at, n)
<1>1. PICK x : x = [clock |-> TRUE, at |-> at]
  OBVIOUS
<1>2. \A r, k : Turn(x, r, k) = Expire(r, k, at)
  BY <1>1 DEF Turn
<1>3. PICK f : f = CHOOSE g : Expiring(g, s, at, n)
  OBVIOUS
<1>4. Runs(f, x, s, n)
  <2>1. \E g : Expiring(g, s, at, n)
    BY <1>1, RunsExists, ExpiringIs
  <2> QED
    BY <1>1, <1>3, <2>1, ExpiringIs
<1>5. AdvanceClock(s, at) = Finish(s, f[n])
  BY <1>3, Zenon DEF AdvanceClock, Loop, With, Expiring, Expire
<1> QED
  BY <1>2, <1>4, <1>5 DEF ClockTurns

LEMMA AdvanceClockIsGood ==
    ASSUME NEW s, Good(s), NEW at
    PROVE  Good(AdvanceClock(s, at)) /\ AdvanceClock(s, at).cursor = s.cursor
<1>1. SomeSeq(s.orders)
  BY DEF Good, SessionInv, IsSession
<1>2. PICK n \in Nat : n = Len(s.orders) /\ DOMAIN s.orders = 1 .. n
  BY <1>1, AppendIsSeq
<1>3. PICK f, x : ClockTurns(f, x, s, at, n)
  BY <1>2, ClockRuns
<1>a. /\ Runs(f, x, s, n) /\ AdvanceClock(s, at) = Finish(s, f[n])
      /\ \A r, k : Turn(x, r, k) = Expire(r, k, at)
  BY <1>3 DEF ClockTurns
<1>4. PICK B : B = {k \in 0 .. n : /\ Good(f[k]) /\ DOMAIN f[k].orders = DOMAIN s.orders
                                   /\ f[k].cursor = s.cursor}
  OBVIOUS
<1>5. 0 \in B
  BY <1>a, <1>4, RunsKeep
<1>6. ASSUME NEW k \in 1 .. n, k - 1 \in B PROVE k \in B
  <2>1. PICK j, r, t : j = k - 1 /\ r = f[j] /\ t = f[k]
    OBVIOUS
  <2>2. /\ Good(r) /\ DOMAIN r.orders = DOMAIN s.orders /\ r.cursor = s.cursor
        /\ k \in DOMAIN s.orders
    BY <1>2, <1>4, <1>6, <2>1
  <2>3. t = Expire(r, k, at)
    BY <1>a, <2>1, RunsKeep
  <2>4. Good(t) /\ DOMAIN t.orders = DOMAIN s.orders /\ t.cursor = s.cursor
    BY <2>2, <2>3, ExpireIsGood
  <2>5. k \in 0 .. n
    OBVIOUS
  <2> QED
    BY <1>4, <2>1, <2>4, <2>5
<1>7. n \in B
  BY <1>5, <1>6, UpTo
<1> QED
  BY <1>a, <1>4, <1>7, FinishIsGood

(***************************************************************************)
(* match_quote and process_quote.                                          *)
(***************************************************************************)
Legs == {"ENTRY", "EXIT"}

\* What a turn of process_quote keeps of the session it started from.
Pair(s, r) ==
    /\ {"s", "budget"} \subseteq DOMAIN r /\ r.budget \in [Legs -> Int]
    /\ Good(r.s) /\ DOMAIN r.s.orders = DOMAIN s.orders /\ r.s.cursor = s.cursor

LEMMA FillIsTimely ==
    ASSUME NEW o, IsOrder(o), NEW q \in Quotes, NEW b \in Int, NEW n, n = Fillable(o, q, b),
           n # 0, q.observed < o.expires
    PROVE  n \in Int /\ Timely(o, Fill(o, q, n, b))
<1>1. PICK w : w = (IF o.qty - o.filled < b THEN o.qty - o.filled ELSE b)
  OBVIOUS
<1>2. w \in Int
  BY <1>1 DEF IsOrder
<1>3. n = (w \div LotSize) * LotSize /\ q.received > o.created
  BY <1>1 DEF Fillable
<1>4. w \div LotSize \in Int /\ LotSize \in Int
  BY <1>2, PaperSessionAssumption
<1>5. n \in Int
  BY <1>3, <1>4
<1>6. PICK type, price, e : 
         /\ type = (IF o.filled + n = o.qty THEN "FILLED" ELSE "PARTIALLY_FILLED")
         /\ price = (IF o.leg = "ENTRY" THEN q.ask ELSE q.bid)
         /\ e = [type |-> type, at |-> q.observed, inc |-> n, avail |-> b, price |-> price,
                 pos |-> <<q.received, q.sess, q.seq>>]
  OBVIOUS
<1>7. Fill(o, q, n, b) = e
  BY <1>6 DEF Fill
<1>8. /\ e.type = type /\ e.at = q.observed /\ e.inc = n /\ e.price = price
      /\ e.pos[1] = q.received
  BY <1>6
<1>9. price \in Int /\ type \in FillTypes
  BY <1>6, QuoteIs DEF FillTypes
<1>10. o.created < q.received /\ q.received < o.expires
  BY <1>3, QuoteIs DEF IsOrder
<1> QED
  BY <1>5, <1>7, <1>8, <1>9, <1>10 DEF Timely

LEMMA PairWith ==
    ASSUME NEW s, NEW r, Pair(s, r), NEW u, Good(u), DOMAIN u.orders = DOMAIN s.orders,
           u.cursor = s.cursor, NEW t, t = [r EXCEPT !.s = u]
    PROVE  Pair(s, t)
<1>1. DOMAIN t = DOMAIN r /\ t.s = u /\ t.budget = r.budget
  BY DEF Pair
<1> QED
  BY <1>1 DEF Pair

LEMMA MatchIsGood ==
    ASSUME NEW s, NEW r, Pair(s, r), NEW i \in DOMAIN s.orders, NEW q \in Quotes
    PROVE  Pair(s, MatchQuote(r, i, q))
<1>1. PICK o, b, n, t : /\ o = r.s.orders[i] /\ b = r.budget[o.leg] /\ n = Fillable(o, q, b)
                        /\ t = MatchQuote(r, i, q)
  OBVIOUS
<1>2. \/ t = r
      \/ t = [r EXCEPT !.s = Raise(r.s)]
      \/ t = [r EXCEPT !.s = AppendEvent(r.s, i, Event("EXPIRED", q.observed))]
      \/ t = [r EXCEPT !.s = AppendEvent(r.s, i, Event("CANCELLED", q.observed))]
      \/ /\ n # 0 /\ ~(q.observed >= o.expires)
         /\ t = [[r EXCEPT !.s = AppendEvent(r.s, i, Fill(o, q, n, b))]
                   EXCEPT !.budget = [r.budget EXCEPT ![o.leg] = b - n]]
  BY <1>1 DEF MatchQuote, Pair
<1>3. Good(r.s) /\ DOMAIN r.s.orders = DOMAIN s.orders /\ r.s.cursor = s.cursor
  BY DEF Pair
<1>4. ASSUME NEW e, Timely(o, e)
      PROVE  /\ Good(AppendEvent(r.s, i, e))
             /\ DOMAIN AppendEvent(r.s, i, e).orders = DOMAIN s.orders
             /\ AppendEvent(r.s, i, e).cursor = s.cursor
  BY <1>1, <1>3, <1>4, AppendEventIsGood
<1>5. CASE t = r
  BY <1>1, <1>5
<1>6. CASE t = [r EXCEPT !.s = Raise(r.s)]
  <2>1. PICK u : u = Raise(r.s)
    OBVIOUS
  <2>2. Good(u)
    BY <1>3, <2>1, RaiseIsGood
  <2>3. OnlySettles(r.s, u)
    BY <1>3, <2>1, RaiseKeeps DEF Good
  <2> QED
    BY <1>1, <1>3, <1>6, <2>1, <2>2, <2>3, PairWith DEF OnlySettles
<1>7. CASE \E type \in {"EXPIRED", "CANCELLED"} :
              t = [r EXCEPT !.s = AppendEvent(r.s, i, Event(type, q.observed))]
  <2>1. PICK type \in {"EXPIRED", "CANCELLED"} :
              t = [r EXCEPT !.s = AppendEvent(r.s, i, Event(type, q.observed))]
    BY <1>7
  <2>2. PICK e, u : e = Event(type, q.observed) /\ u = AppendEvent(r.s, i, e)
    OBVIOUS
  <2>3. Timely(o, e)
    BY <2>2, PlainIsTimely
  <2>4. Good(u) /\ DOMAIN u.orders = DOMAIN s.orders /\ u.cursor = s.cursor
    BY <1>4, <2>2, <2>3
  <2> QED
    BY <1>1, <2>1, <2>2, <2>4, PairWith
<1>8. CASE /\ n # 0 /\ ~(q.observed >= o.expires)
           /\ t = [[r EXCEPT !.s = AppendEvent(r.s, i, Fill(o, q, n, b))]
                     EXCEPT !.budget = [r.budget EXCEPT ![o.leg] = b - n]]
  <2>1. IsOrder(o)
    BY <1>1, <1>3 DEF Good, SessionInv, IsSession
  <2>2. o.leg \in Legs /\ o.expires \in Int /\ q.observed \in Int
    BY <2>1, QuoteIs DEF IsOrder, Legs
  <2>3. b \in Int
    BY <1>1, <2>2 DEF Pair
  <2>4. q.observed < o.expires
    BY <1>8, <2>2
  <2>5. PICK e, u : e = Fill(o, q, n, b) /\ u = AppendEvent(r.s, i, e)
    OBVIOUS
  <2>6. n \in Int /\ Timely(o, e)
    BY <1>1, <1>8, <2>1, <2>3, <2>4, <2>5, FillIsTimely, ZenonT(60)
  <2>7. Good(u) /\ DOMAIN u.orders = DOMAIN s.orders /\ u.cursor = s.cursor
    BY <1>4, <2>5, <2>6
  <2>8. PICK v, left : v = [r EXCEPT !.s = u] /\ left = [r.budget EXCEPT ![o.leg] = b - n]
    OBVIOUS
  <2>9. Pair(s, v)
    BY <2>7, <2>8, PairWith
  <2>10. left \in [Legs -> Int]
    BY <2>2, <2>3, <2>6, <2>8 DEF Pair
  <2>11. t = [v EXCEPT !.budget = left]
    BY <1>8, <2>5, <2>8
  <2>12. DOMAIN t = DOMAIN v /\ t.s = v.s /\ t.budget = left
    BY <2>9, <2>11 DEF Pair
  <2> QED
    BY <1>1, <2>9, <2>10, <2>12 DEF Pair
<1> QED
  BY <1>2, <1>5, <1>6, <1>7, <1>8

\* process_quote's loop, as it is written.
Matching(f, base, queue, q, n) ==
    f = [k \in 0 .. n |-> IF k = 0 THEN base
                          ELSE With(f[k - 1], LAMBDA r : MatchQuote(r, queue[k], q))]

LEMMA MatchingIs ==
    ASSUME NEW f, NEW base, NEW queue, NEW q, NEW n,
           NEW x, x = [clock |-> FALSE, queue |-> queue, q |-> q]
    PROVE  Matching(f, base, queue, q, n) <=> Runs(f, x, base, n)
<1>1. ASSUME NEW v, NEW k
      PROVE  With(v, LAMBDA r : MatchQuote(r, queue[k], q)) = MatchQuote(v, queue[k], q)
  BY DEF With
<1>2. Matching(f, base, queue, q, n)
         <=> f = [k \in 0 .. n |-> IF k = 0 THEN base ELSE MatchQuote(f[k - 1], queue[k], q)]
  BY <1>1, ZenonT(60) DEF Matching
<1>3. ASSUME NEW v, NEW k PROVE Turn(x, v, k) = MatchQuote(v, queue[k], q)
  BY DEF Turn
<1>4. Runs(f, x, base, n)
         <=> f = [k \in 0 .. n |-> IF k = 0 THEN base ELSE MatchQuote(f[k - 1], queue[k], q)]
  BY <1>3, ZenonT(60) DEF Runs
<1> QED
  BY <1>2, <1>4

(***************************************************************************)
(* What the orders of one leg have bought or sold: one event adds its      *)
(* increment, and process_quote pays each increment out of the budget the  *)
(* quote's displayed quantity gave the leg.                                *)
(***************************************************************************)
OfLeg(s, leg) == {i \in DOMAIN s.orders : s.orders[i].leg = leg}
FilledBy(s) == [i \in DOMAIN s.orders |-> s.orders[i].filled]

IsFilled(g, s, S) ==
    g = [u \in SUBSET S |->
            IF u = {} THEN 0
            ELSE s.orders[CHOOSE x \in u : TRUE].filled + g[u \ {CHOOSE x \in u : TRUE}]]

LEMMA FilledUnfolds ==
    ASSUME NEW s, NEW leg, NEW h, h = CHOOSE g : IsFilled(g, s, OfLeg(s, leg))
    PROVE  Filled(s, leg) = h[OfLeg(s, leg)]
BY DEF Filled, MapThenSumSet, MapThenFoldSet, IsFilled, OfLeg

LEMMA FilledIs ==
    ASSUME NEW s, IsSession(s), NEW leg
    PROVE  /\ IsFiniteSet(OfLeg(s, leg))
           /\ Filled(s, leg) = SumFunctionOnSet(FilledBy(s), OfLeg(s, leg))
<1>1. PICK S, F : S = OfLeg(s, leg) /\ F = FilledBy(s)
  OBVIOUS
<1>2. S \in SUBSET DOMAIN s.orders
  BY <1>1 DEF OfLeg
<1>3. IsFiniteSet(S)
  <2>1. SomeSeq(s.orders)
    BY DEF IsSession
  <2>2. DOMAIN s.orders = 1 .. Len(s.orders) /\ Len(s.orders) \in Nat
    BY <2>1, AppendIsSeq
  <2>3. IsFiniteSet(1 .. Len(s.orders))
    BY <2>2, FS_Interval
  <2> QED
    BY <1>2, <2>2, <2>3, FS_Subset
<1>4. ASSUME NEW g PROVE IsFilled(g, s, S) <=> IsSum(g, F, S)
  <2>1. \A u \in SUBSET S : u # {} => F[CHOOSE x \in u : TRUE] = s.orders[CHOOSE x \in u : TRUE].filled
    BY <1>1, <1>2 DEF FilledBy
  <2>2. [u \in SUBSET S |-> IF u = {} THEN 0
            ELSE s.orders[CHOOSE x \in u : TRUE].filled + g[u \ {CHOOSE x \in u : TRUE}]]
        = [u \in SUBSET S |-> IF u = {} THEN 0
            ELSE F[CHOOSE x \in u : TRUE] + g[u \ {CHOOSE x \in u : TRUE}]]
    BY <2>1
  <2> QED
    BY <2>2 DEF IsFilled, IsSum
<1>5. PICK h, k : h = (CHOOSE g : IsFilled(g, s, S)) /\ k = (CHOOSE g : IsSum(g, F, S))
  OBVIOUS
<1>6. \E g : IsSum(g, F, S)
  BY <1>3, SumsExist
<1>7. IsSum(k, F, S)
  BY <1>5, <1>6
<1>8. IsFilled(h, s, S)
  BY <1>4, <1>5, <1>7
<1>9. IsSum(h, F, S)
  BY <1>4, <1>8
<1>10. h[S] = k[S]
  <2>1. S \in SUBSET S
    OBVIOUS
  <2> QED
    BY <1>3, <1>7, <1>9, <2>1, SumsAgree
<1>11. Filled(s, leg) = h[S]
  BY <1>1, <1>5, FilledUnfolds
<1>12. SumFunctionOnSet(F, S) = k[S]
  BY <1>5, SumUnfolds
<1> QED
  BY <1>1, <1>3, <1>10, <1>11, <1>12

\* t's orders are s's with n more filled of order i.
FillsBy(s, t, i, n) ==
    /\ DOMAIN t.orders = DOMAIN s.orders /\ i \in DOMAIN s.orders
    /\ t.orders[i].leg = s.orders[i].leg /\ t.orders[i].filled = s.orders[i].filled + n
    /\ \A k \in DOMAIN s.orders : k # i => t.orders[k] = s.orders[k]

LEMMA FilledChanges ==
    ASSUME NEW s, IsSession(s), NEW t, IsSession(t), NEW i, NEW n \in Int, FillsBy(s, t, i, n),
           NEW leg
    PROVE  /\ Filled(s, leg) \in Int /\ Filled(t, leg) \in Int
           /\ Filled(t, leg) = Filled(s, leg) + (IF s.orders[i].leg = leg THEN n ELSE 0)
<1>1. PICK S, F, G : S = OfLeg(s, leg) /\ F = FilledBy(s) /\ G = FilledBy(t)
  OBVIOUS
<1>2. OfLeg(t, leg) = S
  BY <1>1 DEF OfLeg, FillsBy
<1>3. \A k \in DOMAIN s.orders : F[k] = s.orders[k].filled /\ G[k] = t.orders[k].filled
  BY <1>1 DEF FilledBy, FillsBy
<1>4. \A k \in DOMAIN s.orders : F[k] \in Int /\ G[k] \in Int
  <2>1. \A k \in DOMAIN s.orders : IsOrder(s.orders[k]) /\ IsOrder(t.orders[k])
    BY DEF IsSession, FillsBy
  <2>2. \A k \in DOMAIN s.orders : s.orders[k].filled \in Int /\ t.orders[k].filled \in Int
    BY <2>1 DEF IsOrder
  <2> QED
    BY <1>3, <2>2
<1>5. S \in SUBSET DOMAIN s.orders /\ i \in DOMAIN s.orders /\ (i \in S <=> s.orders[i].leg = leg)
  BY <1>1 DEF OfLeg, FillsBy
<1>6. /\ IsFiniteSet(S) /\ Filled(s, leg) = SumFunctionOnSet(F, S)
      /\ Filled(t, leg) = SumFunctionOnSet(G, S)
  BY <1>1, <1>2, FilledIs
<1>7. SumFunctionOnSet(F, S) \in Int /\ SumFunctionOnSet(G, S) \in Int
  BY <1>4, <1>5, <1>6, SumType
<1>8. \A k \in DOMAIN s.orders : k # i => F[k] = G[k]
  BY <1>3 DEF FillsBy
<1>9. G[i] = F[i] + n
  BY <1>3 DEF FillsBy
<1>10. CASE i \in S
  <2>1. SumFunctionOnSet(G, S) = SumFunctionOnSet(F, S) - F[i] + G[i]
    BY <1>4, <1>5, <1>6, <1>8, <1>10, SumChange
  <2> QED
    BY <1>4, <1>5, <1>6, <1>7, <1>9, <1>10, <2>1
<1>11. CASE i \notin S
  <2>1. \A k \in S : F[k] = G[k]
    BY <1>5, <1>8, <1>11
  <2>2. SumFunctionOnSet(F, S) = SumFunctionOnSet(G, S)
    BY <1>6, <2>1, SumSame
  <2> QED
    BY <1>5, <1>6, <1>7, <1>11, <2>2
<1> QED
  BY <1>10, <1>11

\* An event that does not raise fills its order by its increment.
LEMMA EventFills ==
    ASSUME NEW s, Good(s), NEW i \in DOMAIN s.orders, NEW e, Timely(s.orders[i], e),
           NEW t, t = AppendEvent(s, i, e), t.ok
    PROVE  s.ok /\ CanReduce(s.orders[i], e) /\ FillsBy(s, t, i, e.inc)
<1>1. PICK u : u = Raise(s)
  OBVIOUS
<1>2. u.ok = FALSE
  BY <1>1 DEF Raise, Good, SessionInv, IsSession
<1>3. t # u
  BY <1>2
<1>4. PICK o, r : o = s.orders[i] /\ r = Reduce(o, e)
  OBVIOUS
<1>5. s.ok /\ CanReduce(o, e) /\ t = AppendReduced(s, i, e, r)
  BY <1>1, <1>3, <1>4 DEF AppendEvent, With
<1>6. Applied(s, t, i, r)
  BY <1>1, <1>3, <1>5, ReducedApplied DEF Good, SessionInv
<1>7. IsOrder(o) /\ InLife(o)
  BY <1>4 DEF Good, SessionInv, IsSession
<1>8. r.leg = o.leg
  BY <1>4, <1>5, <1>7, ReducedInLife
<1>9. r.filled = o.filled + e.inc
  <2>1. PICK n : n = o.filled + e.inc
    OBVIOUS
  <2> QED
    BY <1>4, <1>7, <2>1 DEF Reduce, IsOrder
<1> QED
  BY <1>4, <1>5, <1>6, <1>8, <1>9 DEF Applied, FillsBy

\* A turn's session has spent what is missing of the budgets B.
Spent(s, B, r) ==
    r.s.ok => \A leg \in Legs : /\ r.budget[leg] >= 0
                                /\ Filled(r.s, leg) + r.budget[leg] = Filled(s, leg) + B[leg]

LEMMA WholeLots == ASSUME NEW w \in Int, NEW l \in Nat \ {0} PROVE (w \div l) * l <= w
OBVIOUS

LEMMA FillWithinBudget ==
    ASSUME NEW o, IsOrder(o), NEW q, NEW b \in Int, NEW n, n = Fillable(o, q, b), n # 0
    PROVE  n \in Int /\ n <= b
<1>1. PICK w : w = (IF o.qty - o.filled < b THEN o.qty - o.filled ELSE b)
  OBVIOUS
<1>2. w \in Int /\ w <= b
  BY <1>1 DEF IsOrder
<1>3. n = (w \div LotSize) * LotSize
  BY <1>1 DEF Fillable
<1>4. w \div LotSize \in Int /\ LotSize \in Int /\ (w \div LotSize) * LotSize <= w
  BY <1>2, WholeLots, PaperSessionAssumption
<1> QED
  BY <1>2, <1>3, <1>4

LEMMA MatchSpends ==
    ASSUME NEW s, NEW B, NEW r, Pair(s, r), Spent(s, B, r), NEW i \in DOMAIN s.orders, NEW q \in Quotes
    PROVE  Spent(s, B, MatchQuote(r, i, q))
<1>1. PICK o, b, n, t : /\ o = r.s.orders[i] /\ b = r.budget[o.leg] /\ n = Fillable(o, q, b)
                        /\ t = MatchQuote(r, i, q)
  OBVIOUS
<1> SUFFICES ASSUME t.s.ok PROVE Spent(s, B, t)
  BY <1>1 DEF Spent
<1>2. Good(r.s) /\ IsSession(r.s) /\ i \in DOMAIN r.s.orders /\ r.budget \in [Legs -> Int]
  BY SMTT(40) DEF Pair, Good, SessionInv
<1>3. IsOrder(o) /\ o.leg \in Legs /\ b \in Int
  BY <1>1, <1>2, SMTT(40) DEF IsSession, IsOrder, Legs
<1>4. \/ t = r
      \/ t = [r EXCEPT !.s = Raise(r.s)]
      \/ t = [r EXCEPT !.s = AppendEvent(r.s, i, Event("EXPIRED", q.observed))]
      \/ t = [r EXCEPT !.s = AppendEvent(r.s, i, Event("CANCELLED", q.observed))]
      \/ /\ n # 0 /\ ~(q.observed >= o.expires)
         /\ t = [[r EXCEPT !.s = AppendEvent(r.s, i, Fill(o, q, n, b))]
                   EXCEPT !.budget = [r.budget EXCEPT ![o.leg] = b - n]]
  BY <1>1 DEF MatchQuote, Pair
\* An event of increment m whose leg's budget pays for it.
<1>5. ASSUME NEW e, Timely(o, e), NEW u, u = AppendEvent(r.s, i, e), u.ok, NEW m, m = e.inc,
             t.s = u, NEW left, left = t.budget, left \in [Legs -> Int],
             left[o.leg] = b - m, m <= b, \A leg \in Legs : leg # o.leg => left[leg] = r.budget[leg]
      PROVE  Spent(s, B, t)
  <2>1. r.s.ok /\ FillsBy(r.s, u, i, m)
    BY <1>1, <1>2, <1>5, EventFills
  <2>2. m \in Int
    BY <1>5, SMTT(40) DEF Timely
  <2>3. IsSession(u)
    BY <1>1, <1>2, <1>5, AppendEventIsGood DEF Good, SessionInv
  <2>4. ASSUME NEW leg \in Legs
        PROVE  left[leg] >= 0 /\ Filled(u, leg) + left[leg] = Filled(s, leg) + B[leg]
    <3>1. /\ r.budget[leg] >= 0 /\ Filled(r.s, leg) + r.budget[leg] = Filled(s, leg) + B[leg]
          /\ r.budget[leg] \in Int /\ left[leg] \in Int
      BY <1>2, <1>5, <2>1 DEF Spent
    <3>2. PICK x, y : x = Filled(r.s, leg) /\ y = Filled(u, leg)
      OBVIOUS
    <3>3. x \in Int /\ y \in Int /\ y = x + (IF r.s.orders[i].leg = leg THEN m ELSE 0)
      BY <1>2, <2>1, <2>2, <2>3, <3>2, FilledChanges
    <3>4. CASE leg = o.leg
      <4>1. y = x + m /\ r.budget[leg] = b /\ left[leg] = b - m
        BY <1>1, <1>5, <3>3, <3>4
      <4>2. y + left[leg] = x + r.budget[leg]
        BY <1>3, <2>2, <3>3, <4>1
      <4>3. left[leg] >= 0
        BY <1>3, <1>5, <2>2, <4>1
      <4> QED
        BY <3>1, <3>2, <4>2, <4>3, SMTT(40)
    <3>5. CASE leg # o.leg
      <4>1. y = x /\ left[leg] = r.budget[leg]
        BY <1>1, <1>5, <3>3, <3>5
      <4> QED
        BY <3>1, <3>2, <4>1, SMTT(40)
    <3> QED
      BY <3>4, <3>5
  <2> QED
    BY <1>5, <2>4, SMTT(40) DEF Spent
<1>6. CASE t = r
  BY <1>6
<1>7. CASE t = [r EXCEPT !.s = Raise(r.s)]
  <2>1. PICK u : u = Raise(r.s)
    OBVIOUS
  <2>2. u.ok = FALSE
    BY <1>2, <2>1 DEF Raise, IsSession
  <2>3. t.s = u
    BY <1>7, <2>1 DEF Pair
  <2> QED
    BY <2>2, <2>3
<1>8. CASE \E type \in {"EXPIRED", "CANCELLED"} :
              t = [r EXCEPT !.s = AppendEvent(r.s, i, Event(type, q.observed))]
  <2>1. PICK type \in {"EXPIRED", "CANCELLED"} :
              t = [r EXCEPT !.s = AppendEvent(r.s, i, Event(type, q.observed))]
    BY <1>8
  <2>2. PICK e, u : e = Event(type, q.observed) /\ u = AppendEvent(r.s, i, e)
    OBVIOUS
  <2>3. Timely(o, e) /\ e.inc = 0
    BY <2>2, PlainIsTimely DEF Event
  <2>4. t.s = u /\ t.budget = r.budget
    BY <2>1, <2>2 DEF Pair
  <2>5. CASE r.s.ok
    <3>1. 0 <= b /\ b = b - 0
      BY <1>1, <1>3, <2>5 DEF Spent
    <3>2. PICK m, left : m = e.inc /\ left = t.budget
      OBVIOUS
    <3>3. u.ok /\ m = 0 /\ left = r.budget
      BY <2>3, <2>4, <3>2, SMTT(40)
    <3>4. left[o.leg] = b - m /\ m <= b
      BY <1>1, <3>1, <3>3, SMTT(40)
    <3> QED
      BY <1>2, <1>5, <2>2, <2>3, <2>4, <3>2, <3>3, <3>4
  <2>6. CASE ~r.s.ok
    <3>1. u.ok => r.s.ok
      BY <1>1, <1>2, <2>2, <2>3, EventFills
    <3> QED
      BY <2>4, <2>6, <3>1
  <2> QED
    BY <2>5, <2>6
<1>9. CASE /\ n # 0 /\ ~(q.observed >= o.expires)
           /\ t = [[r EXCEPT !.s = AppendEvent(r.s, i, Fill(o, q, n, b))]
                     EXCEPT !.budget = [r.budget EXCEPT ![o.leg] = b - n]]
  <2>1. q.observed < o.expires
    BY <1>3, <1>9, QuoteIs DEF IsOrder
  <2>2. PICK e, u, left : /\ e = Fill(o, q, n, b) /\ u = AppendEvent(r.s, i, e)
                          /\ left = [r.budget EXCEPT ![o.leg] = b - n]
    OBVIOUS
  <2>3. n \in Int /\ Timely(o, e) /\ n <= b
    BY <1>1, <1>3, <1>9, <2>1, <2>2, FillIsTimely, FillWithinBudget, ZenonT(60)
  <2>4. e.inc = n
    BY <2>2 DEF Fill
  <2>5. PICK v : v = [r EXCEPT !.s = u]
    OBVIOUS
  <2>6. DOMAIN v = DOMAIN r /\ v.s = u
    BY <2>5 DEF Pair
  <2>7. t = [v EXCEPT !.budget = left]
    BY <1>9, <2>2, <2>5
  <2>8. t.s = u /\ t.budget = left
    BY <2>6, <2>7 DEF Pair
  <2>9. /\ left \in [Legs -> Int] /\ left[o.leg] = b - n
        /\ \A leg \in Legs : leg # o.leg => left[leg] = r.budget[leg]
    BY <1>2, <1>3, <2>2, <2>3
  <2> QED
    BY <1>5, <2>2, <2>3, <2>4, <2>8, <2>9
<1> QED
  BY <1>4, <1>6, <1>7, <1>8, <1>9

LEMMA BudgetIs ==
    ASSUME NEW q \in Quotes, NEW p \in Quotes \cup {NoQuote} PROVE Budget(p, q) \in [Legs -> Nat]
<1>1. PICK a, b : /\ a = (IF p # NoQuote /\ p.ask = q.ask THEN Delta(q.askQty, p.askQty) ELSE q.askQty)
                  /\ b = (IF p # NoQuote /\ p.bid = q.bid THEN Delta(q.bidQty, p.bidQty) ELSE q.bidQty)
  OBVIOUS
<1>2. q.askQty \in Nat /\ q.bidQty \in Nat
  BY QuoteIs
<1>3. p # NoQuote => p.askQty \in Nat /\ p.bidQty \in Nat
  BY QuoteIs
<1>4. a \in Nat /\ b \in Nat
  BY <1>1, <1>2, <1>3 DEF Delta
<1>5. Budget(p, q) = [ENTRY |-> a, EXIT |-> b]
  BY <1>1 DEF Budget
<1> QED
  BY <1>4, <1>5 DEF Legs

LEMMA FilledType == ASSUME NEW s, IsSession(s), NEW leg PROVE Filled(s, leg) \in Int
<1>1. PICK S, F : S = OfLeg(s, leg) /\ F = FilledBy(s)
  OBVIOUS
<1>2. \A k \in S : F[k] \in Int
  BY <1>1 DEF OfLeg, FilledBy, IsSession, IsOrder
<1>3. IsFiniteSet(S) /\ Filled(s, leg) = SumFunctionOnSet(F, S)
  BY <1>1, FilledIs
<1> QED
  BY <1>2, <1>3, SumType

LEMMA FilledSame ==
    ASSUME NEW s, NEW t, IsSession(s), IsSession(t), s.orders = t.orders, NEW leg
    PROVE  Filled(s, leg) = Filled(t, leg)
<1>1. OfLeg(s, leg) = OfLeg(t, leg) /\ FilledBy(s) = FilledBy(t)
  BY DEF OfLeg, FilledBy
<1> QED
  BY <1>1, FilledIs

\* The loop of process_quote, turn by turn, and the sessions it may return.
QuoteTurns(f, s, Q, q, n) ==
    /\ f[0] = [s |-> s, budget |-> Budget(s.cursor[q.sym], q)]
    /\ \A k \in 1 .. n : f[k] = MatchQuote(f[k - 1], Q[k], q)

Returned(f, s, q, n, t) ==
    LET p == s.cursor[q.sym] IN
    /\ p # q /\ (p # NoQuote => ~CursorConflict(p, q))
    /\ t = Finish(s, [f[n].s EXCEPT !.cursor[q.sym] = q])

LEMMA QuoteRuns ==
    ASSUME NEW s, NEW q, NEW Q, Q = Queue(s, q), NEW n \in Nat, n = Len(Q),
           NEW t, t = ProcessQuote(s, q)
    PROVE  \E f : QuoteTurns(f, s, Q, q, n) /\ (t \in {s, Raise(s)} \/ Returned(f, s, q, n, t))
<1>1. PICK base, x : /\ base = [s |-> s, budget |-> Budget(s.cursor[q.sym], q)]
                     /\ x = [clock |-> FALSE, queue |-> Q, q |-> q]
  OBVIOUS
<1>2. PICK f : f = CHOOSE g : Matching(g, base, Q, q, n)
  OBVIOUS
<1>3. t \in {s, Raise(s)} \/ Returned(f, s, q, n, t)
  <2>1. f = CHOOSE g : Matching(g, [s |-> s, budget |-> Budget(s.cursor[q.sym], q)],
                                Queue(s, q), q, Len(Queue(s, q)))
    BY <1>1, <1>2, Zenon
  <2>2. CASE s.cursor[q.sym] = q
    BY <2>2 DEF ProcessQuote
  <2>3. CASE s.cursor[q.sym] # q /\ s.cursor[q.sym] # NoQuote /\ CursorConflict(s.cursor[q.sym], q)
    BY <2>3 DEF ProcessQuote
  <2>4. ASSUME s.cursor[q.sym] # q,
               ~(s.cursor[q.sym] # NoQuote /\ CursorConflict(s.cursor[q.sym], q))
        PROVE  t = Finish(s, [f[Len(Queue(s, q))].s EXCEPT !.cursor[q.sym] = q])
    BY <2>1, <2>4, ZenonT(60) DEF ProcessQuote, Loop, Matching
  <2>5. CASE /\ s.cursor[q.sym] # q
             /\ ~(s.cursor[q.sym] # NoQuote /\ CursorConflict(s.cursor[q.sym], q))
    BY <2>4, <2>5 DEF Returned
  <2> QED
    BY <2>2, <2>3, <2>5
<1>4. Runs(f, x, base, n)
  <2>1. \E g : Matching(g, base, Q, q, n)
    BY <1>1, RunsExists, MatchingIs
  <2> QED
    BY <1>1, <1>2, <2>1, MatchingIs
<1>5. \A r, k : Turn(x, r, k) = MatchQuote(r, Q[k], q)
  BY <1>1 DEF Turn
<1>6. f[0] = base /\ \A k \in 1 .. n : f[k] = Turn(x, f[k - 1], k)
  BY <1>4, RunsKeep
<1>7. QuoteTurns(f, s, Q, q, n)
  BY <1>1, <1>5, <1>6 DEF QuoteTurns
<1> QED
  BY <1>3, <1>7

LEMMA QuoteSpends ==
    ASSUME NEW s, Good(s), NEW q \in Quotes, NEW Q, Q = Queue(s, q), NEW n \in Nat, n = Len(Q),
           NEW f, QuoteTurns(f, s, Q, q, n), NEW P, P = Budget(s.cursor[q.sym], q)
    PROVE  \A k \in 0 .. n : Pair(s, f[k]) /\ Spent(s, P, f[k])
<1>1. PICK base : base = [s |-> s, budget |-> P]
  OBVIOUS
<1>2. f[0] = base /\ \A k \in 1 .. n : f[k] = MatchQuote(f[k - 1], Q[k], q)
  BY <1>1 DEF QuoteTurns
<1>3. IsSession(s)
  BY DEF Good, SessionInv
<1>4. \A k \in 1 .. n : Q[k] \in DOMAIN s.orders
  BY <1>3, QueueListsOrders
<1>5. Pair(s, base) /\ Spent(s, P, base)
  <2>1. s.cursor[q.sym] \in Quotes \cup {NoQuote}
    BY <1>3, QuoteIs DEF IsSession
  <2>2. P \in [Legs -> Nat] /\ base.budget = P /\ base.s = s
    BY <1>1, <2>1, BudgetIs
  <2>3. Pair(s, base)
    BY <1>1, <2>2 DEF Pair
  <2>4. \A leg \in Legs : Filled(s, leg) \in Int
    BY <1>3, FilledType
  <2>5. Spent(s, P, base)
    BY <2>2, <2>4 DEF Spent
  <2> QED
    BY <2>3, <2>5
<1>6. ASSUME NEW k \in 0 .. n PROVE Pair(s, f[k]) /\ Spent(s, P, f[k])
  <2>1. PICK B : B = {j \in 0 .. k : Pair(s, f[j]) /\ Spent(s, P, f[j])}
    OBVIOUS
  <2>2. 0 \in B
    BY <1>2, <1>5, <2>1
  <2>3. ASSUME NEW j \in 1 .. k, j - 1 \in B PROVE j \in B
    <3>1. PICK r, u, i : r = f[j - 1] /\ u = f[j] /\ i = Q[j]
      OBVIOUS
    <3>2. Pair(s, r) /\ Spent(s, P, r) /\ j \in 1 .. n /\ j \in 0 .. k
      BY <2>1, <2>3, <3>1
    <3>3. u = MatchQuote(r, i, q) /\ i \in DOMAIN s.orders
      BY <1>2, <1>4, <3>1, <3>2
    <3>4. Pair(s, u) /\ Spent(s, P, u)
      BY <3>2, <3>3, MatchIsGood, MatchSpends
    <3> QED
      BY <2>1, <3>1, <3>2, <3>4
  <2>4. k \in B
    BY <2>2, <2>3, UpTo
  <2> QED
    BY <2>1, <2>4
<1> QED
  BY <1>6

\* Moving one symbol's cursor to a quote leaves everything else.
LEMMA MovedIsGood ==
    ASSUME NEW m, Good(m), NEW q \in Quotes, NEW cursor, cursor = [m.cursor EXCEPT ![q.sym] = q],
           NEW d, d = [m EXCEPT !.cursor = cursor]
    PROVE  /\ Good(d) /\ d.orders = m.orders /\ d.ledger = m.ledger /\ d.cursor = cursor
           /\ d.ok = m.ok
<1>1. IsSession(m)
  BY DEF Good, SessionInv
<1>2. /\ DOMAIN d = DOMAIN m /\ d.orders = m.orders /\ d.ledger = m.ledger /\ d.cursor = cursor
      /\ d.ok = m.ok /\ cursor \in [Symbols -> Quotes \cup {NoQuote}]
  BY <1>1 DEF IsSession
<1>3. IsSession(d) /\ CyclesAreLawful(d) /\ CashHeld(d)
  BY <1>1, <1>2, ZenonT(60) DEF Good, SessionInv, IsSession, CyclesAreLawful, HeldIsLawful, LegIsLawful, CashHeld
<1> QED
  BY <1>2, <1>3 DEF Good, SessionInv

LEMMA ProcessQuoteIsGood ==
    ASSUME NEW s, Good(s), NEW q \in Quotes, NEW t, t = ProcessQuote(s, q),
           NEW p, p = s.cursor[q.sym]
    PROVE  /\ Good(t)
           /\ \/ t.cursor = s.cursor
              \/ /\ t.cursor = [s.cursor EXCEPT ![q.sym] = q]
                 /\ t.ok => \A leg \in Legs : /\ Filled(s, leg) \in Int /\ Filled(t, leg) \in Int
                                             /\ Filled(t, leg) - Filled(s, leg) <= Budget(p, q)[leg]
<1>1. IsSession(s)
  BY DEF Good, SessionInv
<1>2. PICK P, Q : P = Budget(p, q) /\ Q = Queue(s, q)
  OBVIOUS
<1>3. PICK n \in Nat : n = Len(Q)
  BY <1>1, <1>2, QueueListsOrders
<1>4. PICK f : QuoteTurns(f, s, Q, q, n) /\ (t \in {s, Raise(s)} \/ Returned(f, s, q, n, t))
  BY <1>2, <1>3, QuoteRuns
<1>5. Pair(s, f[n]) /\ Spent(s, P, f[n])
  <2>1. n \in 0 .. n
    OBVIOUS
  <2> QED
    BY <1>2, <1>3, <1>4, <2>1, QuoteSpends
<1>12. PICK m, cursor, d : /\ m = f[n].s /\ cursor = [m.cursor EXCEPT ![q.sym] = q]
                           /\ d = [m EXCEPT !.cursor = cursor]
  OBVIOUS
<1>13. /\ Good(m) /\ IsSession(m) /\ m.cursor = s.cursor
       /\ f[n].budget \in [Legs -> Int] /\ Spent(s, P, f[n])
  BY <1>5, <1>12 DEF Pair, Good, SessionInv
<1>14. Good(d) /\ d.orders = m.orders /\ d.cursor = cursor /\ d.ok = m.ok
  BY <1>12, <1>13, MovedIsGood
<1>16. CASE t \in {s, Raise(s)}
  BY <1>16, RaiseIsGood
<1>17. CASE Returned(f, s, q, n, t)
  <2>1. t = Finish(s, d)
    BY <1>12, <1>17 DEF Returned
  <2>2. Good(t) /\ t.orders = m.orders /\ t.cursor = cursor /\ t.ok = m.ok
    BY <1>14, <2>1, FinishIsGood
  <2>3. cursor = [s.cursor EXCEPT ![q.sym] = q]
    BY <1>12, <1>13
  <2>4. ASSUME t.ok, NEW leg \in Legs
        PROVE  /\ Filled(s, leg) \in Int /\ Filled(t, leg) \in Int
               /\ Filled(t, leg) - Filled(s, leg) <= P[leg]
    <3>1. PICK left : left = f[n].budget[leg]
      OBVIOUS
    <3>2. left \in Int /\ left >= 0 /\ Filled(m, leg) + left = Filled(s, leg) + P[leg]
      BY <1>12, <1>13, <2>2, <2>4, <3>1 DEF Spent
    <3>3. Filled(s, leg) \in Int /\ Filled(m, leg) \in Int
      BY <1>1, <1>13, FilledType
    <3>4. P[leg] \in Int
      <4>1. p \in Quotes \cup {NoQuote}
        BY <1>1, QuoteIs DEF IsSession
      <4> QED
        BY <1>2, <4>1, BudgetIs
    <3>5. Filled(t, leg) = Filled(m, leg)
      BY <1>13, <2>2, FilledSame DEF Good, SessionInv
    <3> QED
      BY <3>2, <3>3, <3>4, <3>5
  <2> QED
    BY <1>2, <2>2, <2>3, <2>4
<1> QED
  BY <1>4, <1>16, <1>17

\* Only quotes move the cursor; one that does spends no more than its budget.
LEMMA CommandSpends ==
    ASSUME NEW s, Good(s), NEW c,
           c \in EntryCommands(s.ledger) \cup ExitCommands \cup QuoteCommands
                   \cup ClockCommands \cup CancelCommands,
           NEW t, t = Transition(s, c), t.ok
    PROVE  \/ t.cursor = s.cursor
           \/ \E q \in Quotes :
                 /\ t.cursor = [s.cursor EXCEPT ![q.sym] = q]
                 /\ \A leg \in Legs :
                       /\ Filled(s, leg) \in Int /\ Filled(t, leg) \in Int
                       /\ Filled(t, leg) - Filled(s, leg) <= Budget(s.cursor[q.sym], q)[leg]
<1>1. CASE c \in EntryCommands(s.ledger)
  <2>1. PICK a \in Arbs, q \in Quotes :
              c = [kind |-> "entry", arb |-> a, quote |-> q, resources |-> s.ledger]
    BY <1>1 DEF EntryCommands
  <2>2. t = SubmitEntry(s, a, q, s.ledger)
    BY <2>1 DEF Transition
  <2> QED
    BY <2>2, SubmitEntryIsGood
<1>2. CASE c \in ExitCommands
  <2>1. PICK i \in 1 .. MaxIntents, q \in Quotes : c = [kind |-> "exit", order |-> i, quote |-> q]
    BY <1>2 DEF ExitCommands
  <2>2. t = SubmitExit(s, i, q)
    BY <2>1 DEF Transition
  <2> QED
    BY <2>2, SubmitExitIsGood
<1>3. CASE c \in QuoteCommands
  <2>1. PICK q \in Quotes : c = [kind |-> "quote", quote |-> q]
    BY <1>3 DEF QuoteCommands
  <2>2. t = ProcessQuote(s, q)
    BY <2>1 DEF Transition
  <2>3. PICK p : p = s.cursor[q.sym]
    OBVIOUS
  <2>4. \/ t.cursor = s.cursor
        \/ /\ t.cursor = [s.cursor EXCEPT ![q.sym] = q]
           /\ \A leg \in Legs : /\ Filled(s, leg) \in Int /\ Filled(t, leg) \in Int
                                /\ Filled(t, leg) - Filled(s, leg) <= Budget(p, q)[leg]
    BY <2>2, <2>3, ProcessQuoteIsGood
  <2> QED
    BY <2>3, <2>4
<1>4. CASE c \in ClockCommands
  <2>1. PICK at \in Times : c = [kind |-> "clock", at |-> at]
    BY <1>4 DEF ClockCommands
  <2>2. t = AdvanceClock(s, at)
    BY <2>1 DEF Transition
  <2> QED
    BY <2>2, AdvanceClockIsGood
<1>5. CASE c \in CancelCommands
  <2>1. PICK i \in 1 .. MaxIntents, at \in Times : c = [kind |-> "cancel", order |-> i, at |-> at]
    BY <1>5 DEF CancelCommands
  <2>2. t = CancelOrder(s, i, at)
    BY <2>1 DEF Transition
  <2> QED
    BY <2>2, CancelOrderIsGood
<1> QED
  BY <1>1, <1>2, <1>3, <1>4, <1>5

\* What LiquidityNotReused says of a step from s to t at one symbol.
Shared(s, t, sym) ==
    LET p == s.cursor[sym]
        q == t.cursor[sym]
        bought == Filled(t, "ENTRY") - Filled(s, "ENTRY")
        sold == Filled(t, "EXIT") - Filled(s, "EXIT")
    IN  p # q => /\ bought <= q.askQty /\ sold <= q.bidQty
                 /\ p # NoQuote /\ p.ask = q.ask => bought <= Delta(q.askQty, p.askQty)
                 /\ p # NoQuote /\ p.bid = q.bid => sold <= Delta(q.bidQty, p.bidQty)

LEMMA CommandShares ==
    ASSUME NEW s, Good(s), NEW c,
           c \in EntryCommands(s.ledger) \cup ExitCommands \cup QuoteCommands
                   \cup ClockCommands \cup CancelCommands,
           NEW t, t = Transition(s, c), t.ok, NEW sym \in Symbols
    PROVE  Shared(s, t, sym)
<1>1. CASE t.cursor = s.cursor
  BY <1>1 DEF Shared
<1>2. CASE \E q \in Quotes :
              /\ t.cursor = [s.cursor EXCEPT ![q.sym] = q]
              /\ \A leg \in Legs :
                    /\ Filled(s, leg) \in Int /\ Filled(t, leg) \in Int
                    /\ Filled(t, leg) - Filled(s, leg) <= Budget(s.cursor[q.sym], q)[leg]
  <2>1. PICK q \in Quotes :
              /\ t.cursor = [s.cursor EXCEPT ![q.sym] = q]
              /\ \A leg \in Legs :
                    /\ Filled(s, leg) \in Int /\ Filled(t, leg) \in Int
                    /\ Filled(t, leg) - Filled(s, leg) <= Budget(s.cursor[q.sym], q)[leg]
    BY <1>2
  <2>2. s.cursor \in [Symbols -> Quotes \cup {NoQuote}]
    BY DEF Good, SessionInv, IsSession
  <2>3. CASE sym # q.sym
    <3>1. t.cursor[sym] = s.cursor[sym]
      BY <2>1, <2>2, <2>3
    <3> QED
      BY <3>1 DEF Shared
  <2>4. CASE sym = q.sym
    <3>1. PICK p : p = s.cursor[sym]
      OBVIOUS
    <3>2. p \in Quotes \cup {NoQuote} /\ t.cursor[sym] = q
      BY <2>1, <2>2, <2>4, <3>1
    <3>3. PICK x, y, b : /\ x = Filled(t, "ENTRY") - Filled(s, "ENTRY")
                         /\ y = Filled(t, "EXIT") - Filled(s, "EXIT") /\ b = Budget(p, q)
      OBVIOUS
    <3>4. x \in Int /\ y \in Int /\ x <= b["ENTRY"] /\ y <= b["EXIT"]
      BY <2>1, <2>4, <3>1, <3>3 DEF Legs
    <3>5. /\ b["ENTRY"] = (IF p # NoQuote /\ p.ask = q.ask THEN Delta(q.askQty, p.askQty) ELSE q.askQty)
          /\ b["EXIT"] = (IF p # NoQuote /\ p.bid = q.bid THEN Delta(q.bidQty, p.bidQty) ELSE q.bidQty)
      BY <3>3 DEF Budget
    <3>6. q.askQty \in Nat /\ q.bidQty \in Nat
      BY QuoteIs
    <3>7. p # NoQuote => /\ Delta(q.askQty, p.askQty) \in Nat /\ Delta(q.askQty, p.askQty) <= q.askQty
                         /\ Delta(q.bidQty, p.bidQty) \in Nat /\ Delta(q.bidQty, p.bidQty) <= q.bidQty
      BY <3>2, <3>6, QuoteIs DEF Delta
    <3>8. /\ x <= q.askQty /\ (p # NoQuote /\ p.ask = q.ask => x <= Delta(q.askQty, p.askQty))
      BY <3>4, <3>5, <3>6, <3>7
    <3>9. /\ y <= q.bidQty /\ (p # NoQuote /\ p.bid = q.bid => y <= Delta(q.bidQty, p.bidQty))
      BY <3>4, <3>5, <3>6, <3>7
    <3> QED
      BY <3>1, <3>2, <3>3, <3>8, <3>9 DEF Shared
  <2> QED
    BY <2>3, <2>4
<1> QED
  BY <1>1, <1>2, CommandSpends

(***************************************************************************)
(* The specification.                                                      *)
(***************************************************************************)
LEMMA EmptySessionIsGood == Good(EmptySession)
<1>1. PICK s, l : s = EmptySession /\ l = InitialLedger
  OBVIOUS
<1>2. /\ s.ledger = l /\ s.orders = <<>> /\ s.cursor = [y \in Symbols |-> NoQuote]
      /\ {"ok", "rev", "ledger", "orders", "ops", "liquidity", "lastAt", "cursor"} \subseteq DOMAIN s
  BY <1>1 DEF EmptySession
<1>3. /\ l.res = <<>> /\ l.cash \in Int /\ l.cycles = 0
      /\ {"rev", "cash", "pos", "cycles", "pnl", "res"} \subseteq DOMAIN l
  BY <1>1, PaperLedgerAssumption DEF InitialLedger
<1>4. PICK e : e = <<>>
  OBVIOUS
<1>5. SomeSeq(e) /\ Len(e) = 0 /\ DOMAIN e = {}
  <2>1. e \in Seq({})
    BY <1>4
  <2> QED
    BY <1>4, <2>1 DEF SomeSeq
<1>6. IsLedger(l)
  BY <1>3, <1>4, <1>5 DEF IsLedger
<1>7. IsSession(s)
  BY <1>2, <1>3, <1>4, <1>5, <1>6 DEF IsSession
<1> QED
  BY <1>1, <1>2, <1>3, <1>4, <1>5, <1>7 DEF Good, SessionInv, CyclesAreLawful, CashHeld

LEMMA CommandIsGood ==
    ASSUME NEW s, Good(s), NEW c,
           c \in EntryCommands(s.ledger) \cup ExitCommands \cup QuoteCommands
                   \cup ClockCommands \cup CancelCommands
    PROVE  Good(Transition(s, c))
<1>1. CASE c \in EntryCommands(s.ledger)
  <2>1. PICK a \in Arbs, q \in Quotes :
              c = [kind |-> "entry", arb |-> a, quote |-> q, resources |-> s.ledger]
    BY <1>1 DEF EntryCommands
  <2>2. Transition(s, c) = SubmitEntry(s, a, q, s.ledger)
    BY <2>1 DEF Transition
  <2> QED
    BY <2>2, SubmitEntryIsGood
<1>2. CASE c \in ExitCommands
  <2>1. PICK i \in 1 .. MaxIntents, q \in Quotes : c = [kind |-> "exit", order |-> i, quote |-> q]
    BY <1>2 DEF ExitCommands
  <2>2. Transition(s, c) = SubmitExit(s, i, q)
    BY <2>1 DEF Transition
  <2> QED
    BY <2>2, SubmitExitIsGood
<1>3. CASE c \in QuoteCommands
  <2>1. PICK q \in Quotes : c = [kind |-> "quote", quote |-> q]
    BY <1>3 DEF QuoteCommands
  <2>2. Transition(s, c) = ProcessQuote(s, q)
    BY <2>1 DEF Transition
  <2> QED
    BY <2>2, ProcessQuoteIsGood
<1>4. CASE c \in ClockCommands
  <2>1. PICK t \in Times : c = [kind |-> "clock", at |-> t]
    BY <1>4 DEF ClockCommands
  <2>2. Transition(s, c) = AdvanceClock(s, t)
    BY <2>1 DEF Transition
  <2> QED
    BY <2>2, AdvanceClockIsGood
<1>5. CASE c \in CancelCommands
  <2>1. PICK i \in 1 .. MaxIntents, t \in Times : c = [kind |-> "cancel", order |-> i, at |-> t]
    BY <1>5 DEF CancelCommands
  <2>2. Transition(s, c) = CancelOrder(s, i, t)
    BY <2>1 DEF Transition
  <2> QED
    BY <2>2, CancelOrderIsGood
<1> QED
  BY <1>1, <1>2, <1>3, <1>4, <1>5

\* A step is one command, carried out whole.
LEMMA StepIs ==
    ASSUME SessionNext
    PROVE  \E c \in EntryCommands(session.ledger) \cup ExitCommands \cup QuoteCommands
                      \cup ClockCommands \cup CancelCommands :
              Transition(session, c).ok /\ session' = Transition(session, c)
<1>1. PICK c : /\ c \in EntryCommands(session.ledger) \cup ExitCommands \cup QuoteCommands
                           \cup ClockCommands \cup CancelCommands
               /\ Atomic!Execute(c)
  BY Zenon DEF SessionNext, Entry, Exit, Quote, Clock, Cancel
<1>2. Transition(session, c).ok /\ session' = Transition(session, c)
  BY <1>1, Zenon DEF Atomic!Execute
<1> QED
  BY <1>1, <1>2

LEMMA GoodAlways == SessionSpec => []Good(session)
<1>1. SessionInit => Good(session)
  BY EmptySessionIsGood DEF SessionInit, Atomic!Init
<1>2. Good(session) /\ [SessionNext]_sessionVars => Good(session)'
  <2> SUFFICES ASSUME Good(session), [SessionNext]_sessionVars PROVE Good(session')
    OBVIOUS
  <2>1. CASE SessionNext
    <3>1. PICK s, c : /\ s = session
                      /\ c \in EntryCommands(s.ledger) \cup ExitCommands \cup QuoteCommands
                                  \cup ClockCommands \cup CancelCommands
                      /\ session' = Transition(s, c)
      BY <2>1, StepIs
    <3>2. Good(Transition(s, c))
      BY <3>1, CommandIsGood
    <3> QED
      BY <3>1, <3>2
  <2>2. CASE UNCHANGED sessionVars
    BY <2>2 DEF sessionVars
  <2> QED
    BY <2>1, <2>2
<1> QED
  BY <1>1, <1>2, PTL DEF SessionSpec

\* The cash reserve is held: whatever the number of cycles, fills, partial
\* fills, settlements and releases, once a cycle has started the available
\* cash never falls below it (plan_paper_order, settle_paper_entry).
THEOREM CashReserved == SessionSpec => []CashReserveHeld
<1>1. Good(session) => CashReserveHeld
  BY DEF Good, CashHeld, CashReserveHeld
<1> QED
  BY <1>1, GoodAlways, PTL

\* No lookahead, no fill at or after expiry, exits only of what the entry
\* bought and from their horizon on, never two live exits of one cycle
\* (match_quote, submit_exit, reserve_paper_exit).
THEOREM OrderLives == SessionSpec => []OrdersKeepTheirLives
<1>1. ASSUME Good(session) PROVE OrdersKeepTheirLives
  <2>1. PICK s : s = session
    OBVIOUS
  <2>2. IsSession(s) /\ \A i \in DOMAIN s.orders : LegIsLawful(s, i)
    BY <1>1, <2>1 DEF Good, SessionInv, CyclesAreLawful
  <2>3. FillsInsideOrderLife
    BY <2>1, <2>2 DEF IsSession, InLife, FillsInsideOrderLife
  <2>4. ExitsFollowEntries
    <3> SUFFICES ASSUME NEW x \in DOMAIN s.orders, s.orders[x].leg = "EXIT"
                 PROVE  LET o == s.orders[x] IN
                        /\ ~Live(s.orders[o.parent])
                        /\ o.qty <= s.orders[o.parent].filled
                        /\ o.created >= ExitFrom[o.arb]
                        /\ \A y \in DOMAIN s.orders :
                              s.orders[y].parent = o.parent /\ Live(o)
                                 /\ Live(s.orders[y]) => y = x
      BY <2>1 DEF ExitsFollowEntries
    <3>1. LegIsLawful(s, x) /\ s.orders[x].parent \in DOMAIN s.orders
      BY <2>2 DEF LegIsLawful
    <3>2. s.orders[x].parent # 0
      <4>1. SomeSeq(s.orders)
        BY <2>2 DEF IsSession
      <4>2. DOMAIN s.orders = 1 .. Len(s.orders) /\ Len(s.orders) \in Nat
        BY <4>1, AppendIsSeq
      <4> QED
        BY <3>1, <4>2
    <3>3. ASSUME NEW y \in DOMAIN s.orders, s.orders[y].parent = s.orders[x].parent,
                 Live(s.orders[x]), Live(s.orders[y])
          PROVE  y = x
      <4>1. LegIsLawful(s, y) /\ s.orders[y].leg \in {"ENTRY", "EXIT"}
        BY <2>2 DEF IsSession, IsOrder
      <4>2. s.orders[y].leg = "EXIT"
        BY <3>2, <3>3, <4>1 DEF LegIsLawful
      <4> QED
        BY <3>1, <3>3, <4>1, <4>2 DEF LegIsLawful
    <3> QED
      BY <3>1, <3>3 DEF LegIsLawful
  <2> QED
    BY <2>3, <2>4 DEF OrdersKeepTheirLives
<1> QED
  BY <1>1, GoodAlways, PTL

\* One quote fills at most what it displays on each side over all orders, and
\* a quote that repeats the previous price only what it displays more; no
\* other command takes displayed liquidity (process_quote).
THEOREM LiquidityShared == SessionSpec => LiquidityNotReused
<1>1. ASSUME Good(session), [SessionNext]_sessionVars
      PROVE  [\A sym \in Symbols : Shared(session, session', sym)]_sessionVars
  <2>1. CASE SessionNext
    <3>1. PICK s, c, t : /\ s = session /\ t = Transition(s, c) /\ t.ok /\ session' = t
                         /\ c \in EntryCommands(s.ledger) \cup ExitCommands \cup QuoteCommands
                                     \cup ClockCommands \cup CancelCommands
      BY <2>1, StepIs
    <3>2. \A sym \in Symbols : Shared(s, t, sym)
      BY <1>1, <3>1, CommandShares
    <3> QED
      BY <3>1, <3>2
  <2>2. CASE UNCHANGED sessionVars
    BY <2>2
  <2> QED
    BY <1>1, <2>1, <2>2
<1>2. SessionSpec => [][\A sym \in Symbols : Shared(session, session', sym)]_sessionVars
  BY <1>1, GoodAlways, PTL DEF SessionSpec
<1> QED
  BY <1>2 DEF LiquidityNotReused, Shared

(***************************************************************************)
(* Price-time priority.  Orders are filled in whole lots, so an order a    *)
(* turn leaves live either was not filled because its leg's budget has     *)
(* less than a lot left, or is one the quote may not fill; every later     *)
(* order of the leg then takes nothing from that quote.                    *)
(***************************************************************************)
WholeLot(n) == \E z \in Int : n = z * LotSize

LotsOf(o) == /\ WholeLot(o.qty) /\ WholeLot(o.filled)
             /\ Live(o) => o.filled < o.qty

HeldLots(r) == r.status \in {"OPEN", "EXIT_PENDING"} => WholeLot(r.qty) /\ r.qty > 0

InLots(s) == /\ \A i \in DOMAIN s.orders : LotsOf(s.orders[i])
             /\ \A i \in DOMAIN s.ledger.res : HeldLots(s.ledger.res[i])

\* Position v is that of a quote of the symbol no later than the cursor's quote.
NotAfter(p, c) == p.received <= c.received /\ (p.received = c.received => p.seq <= c.seq)

Known(v, sym, c) ==
    /\ c # NoQuote /\ c.sym = sym
    /\ \E p \in Quotes : p.sym = sym /\ v = <<p.sess, p.seq>> /\ NotAfter(p, c)

SeenIn(s, C) == \A i \in DOMAIN s.orders :
                   \A v \in s.orders[i].seen : Known(v, s.orders[i].sym, C[s.orders[i].sym])

LEMMA LotSizeIs == LotSize \in Nat \ {0}
BY PaperSessionAssumption

LEMMA LotsAdd ==
    ASSUME NEW m, NEW n, WholeLot(m), WholeLot(n)
    PROVE  m \in Int /\ WholeLot(m + n) /\ WholeLot(m - n)
<1>1. PICK x \in Int, y \in Int : m = x * LotSize /\ n = y * LotSize
  BY DEF WholeLot
<1>2. LotSize \in Int
  BY LotSizeIs
<1>3. m + n = (x + y) * LotSize /\ m - n = (x - y) * LotSize
  BY <1>1, <1>2
<1>4. x + y \in Int /\ x - y \in Int /\ m \in Int
  BY <1>1, <1>2
<1> QED
  BY <1>3, <1>4 DEF WholeLot

\* Dividing by the lot leaves less than a lot.
LEMMA RestIsLess ==
    ASSUME NEW w \in Int, NEW l \in Nat \ {0}
    PROVE  /\ w \div l \in Int /\ (w \div l) * l \in Int
           /\ (w \div l) * l <= w /\ w < (w \div l) * l + l
OBVIOUS

LEMMA NoLotBetween ==
    ASSUME NEW x \in Int, NEW y \in Int, NEW l \in Nat \ {0}, x * l < y * l
    PROVE  x * l + l <= y * l
<1>1. x < y
  <2> SUFFICES ASSUME y <= x PROVE FALSE
    OBVIOUS
  <2>1. PICK d \in Nat : x = y + d
    OBVIOUS
  <2>2. x * l = y * l + d * l /\ d * l \in Nat /\ y * l \in Int
    BY <2>1
  <2> QED
    BY <2>2
<1>2. PICK d \in Nat : y = x + 1 + d
  BY <1>1
<1>3. y * l = x * l + l + d * l /\ d * l \in Nat /\ x * l \in Int
  BY <1>2
<1> QED
  BY <1>3

\* Of two lengths in whole lots the longer is longer by a lot.
LEMMA LotsApart ==
    ASSUME NEW m, NEW n, WholeLot(m), WholeLot(n), m < n PROVE m + LotSize <= n
<1>1. PICK x \in Int, y \in Int : m = x * LotSize /\ n = y * LotSize
  BY DEF WholeLot
<1> QED
  BY <1>1, LotSizeIs, NoLotBetween

LEMMA LotsOfRest ==
    ASSUME NEW w \in Int
    PROVE  /\ WholeLot((w \div LotSize) * LotSize)
           /\ (w \div LotSize) * LotSize <= w /\ w < (w \div LotSize) * LotSize + LotSize
           /\ WholeLot(w) => (w \div LotSize) * LotSize = w
<1>1. PICK l \in Nat \ {0} : l = LotSize
  BY LotSizeIs
<1>2. PICK d \in Int, m \in Int : d = w \div l /\ m = d * l
  BY RestIsLess
<1>3. m <= w /\ w < m + l
  BY <1>2, RestIsLess
<1>4. WholeLot(m)
  BY <1>1, <1>2 DEF WholeLot
<1>5. ASSUME WholeLot(w) PROVE m = w
  <2>1. m < w => m + l <= w
    BY <1>1, <1>4, <1>5, LotsApart
  <2> QED
    BY <1>3, <2>1
<1> QED
  BY <1>1, <1>2, <1>3, <1>4, <1>5

LEMMA NoLotIsALot == WholeLot(0)
<1>1. 0 = 0 * LotSize /\ 0 \in Int
  BY LotSizeIs
<1> QED
  BY <1>1 DEF WholeLot

\* What reducing an event changes of an order, and what it leaves.
IsReduced(o, e, r) ==
    /\ r.leg = o.leg /\ r.arb = o.arb /\ r.sym = o.sym /\ r.qty = o.qty /\ r.limit = o.limit
    /\ r.created = o.created /\ r.expires = o.expires
    /\ r.status = e.type /\ r.filled = o.filled + e.inc
    /\ r.seen = IF e.inc > 0 THEN o.seen \cup {<<e.pos[2], e.pos[3]>>} ELSE o.seen

LEMMA ReducedIs == ASSUME NEW o, NEW e, IsOrder(o) PROVE IsReduced(o, e, Reduce(o, e))
<1>1. PICK fill, seen, n, m : /\ fill = (IF e.inc > 0 THEN e.pos ELSE o.lastFill)
                              /\ seen = (IF e.inc > 0 THEN o.seen \cup {<<e.pos[2], e.pos[3]>>}
                                         ELSE o.seen)
                              /\ n = o.filled + e.inc /\ m = o.notional + e.price * e.inc
  OBVIOUS
<1>0. PICK r : r = Reduce(o, e)
  OBVIOUS
<1>2. r = [o EXCEPT !.status = e.type, !.filled = n, !.notional = m, !.lastAt = e.at,
                    !.lastFill = fill, !.seen = seen]
  BY <1>0, <1>1 DEF Reduce
<1>3. /\ r.leg = o.leg /\ r.arb = o.arb /\ r.sym = o.sym /\ r.qty = o.qty /\ r.limit = o.limit
      /\ r.created = o.created /\ r.expires = o.expires
  BY <1>2 DEF IsOrder
<1>4. r.status = e.type /\ r.filled = n /\ r.seen = seen
  BY <1>2 DEF IsOrder
<1> QED
  BY <1>0, <1>1, <1>3, <1>4 DEF IsReduced

LEMMA ReducedInLots ==
    ASSUME NEW o, NEW e, IsOrder(o), Timely(o, e), CanReduce(o, e), LotsOf(o), WholeLot(e.inc),
           NEW r, r = Reduce(o, e)
    PROVE  LotsOf(r)
<1>1. r.qty = o.qty /\ r.status = e.type /\ r.filled = o.filled + e.inc
  <2>1. IsReduced(o, e, r)
    BY ReducedIs
  <2> QED
    BY <2>1 DEF IsReduced
<1>2. WholeLot(r.qty) /\ WholeLot(r.filled)
  BY <1>1, LotsAdd DEF LotsOf
<1>3. ASSUME Live(r) PROVE r.filled < r.qty
  <2>1. e.type \in Allowed(o.status) /\ e.type \notin Terminal /\ o.status \notin Terminal
    BY <1>1, <1>3 DEF CanReduce, Live, Allowed, Terminal
  <2>2. CASE e.type = "PARTIALLY_FILLED"
    BY <1>1, <2>2 DEF CanReduce
  <2>3. CASE e.type = "ACCEPTED"
    <3>1. e.inc = 0 /\ o.filled \in Nat
      BY <2>3 DEF Timely, FillTypes, IsOrder
    <3>2. o.filled < o.qty
      BY <2>1 DEF LotsOf, Live
    <3> QED
      BY <1>1, <3>1, <3>2
  <2> QED
    BY <2>1, <2>2, <2>3 DEF Allowed, FillTypes, Terminal
<1> QED
  BY <1>2, <1>3 DEF LotsOf

\* What settles is in whole lots too: an entry's reservation opens with what
\* it filled, an exit's reopens with what it left.
LEMMA SettleInLots ==
    ASSUME NEW l, IsLedger(l), NEW i \in DOMAIN l.res, NEW o, IsOrder(o), LotsOf(o),
           o.leg = "EXIT" => o.parent \in DOMAIN l.res,
           Settleable(l, i, o), NEW m, m = Settle(l, i, o),
           \A k \in DOMAIN l.res : HeldLots(l.res[k])
    PROVE  DOMAIN m.res = DOMAIN l.res /\ \A k \in DOMAIN l.res : HeldLots(m.res[k])
<1>1. CASE o.leg = "ENTRY"
  <2>1. CanSettleEntry(l, i, o) /\ m = SettleEntry(l, i, o)
    BY <1>1 DEF Settleable, Settle, CanSettleExit
  <2>2. /\ DOMAIN m.res = DOMAIN l.res /\ \A k \in DOMAIN l.res : k # i => m.res[k] = l.res[k]
    BY <2>1, SettleEntryKeeps
  <2>3. PICK r, cash, pos, res :
           /\ r = (IF o.filled = 0 THEN NoReservation
                   ELSE [NoReservation EXCEPT !.status = "OPEN", !.qty = o.filled,
                                              !.num = o.notional, !.den = o.filled])
           /\ cash = l.cash + l.res[i].cash - BuyCost(o.notional)
           /\ pos = [l.pos EXCEPT ![o.sym] = l.pos[o.sym] + l.res[i].qty - o.filled]
           /\ res = [l.res EXCEPT ![i] = r]
    OBVIOUS
  <2>4. m = [l EXCEPT !.rev = l.rev + 1, !.cash = cash, !.pos = pos, !.res = res]
    BY <2>1, <2>3 DEF SettleEntry
  <2>5. m.res = res
    BY <2>4 DEF IsLedger
  <2>6. m.res[i] = r
    BY <2>3, <2>5
  <2>7. r.status = "OPEN" => o.filled # 0 /\ r.qty = o.filled
    BY <2>3 DEF NoReservation
  <2>8. r.status \in {"NONE", "OPEN"}
    BY <2>3 DEF NoReservation
  <2>9. o.filled \in Nat /\ WholeLot(o.filled)
    BY DEF IsOrder, LotsOf
  <2>10. HeldLots(r)
    BY <2>7, <2>8, <2>9 DEF HeldLots
  <2> QED
    BY <2>2, <2>6, <2>10
<1>2. CASE o.leg = "EXIT"
  <2>1. CanSettleExit(l, i, o) /\ m = SettleExit(l, i, o)
    BY <1>2 DEF Settleable, Settle, CanSettleEntry
  <2>2. PICK p, q : p = o.parent /\ q = l.res[p] /\ p \in DOMAIN l.res
    BY <1>2
  <2>3. DOMAIN m.res = DOMAIN l.res /\ \A k \in DOMAIN l.res : k # p => m.res[k] = l.res[k]
    BY <2>1, <2>2, SettleExitKeeps
  <2>4. PICK r, pnl, res :
           /\ r = (IF o.filled = q.qty THEN NoReservation
                   ELSE [q EXCEPT !.status = "OPEN", !.exit = 0, !.qty = q.qty - o.filled])
           /\ pnl = l.pnl + SaleValue(o.notional) - BuyCost(q.num * o.filled) \div q.den
           /\ res = [l.res EXCEPT ![p] = r]
    OBVIOUS
  <2>5. m = [l EXCEPT !.rev = l.rev + 1, !.pnl = pnl, !.res = res]
    BY <2>1, <2>2, <2>4 DEF SettleExit
  <2>6. m.res = res
    BY <2>5 DEF IsLedger
  <2>7. m.res[p] = r
    BY <2>2, <2>4, <2>6
  <2>8. IsReservation(q) /\ q.status = "EXIT_PENDING" /\ o.filled <= q.qty /\ HeldLots(q)
    BY <2>1, <2>2 DEF CanSettleExit, IsLedger
  <2>9. WholeLot(q.qty) /\ WholeLot(o.filled) /\ o.filled \in Int /\ q.qty \in Int
    BY <2>8 DEF HeldLots, LotsOf, IsOrder, IsReservation
  <2>10. CASE o.filled = q.qty
    <3>1. r.status = "NONE"
      BY <2>4, <2>10 DEF NoReservation
    <3> QED
      BY <2>2, <2>3, <2>7, <3>1 DEF HeldLots
  <2>11. CASE o.filled # q.qty
    <3>1. r.qty = q.qty - o.filled
      BY <2>4, <2>8, <2>11 DEF IsReservation
    <3>2. WholeLot(r.qty) /\ r.qty > 0
      BY <2>8, <2>9, <2>11, <3>1, LotsAdd
    <3> QED
      BY <2>2, <2>3, <2>7, <3>2 DEF HeldLots
  <2> QED
    BY <2>10, <2>11
<1> QED
  BY <1>1, <1>2 DEF IsOrder

\* An event either raises or leaves the order reduced, and the ledger settled.
Took(s, t, i, e) ==
    LET o == s.orders[i]
        r == Reduce(o, e)
    IN  /\ s.ok /\ CanReduce(o, e) /\ Applied(s, t, i, r)
        /\ Live(r) \/ Settleable(s.ledger, i, r)

LEMMA EventIs ==
    ASSUME NEW s, Good(s), NEW i \in DOMAIN s.orders, NEW e, NEW t, t = AppendEvent(s, i, e)
    PROVE  (t = Raise(s) /\ t.ok = FALSE) \/ Took(s, t, i, e)
<1>0. PICK o, r : o = s.orders[i] /\ r = Reduce(o, e)
  OBVIOUS
<1>1. PICK u : u = Raise(s)
  OBVIOUS
<1>2. u.ok = FALSE
  BY <1>1 DEF Raise, Good, SessionInv, IsSession
<1>3. ASSUME t # u
      PROVE  /\ s.ok /\ CanReduce(o, e) /\ Applied(s, t, i, r)
             /\ Live(r) \/ Settleable(s.ledger, i, r)
  <2>1. s.ok /\ CanReduce(o, e) /\ t = AppendReduced(s, i, e, r)
    BY <1>0, <1>1, <1>3 DEF AppendEvent, With
  <2>2. IsSession(s)
    BY DEF Good, SessionInv
  <2>3. Applied(s, t, i, r) /\ (Live(r) \/ Settleable(s.ledger, i, r))
    BY <1>1, <1>3, <2>1, <2>2, ReducedApplied
  <2> QED
    BY <2>1, <2>3
<1> QED
  BY <1>0, <1>1, <1>2, <1>3 DEF Took

\* What matching reads of a session: whole lots, and the positions seen.
Lots(s, C) == InLots(s) /\ SeenIn(s, C)

\* An increment in whole lots, at a position the cursors know.
LotEvent(o, e, C) ==
    /\ WholeLot(e.inc)
    /\ e.inc > 0 => Known(<<e.pos[2], e.pos[3]>>, o.sym, C[o.sym])

LEMMA LotsAs ==
    ASSUME NEW s, NEW t, NEW C, Lots(s, C), t.orders = s.orders, t.ledger = s.ledger
    PROVE  Lots(t, C)
BY DEF Lots, InLots, SeenIn

LEMMA RaiseAs ==
    ASSUME NEW s, Good(s)
    PROVE  /\ Raise(s).orders = s.orders /\ Raise(s).ledger = s.ledger /\ Raise(s).ok = FALSE
           /\ Raise(s).cursor = s.cursor
BY DEF Raise, Good, SessionInv, IsSession

LEMMA FinishAs ==
    ASSUME NEW p, NEW c, Good(c)
    PROVE  /\ Finish(p, c).orders = c.orders /\ Finish(p, c).ledger = c.ledger
           /\ Finish(p, c).ok = c.ok /\ Finish(p, c).cursor = c.cursor
<1>1. PICK d : d = [c EXCEPT !.rev = p.rev + 1]
  OBVIOUS
<1>2. Finish(p, c) \in {c, d}
  BY <1>1 DEF Finish, With
<1>3. d.orders = c.orders /\ d.ledger = c.ledger /\ d.ok = c.ok /\ d.cursor = c.cursor
  BY <1>1 DEF Good, SessionInv, IsSession
<1> QED
  BY <1>2, <1>3

LEMMA TablesAgree ==
    ASSUME NEW s, Good(s)
    PROVE  /\ IsSession(s) /\ IsLedger(s.ledger) /\ SomeSeq(s.orders) /\ SomeSeq(s.ledger.res)
           /\ DOMAIN s.ledger.res = DOMAIN s.orders /\ Len(s.ledger.res) = Len(s.orders)
           /\ \A i \in DOMAIN s.orders : IsOrder(s.orders[i]) /\ LegIsLawful(s, i) /\ HeldIsLawful(s, i)
<1>1. /\ IsSession(s) /\ IsLedger(s.ledger) /\ SomeSeq(s.orders) /\ SomeSeq(s.ledger.res)
      /\ Len(s.ledger.res) = Len(s.orders)
  BY DEF Good, SessionInv, IsSession, IsLedger
<1>2. DOMAIN s.ledger.res = DOMAIN s.orders
  BY <1>1, AppendIsSeq
<1> QED
  BY <1>1, <1>2 DEF Good, SessionInv, IsSession, CyclesAreLawful

LEMMA EventKeepsLots ==
    ASSUME NEW s, Good(s), NEW C, Lots(s, C), NEW i \in DOMAIN s.orders, NEW e,
           Timely(s.orders[i], e), LotEvent(s.orders[i], e, C), NEW t, t = AppendEvent(s, i, e)
    PROVE  Lots(t, C)
<1>1. PICK o, r : o = s.orders[i] /\ r = Reduce(o, e)
  OBVIOUS
<1>2. CASE t = Raise(s)
  BY <1>2, RaiseAs, LotsAs
<1>3. CASE CanReduce(o, e) /\ Applied(s, t, i, r) /\ (Live(r) \/ Settleable(s.ledger, i, r))
  <2>1. /\ IsLedger(s.ledger) /\ DOMAIN s.ledger.res = DOMAIN s.orders /\ IsOrder(o) /\ InLife(o)
        /\ LegIsLawful(s, i)
    BY <1>1, TablesAgree DEF IsSession
  <2>2. /\ \A k \in DOMAIN s.orders : LotsOf(s.orders[k])
        /\ \A k \in DOMAIN s.orders : HeldLots(s.ledger.res[k])
        /\ \A k \in DOMAIN s.orders :
              \A v \in s.orders[k].seen : Known(v, s.orders[k].sym, C[s.orders[k].sym])
    BY <2>1 DEF Lots, InLots, SeenIn
  <2>3. LotsOf(r)
    BY <1>1, <1>3, <2>1, <2>2, ReducedInLots DEF LotEvent
  <2>4. IsOrder(r) /\ r.leg = o.leg /\ r.parent = o.parent
    BY <1>1, <1>3, <2>1, ReducedInLife
  <2>5. IsReduced(o, e, r)
    BY <1>1, <2>1, ReducedIs
  <2>6. \A v \in r.seen : Known(v, r.sym, C[r.sym])
    BY <1>1, <2>2, <2>5 DEF LotEvent, IsReduced
  <2>7. /\ DOMAIN t.orders = DOMAIN s.orders /\ t.orders[i] = r
        /\ \A k \in DOMAIN s.orders : k # i => t.orders[k] = s.orders[k]
        /\ t.ledger = (IF Live(r) THEN s.ledger ELSE Settle(s.ledger, i, r))
    BY <1>3 DEF Applied
  <2>8. SeenIn(t, C)
    BY <2>2, <2>6, <2>7 DEF SeenIn
  <2>9. \A k \in DOMAIN t.orders : LotsOf(t.orders[k])
    BY <2>2, <2>3, <2>7
  <2>10. \A k \in DOMAIN t.ledger.res : HeldLots(t.ledger.res[k])
    <3>1. CASE Live(r)
      BY <2>1, <2>2, <2>7, <3>1
    <3>2. CASE ~Live(r)
      <4>1. PICK l, m : l = s.ledger /\ m = t.ledger
        OBVIOUS
      <4>2. Settleable(l, i, r) /\ m = Settle(l, i, r)
        BY <1>3, <2>7, <3>2, <4>1
      <4>3. r.leg = "EXIT" => r.parent \in DOMAIN l.res
        BY <1>1, <2>1, <2>4, <4>1 DEF LegIsLawful
      <4>4. i \in DOMAIN l.res /\ IsLedger(l) /\ \A k \in DOMAIN l.res : HeldLots(l.res[k])
        BY <2>1, <2>2, <4>1
      <4>5. DOMAIN m.res = DOMAIN l.res /\ \A k \in DOMAIN l.res : HeldLots(m.res[k])
        BY <2>3, <2>4, <4>2, <4>3, <4>4, SettleInLots
      <4> QED
        BY <4>1, <4>5
    <3> QED
      BY <3>1, <3>2
  <2> QED
    BY <2>8, <2>9, <2>10 DEF Lots, InLots
<1>4. t = Raise(s) \/ Took(s, t, i, e)
  BY EventIs
<1> QED
  BY <1>1, <1>2, <1>3, <1>4 DEF Took

\* An order no quote has filled yet; an entry's quantity is in whole lots.
FreshIntent(o) ==
    /\ o.filled = 0 /\ o.seen = {}
    /\ o.leg = "ENTRY" => WholeLot(o.qty) /\ o.qty > 0

\* Every order of s has in t what it had filled in s.
FillsNothing(s, t) ==
    \A k \in DOMAIN s.orders : k \in DOMAIN t.orders /\ t.orders[k].filled = s.orders[k].filled

LEMMA FillsNothingOn ==
    ASSUME NEW s, NEW t, NEW u, FillsNothing(s, t), FillsNothing(t, u) PROVE FillsNothing(s, u)
BY DEF FillsNothing

LEMMA PlainFillsNothing ==
    ASSUME NEW s, Good(s), NEW i \in DOMAIN s.orders, NEW type, NEW at,
           NEW t, t = AppendEvent(s, i, Event(type, at))
    PROVE  FillsNothing(s, t)
<1>1. PICK e : e = Event(type, at)
  OBVIOUS
<1>2. e.inc = 0
  BY <1>1 DEF Event
<1>3. CASE t = Raise(s)
  BY <1>3, RaiseAs DEF FillsNothing
<1>4. CASE Took(s, t, i, e)
  <2>1. PICK o, r : o = s.orders[i] /\ r = Reduce(o, e)
    OBVIOUS
  <2>2. IsOrder(o)
    BY <2>1, TablesAgree
  <2>3. IsReduced(o, e, r)
    BY <2>1, <2>2, ReducedIs
  <2>4. r.filled = o.filled
    BY <1>2, <2>2, <2>3 DEF IsReduced, IsOrder
  <2>5. /\ DOMAIN t.orders = DOMAIN s.orders /\ t.orders[i] = r
        /\ \A k \in DOMAIN s.orders : k # i => t.orders[k] = s.orders[k]
    BY <1>4, <2>1 DEF Took, Applied
  <2> QED
    BY <2>1, <2>4, <2>5 DEF FillsNothing
<1>5. t = Raise(s) \/ Took(s, t, i, e)
  BY <1>1, EventIs
<1> QED
  BY <1>3, <1>4, <1>5

LEMMA PlainKeepsLots ==
    ASSUME NEW s, Good(s), NEW C, Lots(s, C), NEW i \in DOMAIN s.orders,
           NEW type \in {"ACCEPTED", "CANCELLED", "EXPIRED"}, NEW at,
           NEW t, t = AppendEvent(s, i, Event(type, at))
    PROVE  Lots(t, C)
<1>1. PICK e : e = Event(type, at)
  OBVIOUS
<1>2. e.inc = 0 /\ e.price = 0 /\ e.type = type
  BY <1>1 DEF Event
<1>3. Timely(s.orders[i], e)
  BY <1>2 DEF Timely, FillTypes
<1>4. LotEvent(s.orders[i], e, C)
  BY <1>2, NoLotIsALot DEF LotEvent
<1> QED
  BY <1>1, <1>3, <1>4, EventKeepsLots

LEMMA IntentKeepsLots ==
    ASSUME NEW s, Good(s), NEW C, Lots(s, C), NEW o, IsOrder(o), FreshIntent(o),
           NEW t, t = AppendIntent(s, o)
    PROVE  Lots(t, C) /\ FillsNothing(s, t)
<1>1. CASE t = Raise(s)
  BY <1>1, RaiseAs, LotsAs DEF FillsNothing
<1>2. CASE t # Raise(s)
  <2>1. PICK n : n = Len(s.orders) + 1
    OBVIOUS
  <2>2. /\ IsSession(s) /\ IsLedger(s.ledger) /\ SomeSeq(s.orders) /\ SomeSeq(s.ledger.res)
        /\ DOMAIN s.ledger.res = DOMAIN s.orders /\ Len(s.ledger.res) = Len(s.orders)
    BY TablesAgree
  <2>3. /\ t.orders = Append(s.orders, o)
        /\ \/ /\ o.leg = "ENTRY" /\ t.ledger = ReserveEntry(s.ledger, o)
           \/ /\ o.leg = "EXIT" /\ CanReserveExit(s.ledger, o)
              /\ t.ledger = ReserveExit(s.ledger, n, o)
    BY <1>2, <2>1, <2>2, AppendIntentApplied
  <2>4. /\ n \in Nat /\ DOMAIN s.orders = 1 .. n - 1 /\ DOMAIN t.orders = 1 .. n /\ t.orders[n] = o
        /\ \A k \in DOMAIN s.orders : t.orders[k] = s.orders[k]
    BY <2>1, <2>2, <2>3, AppendIsSeq
  <2>5. FillsNothing(s, t)
    BY <2>4 DEF FillsNothing
  <2>6. /\ \A k \in DOMAIN s.orders : LotsOf(s.orders[k])
        /\ \A k \in DOMAIN s.orders : HeldLots(s.ledger.res[k])
        /\ \A k \in DOMAIN s.orders :
              \A v \in s.orders[k].seen : Known(v, s.orders[k].sym, C[s.orders[k].sym])
    BY <2>2 DEF Lots, InLots, SeenIn
  <2>7. o.seen = {} /\ o.filled = 0
    BY DEF FreshIntent
  <2>8. SeenIn(t, C)
    <3> SUFFICES ASSUME NEW k \in 1 .. n, NEW v \in t.orders[k].seen
                 PROVE  Known(v, t.orders[k].sym, C[t.orders[k].sym])
      BY <2>4 DEF SeenIn
    <3>1. k # n
      BY <2>4, <2>7
    <3>2. k \in DOMAIN s.orders
      BY <2>4, <3>1
    <3> QED
      BY <2>4, <2>6, <3>2
  <2>9. ASSUME NEW m, m = t.ledger,
               WholeLot(o.qty), o.qty > 0, DOMAIN m.res = 1 .. n,
               \A k \in DOMAIN s.orders : HeldLots(m.res[k]), HeldLots(m.res[n])
        PROVE  InLots(t)
    <3>1. LotsOf(o)
      BY <2>7, <2>9, NoLotIsALot DEF LotsOf
    <3>2. \A k \in DOMAIN t.orders : LotsOf(t.orders[k])
      BY <2>4, <2>6, <3>1
    <3>3. \A k \in DOMAIN m.res : HeldLots(m.res[k])
      BY <2>4, <2>9
    <3> QED
      BY <2>9, <3>2, <3>3 DEF InLots
  <2>10. PICK l, m : l = s.ledger /\ m = t.ledger
    OBVIOUS
  <2>11. CASE o.leg = "ENTRY"
    <3>1. WholeLot(o.qty) /\ o.qty > 0
      BY <2>11 DEF FreshIntent
    <3>2. m = [l EXCEPT !.rev = @ + 1, !.cash = @ - o.cash, !.pos[o.sym] = @ - o.qty,
                        !.cycles = @ + 1,
                        !.res = Append(@, [NoReservation EXCEPT !.status = "ENTRY_PENDING",
                                                                !.cash = o.cash, !.qty = o.qty])]
      BY <2>3, <2>10, <2>11 DEF ReserveEntry
    <3>3. PICK r : r = [NoReservation EXCEPT !.status = "ENTRY_PENDING", !.cash = o.cash, !.qty = o.qty]
      OBVIOUS
    <3>4. m.res = Append(l.res, r)
      BY <2>2, <2>10, <3>2, <3>3 DEF IsLedger
    <3>5. r.status = "ENTRY_PENDING"
      BY <3>3 DEF NoReservation
    <3>6. /\ DOMAIN m.res = 1 .. n /\ m.res[n] = r
          /\ \A k \in DOMAIN s.orders : m.res[k] = s.ledger.res[k]
      BY <2>1, <2>2, <2>10, <3>4, AppendIsSeq
    <3>7. HeldLots(m.res[n])
      BY <3>5, <3>6 DEF HeldLots
    <3> QED
      BY <2>6, <2>8, <2>9, <2>10, <2>5, <3>1, <3>6, <3>7 DEF Lots
  <2>12. CASE o.leg = "EXIT"
    <3>1. PICK p, q, r : /\ p = o.parent /\ q = l.res[p]
                         /\ r = [q EXCEPT !.status = "EXIT_PENDING", !.exit = n]
      OBVIOUS
    <3>2. m = ReserveExit(l, n, o) /\ CanReserveExit(l, o)
      BY <2>3, <2>10, <2>12
    <3>3. p \in DOMAIN s.orders /\ q.status = "OPEN" /\ q.qty = o.qty
      BY <2>2, <2>10, <3>1, <3>2 DEF CanReserveExit
    <3>4. WholeLot(o.qty) /\ o.qty > 0
      BY <2>6, <2>10, <3>1, <3>3 DEF HeldLots
    <3>5. /\ Len(m.res) = Len(l.res) + 1 /\ SomeSeq(m.res)
          /\ \A k \in DOMAIN l.res : k # o.parent => m.res[k] = l.res[k]
          /\ m.res[o.parent].qty = l.res[o.parent].qty
          /\ m.res[Len(l.res) + 1].status = "NONE"
      BY <2>2, <2>10, <3>2, ReserveExitKeeps
    <3>6. DOMAIN m.res = 1 .. n
      BY <2>1, <2>2, <2>10, <3>5, AppendIsSeq
    <3>7. HeldLots(m.res[n])
      BY <2>1, <2>2, <2>10, <3>5 DEF HeldLots
    <3>8. \A k \in DOMAIN s.orders : HeldLots(m.res[k])
      <4> SUFFICES ASSUME NEW k \in DOMAIN s.orders PROVE HeldLots(m.res[k])
        OBVIOUS
      <4>1. CASE k = p
        BY <2>10, <3>1, <3>3, <3>4, <3>5, <4>1 DEF HeldLots
      <4>2. CASE k # p
        BY <2>2, <2>6, <2>10, <3>1, <3>5, <4>2
      <4> QED
        BY <4>1, <4>2
    <3> QED
      BY <2>8, <2>9, <2>10, <2>5, <3>4, <3>6, <3>7, <3>8 DEF Lots
  <2> QED
    BY <2>3, <2>11, <2>12
<1> QED
  BY <1>1, <1>2

LEMMA AcceptedKeepsLots ==
    ASSUME NEW s, Good(s), NEW C, Lots(s, C), NEW o, Planned(s, o), FreshIntent(o),
           NEW u, u = Accepted(s, o)
    PROVE  Lots(u, C) /\ FillsNothing(s, u)
<1>1. PICK t, n : t = AppendIntent(s, o) /\ n = Len(s.orders) + 1
  OBVIOUS
<1>2. u = AppendEvent(t, n, Event("ACCEPTED", o.created))
  BY <1>1 DEF Accepted, With
<1>3. IsOrder(o)
  BY DEF Planned
<1>4. Lots(t, C) /\ FillsNothing(s, t)
  BY <1>1, <1>3, IntentKeepsLots
<1>5. Good(t) /\ (t = Raise(s) \/ (n \in DOMAIN t.orders /\ t.orders[n] = o))
  BY <1>1, AppendIntentIsGood
<1>6. CASE t = Raise(s)
  <2>1. t.ok = FALSE
    BY <1>6, RaiseAs
  <2>2. u = Raise(t)
    BY <1>2, <2>1 DEF AppendEvent
  <2>3. u.orders = t.orders /\ u.ledger = t.ledger
    BY <1>5, <2>2, RaiseAs
  <2>4. FillsNothing(s, u)
    BY <1>4, <2>3 DEF FillsNothing
  <2> QED
    BY <1>4, <2>3, <2>4, LotsAs
<1>7. CASE n \in DOMAIN t.orders
  BY <1>2, <1>4, <1>5, <1>7, PlainFillsNothing, PlainKeepsLots, FillsNothingOn
<1> QED
  BY <1>5, <1>6, <1>7

\* A command that fills nothing, of the sessions it may return.
Quiet(s, t, C) == Lots(t, C) /\ FillsNothing(s, t)

LEMMA QuietFinish ==
    ASSUME NEW s, NEW u, Good(u), NEW C, Lots(u, C), FillsNothing(s, u), NEW t, t = Finish(s, u)
    PROVE  Quiet(s, t, C)
<1>1. t.orders = u.orders /\ t.ledger = u.ledger
  BY FinishAs
<1> QED
  BY <1>1, LotsAs DEF Quiet, FillsNothing

LEMMA QuietRaise ==
    ASSUME NEW s, Good(s), NEW C, Lots(s, C), NEW t, t \in {s, Raise(s)} PROVE Quiet(s, t, C)
<1>1. t.orders = s.orders /\ t.ledger = s.ledger
  BY RaiseAs
<1> QED
  BY <1>1, LotsAs DEF Quiet, FillsNothing

LEMMA NewOrderAs ==
    ASSUME NEW leg, NEW arb, NEW parent, NEW sym, NEW qty, NEW limit, NEW cash, NEW created,
           NEW expires, NEW o, o = NewOrder(leg, arb, parent, sym, qty, limit, cash, created, expires)
    PROVE  o.leg = leg /\ o.qty = qty /\ o.filled = 0 /\ o.seen = {}
BY DEF NewOrder

LEMMA OrderQuantityIs == WholeLot(OrderQuantity) /\ OrderQuantity > 0
<1>1. PICK l \in Nat \ {0}, n \in Nat \ {0} : l = LotSize /\ n = OrderQuantity /\ n % l = 0
  BY PaperSessionAssumption
<1>2. PICK d \in Int : d = n \div l
  BY <1>1, RestIsLess
<1>3. n = d * l
  BY <1>1, <1>2
<1>4. OrderQuantity = d * LotSize
  BY <1>1, <1>3
<1>5. WholeLot(OrderQuantity)
  BY <1>4 DEF WholeLot
<1> QED
  BY <1>1, <1>5

LEMMA SubmitEntryIsQuiet ==
    ASSUME NEW s, Good(s), NEW C, Lots(s, C), NEW a \in Arbs, NEW q \in Quotes,
           NEW t, t = SubmitEntry(s, a, q, s.ledger)
    PROVE  Quiet(s, t, C)
<1>1. PICK o : o = EntryIntent(a, q)
  OBVIOUS
<1>2. \/ t \in {s, Raise(s)}
      \/ EntryPlanned(s.ledger, a, q) /\ t = Finish(s, Accepted(s, o))
  BY <1>1 DEF SubmitEntry
<1>3. CASE EntryPlanned(s.ledger, a, q) /\ t = Finish(s, Accepted(s, o))
  <2>1. Planned(s, o)
    BY <1>1, <1>3, EntryIsPlanned
  <2>2. o.leg = "ENTRY" /\ o.qty = OrderQuantity /\ o.filled = 0 /\ o.seen = {}
    BY <1>1, NewOrderAs DEF EntryIntent
  <2>3. FreshIntent(o)
    BY <2>2, OrderQuantityIs DEF FreshIntent
  <2>4. PICK u : u = Accepted(s, o)
    OBVIOUS
  <2>5. Lots(u, C) /\ FillsNothing(s, u) /\ Good(u)
    BY <2>1, <2>3, <2>4, AcceptedKeepsLots, AcceptedIsGood
  <2> QED
    BY <1>3, <2>4, <2>5, QuietFinish
<1> QED
  BY <1>2, <1>3, QuietRaise

LEMMA SubmitExitIsQuiet ==
    ASSUME NEW s, Good(s), NEW C, Lots(s, C), NEW i, NEW q \in Quotes,
           NEW t, t = SubmitExit(s, i, q)
    PROVE  Quiet(s, t, C)
<1>1. PICK o : o = ExitIntent(s, i, q)
  OBVIOUS
<1>2. \/ t \in {s, Raise(s)}
      \/ /\ i \in DOMAIN s.orders /\ ExitPlanned(s, i, q)
         /\ t = Finish(s, Accepted(s, o))
  BY <1>1 DEF SubmitExit
<1>3. CASE i \in DOMAIN s.orders /\ ExitPlanned(s, i, q) /\ t = Finish(s, Accepted(s, o))
  <2>1. Planned(s, o)
    BY <1>1, <1>3, ExitIsPlanned
  <2>2. o.leg = "EXIT" /\ o.filled = 0 /\ o.seen = {}
    BY <1>1, NewOrderAs DEF ExitIntent
  <2>3. FreshIntent(o)
    BY <2>2 DEF FreshIntent
  <2>4. PICK u : u = Accepted(s, o)
    OBVIOUS
  <2>5. Lots(u, C) /\ FillsNothing(s, u) /\ Good(u)
    BY <2>1, <2>3, <2>4, AcceptedKeepsLots, AcceptedIsGood
  <2> QED
    BY <1>3, <2>4, <2>5, QuietFinish
<1> QED
  BY <1>2, <1>3, QuietRaise

LEMMA CancelOrderIsQuiet ==
    ASSUME NEW s, Good(s), NEW C, Lots(s, C), NEW i, NEW at, NEW t, t = CancelOrder(s, i, at)
    PROVE  Quiet(s, t, C)
<1>1. PICK u : u = AppendEvent(s, i, Event("CANCELLED", at))
  OBVIOUS
<1>2. t \in {s, Raise(s)} \/ (i \in DOMAIN s.orders /\ t = Finish(s, u))
  BY <1>1 DEF CancelOrder
<1>3. CASE i \in DOMAIN s.orders /\ t = Finish(s, u)
  <2>1. Good(u)
    BY <1>1, <1>3, PlainIsTimely, AppendEventIsGood
  <2>2. Lots(u, C) /\ FillsNothing(s, u)
    BY <1>1, <1>3, PlainFillsNothing, PlainKeepsLots
  <2> QED
    BY <1>3, <2>1, <2>2, QuietFinish
<1> QED
  BY <1>2, <1>3, QuietRaise

LEMMA AdvanceClockIsQuiet ==
    ASSUME NEW s, Good(s), NEW C, Lots(s, C), NEW at, NEW t, t = AdvanceClock(s, at)
    PROVE  Quiet(s, t, C)
<1>1. SomeSeq(s.orders)
  BY TablesAgree
<1>2. PICK n \in Nat : n = Len(s.orders) /\ DOMAIN s.orders = 1 .. n
  BY <1>1, AppendIsSeq
<1>3. PICK f, x : ClockTurns(f, x, s, at, n)
  BY <1>2, ClockRuns
<1>a. Runs(f, x, s, n) /\ t = Finish(s, f[n]) /\ \A r, k : Turn(x, r, k) = Expire(r, k, at)
  BY <1>3 DEF ClockTurns
<1>4. PICK B : B = {k \in 0 .. n : /\ Good(f[k]) /\ DOMAIN f[k].orders = DOMAIN s.orders
                                   /\ f[k].cursor = s.cursor
                                   /\ Lots(f[k], C) /\ FillsNothing(s, f[k])}
  OBVIOUS
<1>5. 0 \in B
  BY <1>a, <1>4, RunsKeep DEF FillsNothing
<1>6. ASSUME NEW k \in 1 .. n, k - 1 \in B PROVE k \in B
  <2>1. PICK j, r, u : j = k - 1 /\ r = f[j] /\ u = f[k]
    OBVIOUS
  <2>2. /\ Good(r) /\ DOMAIN r.orders = DOMAIN s.orders /\ r.cursor = s.cursor
        /\ Lots(r, C) /\ FillsNothing(s, r) /\ k \in DOMAIN s.orders
    BY <1>2, <1>4, <1>6, <2>1
  <2>3. u = Expire(r, k, at)
    BY <1>a, <2>1, RunsKeep
  <2>4. Good(u) /\ DOMAIN u.orders = DOMAIN s.orders /\ u.cursor = s.cursor
    BY <2>2, <2>3, ExpireIsGood
  <2>5. u = r \/ u = AppendEvent(r, k, Event("EXPIRED", at))
    BY <2>3 DEF Expire
  <2>6. Lots(u, C) /\ FillsNothing(s, u)
    BY <2>2, <2>5, PlainFillsNothing, PlainKeepsLots, FillsNothingOn
  <2>7. k \in 0 .. n
    OBVIOUS
  <2> QED
    BY <1>4, <2>1, <2>4, <2>6, <2>7
<1>7. n \in B
  BY <1>5, <1>6, UpTo
<1> QED
  BY <1>a, <1>4, <1>7, QuietFinish

(***************************************************************************)
(* The queue lists every eligible intent once, those ahead of it first.    *)
(***************************************************************************)
InOrder(Q, s, q) ==
    /\ \A i \in Eligible(s, q) : \E k \in 1 .. Len(Q) : Q[k] = i
    /\ \A a, b \in 1 .. Len(Q) : Q[a] = Q[b] => a = b
    /\ \A a, b \in 1 .. Len(Q) : Precedes(s, Q[a], Q[b]) => a < b

LEMMA QueueInOrder ==
    ASSUME NEW s, NEW q, IsSession(s), NEW Q, Q = Queue(s, q) PROVE InOrder(Q, s, q)
<1>1. PICK S, R : S = Eligible(s, q) /\ R = Ahead(s, S)
  OBVIOUS
<1>2. Ranks(Q, S, R)
  BY <1>1, QueueRanks
<1>3. PICK n \in Nat : n = Len(Q) /\ n = Cardinality(S)
  BY <1>2 DEF Ranks
<1>4. /\ IsFiniteSet(S) /\ Strict(R, S)
      /\ \A k \in 1 .. n : Q[k] \in S /\ Cardinality(Under(R, S, Q[k])) = k - 1
  BY <1>2, <1>3 DEF Ranks
<1>5. /\ \A i \in S : Cardinality(Under(R, S, i)) \in 0 .. n - 1
      /\ \A i, j \in S : <<i, j>> \in R => Cardinality(Under(R, S, i)) < Cardinality(Under(R, S, j))
  BY <1>3, <1>4, RanksGrow
<1>6. ASSUME NEW i \in S PROVE \E k \in 1 .. n : Q[k] = i
  <2>1. PICK k \in Int : k = Cardinality(Under(R, S, i)) + 1
    BY <1>5
  <2>2. k \in 1 .. n
    BY <1>5, <2>1
  <2>3. PICK j : j = Q[k]
    OBVIOUS
  <2>4. j \in S /\ Cardinality(Under(R, S, j)) = k - 1
    BY <1>4, <2>2, <2>3
  <2>5. Cardinality(Under(R, S, i)) = k - 1
    BY <1>5, <2>1
  <2>6. ~(<<i, j>> \in R) /\ ~(<<j, i>> \in R)
    BY <1>5, <2>2, <2>4, <2>5
  <2>7. i = j
    BY <1>4, <2>4, <2>6 DEF Strict
  <2> QED
    BY <2>2, <2>3, <2>7
<1>7. ASSUME NEW a \in 1 .. n, NEW b \in 1 .. n, Q[a] = Q[b] PROVE a = b
  <2>1. a - 1 = b - 1
    BY <1>4, <1>7
  <2> QED
    BY <2>1
<1>8. ASSUME NEW a \in 1 .. n, NEW b \in 1 .. n, Precedes(s, Q[a], Q[b]) PROVE a < b
  <2>1. PICK i, j : i = Q[a] /\ j = Q[b]
    OBVIOUS
  <2>2. /\ i \in S /\ Cardinality(Under(R, S, i)) = a - 1
        /\ j \in S /\ Cardinality(Under(R, S, j)) = b - 1
    BY <1>4, <2>1
  <2>3. <<i, j>> \in R
    BY <1>1, <1>8, <2>1, <2>2 DEF Ahead
  <2>4. a - 1 < b - 1
    BY <1>5, <2>2, <2>3
  <2> QED
    BY <2>4
<1> QED
  BY <1>1, <1>3, <1>6, <1>7, <1>8 DEF InOrder

(***************************************************************************)
(* One turn of process_quote.                                              *)
(***************************************************************************)
Price(o, q) == IF o.leg = "ENTRY" THEN q.ask ELSE q.bid

\* The quote may fill the order: it is later, acceptable, and not yet seen.
Reaches(o, q) ==
    q.received > o.created /\ LimitRespected(o, Price(o, q)) /\ <<q.sess, q.seq>> \notin o.seen

LEMMA FillableIs ==
    ASSUME NEW o, NEW q, NEW b, NEW w, w = (IF o.qty - o.filled < b THEN o.qty - o.filled ELSE b)
    PROVE  Fillable(o, q, b) = IF Reaches(o, q) /\ Fresh(q) THEN (w \div LotSize) * LotSize ELSE 0
BY DEF Fillable, Reaches, Price

LEMMA FillableInLots ==
    ASSUME NEW o, NEW q, NEW b \in Int, IsOrder(o) PROVE WholeLot(Fillable(o, q, b))
<1>1. PICK w : w = (IF o.qty - o.filled < b THEN o.qty - o.filled ELSE b)
  OBVIOUS
<1>2. w \in Int
  BY <1>1 DEF IsOrder
<1>3. WholeLot((w \div LotSize) * LotSize) /\ WholeLot(0)
  BY <1>2, LotsOfRest, NoLotIsALot
<1> QED
  BY <1>1, <1>3, FillableIs

\* From less than a lot nothing is filled.
LEMMA NothingToFill ==
    ASSUME NEW o, NEW q, NEW b \in Nat, IsOrder(o), LotsOf(o), Live(o), b < LotSize \/ ~Fresh(q)
    PROVE  Fillable(o, q, b) = 0
<1>1. PICK w : w = (IF o.qty - o.filled < b THEN o.qty - o.filled ELSE b)
  OBVIOUS
<1>2. o.qty \in Int /\ o.filled \in Int /\ o.filled < o.qty /\ LotSize \in Nat \ {0}
  BY LotSizeIs DEF IsOrder, LotsOf
<1>3. CASE b < LotSize
  <2>1. w \in Nat /\ w < LotSize
    BY <1>1, <1>2, <1>3
  <2>2. PICK m : m = (w \div LotSize) * LotSize
    OBVIOUS
  <2>3. WholeLot(m) /\ m <= w /\ w < m + LotSize
    BY <2>1, <2>2, LotsOfRest
  <2>4. m \in Int
    BY <2>1, <2>2, <1>2, RestIsLess
  <2>5. m >= 0
    <3>1. ~(m < 0) \/ m + LotSize <= 0
      BY <2>3, LotsApart, NoLotIsALot
    <3> QED
      BY <1>2, <2>1, <2>3, <2>4, <3>1
  <2>6. ~(0 < m)
    <3>1. 0 < m => 0 + LotSize <= m
      BY <2>3, LotsApart, NoLotIsALot
    <3> QED
      BY <1>2, <2>1, <2>3, <2>4, <3>1
  <2>7. m = 0
    BY <2>4, <2>5, <2>6
  <2> QED
    BY <1>1, <2>2, <2>7, FillableIs
<1>4. CASE ~Fresh(q)
  BY <1>4, FillableIs
<1> QED
  BY <1>3, <1>4

\* A fill that does not complete an order the quote may fill leaves less than
\* a lot of the budget.
LEMMA FillLeavesLess ==
    ASSUME NEW o, NEW q, NEW b \in Int, IsOrder(o), LotsOf(o), Reaches(o, q), Fresh(q),
           NEW n, n = Fillable(o, q, b), o.filled + n # o.qty
    PROVE  n \in Int /\ b - n < LotSize
<1>1. PICK d, w : d = o.qty - o.filled /\ w = (IF d < b THEN d ELSE b)
  OBVIOUS
<1>2. d \in Int /\ WholeLot(d) /\ w \in Int /\ LotSize \in Nat \ {0} /\ o.filled \in Int /\ o.qty \in Int
  BY <1>1, LotsAdd, LotSizeIs DEF IsOrder, LotsOf
<1>3. n = (w \div LotSize) * LotSize
  BY <1>1, FillableIs
<1>4. n \in Int
  BY <1>2, <1>3, RestIsLess
<1>5. n <= w /\ w < n + LotSize /\ (WholeLot(w) => n = w)
  BY <1>2, <1>3, LotsOfRest
<1>6. w # d
  BY <1>1, <1>2, <1>5
<1>7. w = b
  BY <1>1, <1>6
<1> QED
  BY <1>2, <1>4, <1>5, <1>7

\* What a turn for order i does, if it does not raise: it leaves the other
\* orders and adds to no budget; what remains live, of what the quote may
\* fill, leaves less than a lot; and from less than a lot it fills nothing.
Scarce(r, leg, q) == r.budget[leg] < LotSize \/ ~Fresh(q)

TurnOf(r, t, i, q) ==
    LET o == r.s.orders[i] IN
    /\ r.s.ok
    /\ \A k \in DOMAIN r.s.orders : k # i => t.s.orders[k] = r.s.orders[k]
    /\ \A leg \in Legs : t.budget[leg] <= r.budget[leg]
    /\ Live(t.s.orders[i]) /\ Reaches(o, q) => Scarce(t, o.leg, q)
    /\ Scarce(r, o.leg, q) => t.s.orders[i].filled = o.filled

Raised(r, t) == t = [r EXCEPT !.s = Raise(r.s)]

Stopped(r, t, i, q) ==
    \E type \in {"EXPIRED", "CANCELLED"} :
       t = [r EXCEPT !.s = AppendEvent(r.s, i, Event(type, q.observed))]

Matched(r, t, i, q, o, b, n) ==
    t = [[r EXCEPT !.s = AppendEvent(r.s, i, Fill(o, q, n, b))]
           EXCEPT !.budget = [r.budget EXCEPT ![o.leg] = b - n]]

LEMMA MatchCases ==
    ASSUME NEW s, NEW r, Pair(s, r), NEW i, NEW q, NEW o, o = r.s.orders[i],
           NEW b, b = r.budget[o.leg], NEW n, n = Fillable(o, q, b), NEW t, t = MatchQuote(r, i, q)
    PROVE  \/ t = r /\ (~Live(o) \/ n = 0)
           \/ Raised(r, t) \/ Stopped(r, t, i, q)
           \/ Live(o) /\ n # 0 /\ ~(q.observed >= o.expires) /\ Matched(r, t, i, q, o, b, n)
<1>1. \/ ~Live(o) /\ t = r
      \/ t = [r EXCEPT !.s = Raise(r.s)]
      \/ t = [r EXCEPT !.s = AppendEvent(r.s, i, Event("EXPIRED", q.observed))]
      \/ t = [r EXCEPT !.s = AppendEvent(r.s, i, Event("CANCELLED", q.observed))]
      \/ n = 0 /\ t = r
      \/ /\ Live(o) /\ n # 0 /\ ~(q.observed >= o.expires)
         /\ t = [[r EXCEPT !.s = AppendEvent(r.s, i, Fill(o, q, n, b))]
                   EXCEPT !.budget = [r.budget EXCEPT ![o.leg] = b - n]]
  BY DEF MatchQuote, Pair
<1> QED
  BY <1>1 DEF Raised, Stopped, Matched

LEMMA MatchTurns ==
    ASSUME NEW s, NEW r, Pair(s, r), NEW i \in DOMAIN s.orders, NEW q \in Quotes,
           LotsOf(r.s.orders[i]), \A leg \in Legs : r.s.ok => r.budget[leg] >= 0,
           NEW t, t = MatchQuote(r, i, q), t.s.ok
    PROVE  TurnOf(r, t, i, q)
<1>1. PICK o, b, n : o = r.s.orders[i] /\ b = r.budget[o.leg] /\ n = Fillable(o, q, b)
  OBVIOUS
<1>2. Good(r.s) /\ i \in DOMAIN r.s.orders /\ r.budget \in [Legs -> Int] /\ {"s", "budget"} \subseteq DOMAIN r
  BY SMTT(40) DEF Pair
<1>3. IsOrder(o) /\ o.leg \in Legs /\ b \in Int /\ LotsOf(o)
  BY <1>1, <1>2, TablesAgree, SMTT(40) DEF IsOrder, Legs
<1>4. CASE Raised(r, t)
  <2>1. t.s = Raise(r.s)
    BY <1>2, <1>4 DEF Raised
  <2> QED
    BY <1>2, <2>1, RaiseAs
<1>5. ASSUME t = r, ~Live(o) \/ n = 0 PROVE TurnOf(r, t, i, q)
  <2>1. r.s.ok /\ b \in Nat
    BY <1>1, <1>3, <1>5
  <2>2. \A leg \in Legs : t.budget[leg] <= r.budget[leg]
    BY <1>2, <1>5
  <2>3. Live(o) /\ Reaches(o, q) => Scarce(t, o.leg, q)
    <3> SUFFICES ASSUME Live(o), Reaches(o, q), Fresh(q) PROVE b < LotSize
      BY <1>1, <1>5 DEF Scarce
    <3>1. n = 0 /\ o.filled + n # o.qty
      BY <1>3, <1>5 DEF LotsOf, IsOrder
    <3>2. b - n < LotSize
      BY <1>1, <1>3, <3>1, FillLeavesLess
    <3> QED
      BY <1>3, <3>1, <3>2
  <2> QED
    BY <1>1, <1>5, <2>1, <2>2, <2>3 DEF TurnOf
<1>6. CASE Stopped(r, t, i, q)
  <2>1. PICK type \in {"EXPIRED", "CANCELLED"} :
              t = [r EXCEPT !.s = AppendEvent(r.s, i, Event(type, q.observed))]
    BY <1>6 DEF Stopped
  <2>2. PICK e, u : e = Event(type, q.observed) /\ u = AppendEvent(r.s, i, e)
    OBVIOUS
  <2>3. t.s = u /\ t.budget = r.budget
    BY <1>2, <2>1, <2>2
  <2>4. e.type = type /\ e.inc = 0
    BY <2>2 DEF Event
  <2>5. Took(r.s, u, i, e)
    BY <1>2, <2>2, <2>3, EventIs
  <2>6. PICK p : p = Reduce(o, e)
    OBVIOUS
  <2>7. /\ r.s.ok /\ u.orders[i] = p /\ \A k \in DOMAIN r.s.orders : k # i => u.orders[k] = r.s.orders[k]
    BY <1>1, <2>5, <2>6 DEF Took, Applied
  <2>8. IsReduced(o, e, p)
    BY <1>3, <2>6, ReducedIs
  <2>9. p.filled = o.filled /\ ~Live(p)
    BY <1>3, <2>4, <2>8 DEF IsReduced, IsOrder, Live, Terminal
  <2>10. \A leg \in Legs : t.budget[leg] <= r.budget[leg]
    BY <1>2, <2>3
  <2> QED
    BY <1>1, <2>3, <2>7, <2>9, <2>10 DEF TurnOf
<1>7. CASE Live(o) /\ n # 0 /\ Matched(r, t, i, q, o, b, n)
  <2>1. PICK e, u, left, v : /\ e = Fill(o, q, n, b) /\ u = AppendEvent(r.s, i, e)
                             /\ left = [r.budget EXCEPT ![o.leg] = b - n]
                             /\ v = [r EXCEPT !.s = u]
    OBVIOUS
  <2>2. DOMAIN v = DOMAIN r /\ v.s = u
    BY <1>2, <2>1
  <2>3. t = [v EXCEPT !.budget = left]
    BY <1>7, <2>1 DEF Matched
  <2>4. t.s = u /\ t.budget = left
    BY <1>2, <2>2, <2>3
  <2>5. Took(r.s, u, i, e)
    BY <1>2, <2>1, <2>4, EventIs
  <2>6. PICK p : p = Reduce(o, e)
    OBVIOUS
  <2>7. /\ r.s.ok /\ u.orders[i] = p /\ CanReduce(o, e)
        /\ \A k \in DOMAIN r.s.orders : k # i => u.orders[k] = r.s.orders[k]
    BY <1>1, <2>5, <2>6 DEF Took, Applied
  <2>8. IsReduced(o, e, p)
    BY <1>3, <2>6, ReducedIs
  <2>9. /\ e.inc = n /\ e.type = IF o.filled + n = o.qty THEN "FILLED" ELSE "PARTIALLY_FILLED"
    BY <2>1 DEF Fill
  <2>10. b \in Nat
    BY <1>1, <1>3, <2>7
  <2>11. ~Scarce(r, o.leg, q)
    <3>1. ~(b < LotSize \/ ~Fresh(q))
      BY <1>1, <1>3, <1>7, <2>10, NothingToFill
    <3> QED
      BY <1>1, <3>1 DEF Scarce
  <2>12. n \in Int /\ n > 0
    <3>1. n \in Int
      BY <1>1, <1>3, <1>7, FillWithinBudget
    <3>2. e.type \in FillTypes
      BY <2>9 DEF FillTypes
    <3> QED
      BY <2>7, <2>9, <3>1, <3>2 DEF CanReduce
  <2>13. left[o.leg] = b - n /\ \A leg \in Legs : leg # o.leg => left[leg] = r.budget[leg]
    BY <1>2, <1>3, <2>1
  <2>14. \A leg \in Legs : left[leg] <= r.budget[leg]
    <3> SUFFICES ASSUME NEW leg \in Legs PROVE left[leg] <= r.budget[leg]
      OBVIOUS
    <3>1. CASE leg = o.leg
      <4>1. left[leg] = b - n /\ r.budget[leg] = b
        BY <1>1, <2>13, <3>1
      <4>2. b \in Int
        BY <1>3
      <4> QED
        BY <2>12, <4>1, <4>2
    <3>2. CASE leg # o.leg
      <4>1. left[leg] = r.budget[leg]
        BY <2>13, <3>2
      <4>2. r.budget[leg] \in Int
        BY <1>2
      <4> QED
        BY <4>1, <4>2
    <3> QED
      BY <3>1, <3>2
  <2>15. Live(p) /\ Reaches(o, q) => Scarce(t, o.leg, q)
    <3> SUFFICES ASSUME Live(p), Reaches(o, q), Fresh(q) PROVE b - n < LotSize
      BY <2>4, <2>13 DEF Scarce
    <3>1. o.filled + n # o.qty
      BY <2>8, <2>9 DEF IsReduced, Live, Terminal
    <3> QED
      BY <1>1, <1>3, <3>1, FillLeavesLess
  <2> QED
    BY <1>1, <2>4, <2>7, <2>11, <2>14, <2>15 DEF TurnOf
<1>8. \/ t = r /\ (~Live(o) \/ n = 0)
      \/ Raised(r, t) \/ Stopped(r, t, i, q)
      \/ Live(o) /\ n # 0 /\ Matched(r, t, i, q, o, b, n)
  BY <1>1, MatchCases
<1> QED
  BY <1>4, <1>5, <1>6, <1>7, <1>8

LEMMA QuoteIsKnown == ASSUME NEW q \in Quotes PROVE Known(<<q.sess, q.seq>>, q.sym, q)
<1>1. q \in [sym : Symbols, observed : Nat, received : Nat, sess : Nat, seq : Nat,
             ask : Nat, askQty : Nat, bid : Nat, bidQty : Nat, tradable : BOOLEAN]
  BY PaperSessionAssumption
<1>2. q # NoQuote
  <2>1. "seq" \in DOMAIN q
    BY <1>1
  <2>2. "seq" \notin DOMAIN NoQuote
    BY DEF NoQuote
  <2> QED
    BY <2>1, <2>2
<1>3. NotAfter(q, q)
  BY <1>1 DEF NotAfter
<1> QED
  BY <1>2, <1>3 DEF Known

LEMMA MatchKeepsLots ==
    ASSUME NEW s, NEW r, Pair(s, r), NEW i \in DOMAIN s.orders, NEW q \in Quotes,
           NEW C, Lots(r.s, C), r.s.orders[i].sym = q.sym, C[q.sym] = q,
           NEW t, t = MatchQuote(r, i, q)
    PROVE  Lots(t.s, C)
<1>1. PICK o, b, n : o = r.s.orders[i] /\ b = r.budget[o.leg] /\ n = Fillable(o, q, b)
  OBVIOUS
<1>2. Good(r.s) /\ i \in DOMAIN r.s.orders /\ r.budget \in [Legs -> Int] /\ {"s", "budget"} \subseteq DOMAIN r
  BY SMTT(40) DEF Pair
<1>3. IsOrder(o) /\ o.leg \in Legs /\ b \in Int
  BY <1>1, <1>2, TablesAgree, SMTT(40) DEF IsOrder, Legs
<1>4. CASE t = r
  BY <1>4
<1>5. CASE Raised(r, t)
  <2>1. t.s = Raise(r.s)
    BY <1>2, <1>5 DEF Raised
  <2> QED
    BY <1>2, <2>1, RaiseAs, LotsAs
<1>6. CASE Stopped(r, t, i, q)
  <2>1. PICK type \in {"EXPIRED", "CANCELLED"} :
              t = [r EXCEPT !.s = AppendEvent(r.s, i, Event(type, q.observed))]
    BY <1>6 DEF Stopped
  <2>2. t.s = AppendEvent(r.s, i, Event(type, q.observed))
    BY <1>2, <2>1
  <2> QED
    BY <1>2, <2>2, PlainKeepsLots
<1>7. CASE n # 0 /\ ~(q.observed >= o.expires) /\ Matched(r, t, i, q, o, b, n)
  <2>1. PICK e, u, left, v : /\ e = Fill(o, q, n, b) /\ u = AppendEvent(r.s, i, e)
                             /\ left = [r.budget EXCEPT ![o.leg] = b - n]
                             /\ v = [r EXCEPT !.s = u]
    OBVIOUS
  <2>2. DOMAIN v = DOMAIN r /\ v.s = u
    BY <1>2, <2>1
  <2>3. t = [v EXCEPT !.budget = left]
    BY <1>7, <2>1 DEF Matched
  <2>4. t.s = u
    BY <1>2, <2>2, <2>3
  <2>5. q.observed < o.expires
    BY <1>3, <1>7, QuoteIs DEF IsOrder
  <2>6. Timely(o, e)
    BY <1>1, <1>3, <1>7, <2>1, <2>5, FillIsTimely, ZenonT(60)
  <2>7. e.inc = n /\ e.pos = <<q.received, q.sess, q.seq>>
    BY <2>1 DEF Fill
  <2>8. WholeLot(n)
    BY <1>1, <1>3, FillableInLots
  <2>9. LotEvent(o, e, C)
    <3>1. Known(<<q.sess, q.seq>>, q.sym, q)
      BY QuoteIsKnown
    <3>2. o.sym = q.sym /\ C[o.sym] = q
      BY <1>1
    <3>3. e.pos[2] = q.sess /\ e.pos[3] = q.seq
      BY ONLY <2>7
    <3>4. Known(<<e.pos[2], e.pos[3]>>, o.sym, C[o.sym])
      BY ONLY <3>1, <3>2, <3>3
    <3>5. WholeLot(e.inc)
      BY ONLY <2>7, <2>8
    <3> QED
      BY ONLY <3>4, <3>5 DEF LotEvent
  <2> QED
    BY <1>1, <1>2, <2>1, <2>4, <2>6, <2>9, EventKeepsLots
<1>8. \/ t = r \/ Raised(r, t) \/ Stopped(r, t, i, q)
      \/ n # 0 /\ ~(q.observed >= o.expires) /\ Matched(r, t, i, q, o, b, n)
  BY <1>1, MatchCases
<1> QED
  BY <1>4, <1>5, <1>6, <1>7, <1>8

\* What the turns up to k leave: the orders not yet served are as they were;
\* what is live of those the quote reaches has left less than a lot; and then
\* no order of its leg served after it was filled.
Served(s, Q, q, k, r) ==
    r.s.ok =>
       /\ \A j \in DOMAIN s.orders : (\A a \in 1 .. k : Q[a] # j) => r.s.orders[j] = s.orders[j]
       /\ \A a \in 1 .. k : Reaches(s.orders[Q[a]], q) /\ Live(r.s.orders[Q[a]])
                               => Scarce(r, s.orders[Q[a]].leg, q)
       /\ \A a, b \in 1 .. k :
             /\ a < b /\ s.orders[Q[a]].leg = s.orders[Q[b]].leg
             /\ Reaches(s.orders[Q[a]], q) /\ Live(r.s.orders[Q[a]])
             => r.s.orders[Q[b]].filled = s.orders[Q[b]].filled

LEMMA TurnServes ==
    ASSUME NEW s, NEW Q, NEW n \in Nat, \A k \in 1 .. n : Q[k] \in DOMAIN s.orders,
           \A a, b \in 1 .. n : Q[a] = Q[b] => a = b,
           IsSession(s), NEW q \in Quotes, NEW k \in 1 .. n, NEW j, j = k - 1,
           NEW r, Pair(s, r), \A leg \in Legs : r.s.ok => r.budget[leg] >= 0,
           InLots(r.s), Served(s, Q, q, j, r), NEW t, t = MatchQuote(r, Q[k], q), Pair(s, t)
    PROVE  Served(s, Q, q, k, t)
<1> SUFFICES ASSUME t.s.ok PROVE Served(s, Q, q, k, t)
  BY DEF Served
<1>1. PICK i, o : i = Q[k] /\ o = s.orders[i] /\ i \in DOMAIN s.orders
  OBVIOUS
<1>2. i \in DOMAIN r.s.orders /\ DOMAIN r.s.orders = DOMAIN s.orders
  BY <1>1 DEF Pair
<1>3. LotsOf(r.s.orders[i])
  BY <1>2 DEF InLots
<1>4. TurnOf(r, t, i, q)
  BY <1>1, <1>3, MatchTurns
<1>5. r.s.ok
  BY <1>4 DEF TurnOf
<1>6. /\ \A y \in DOMAIN s.orders : (\A a \in 1 .. j : Q[a] # y) => r.s.orders[y] = s.orders[y]
      /\ \A a \in 1 .. j : Reaches(s.orders[Q[a]], q) /\ Live(r.s.orders[Q[a]])
                              => Scarce(r, s.orders[Q[a]].leg, q)
      /\ \A a, b \in 1 .. j :
            /\ a < b /\ s.orders[Q[a]].leg = s.orders[Q[b]].leg
            /\ Reaches(s.orders[Q[a]], q) /\ Live(r.s.orders[Q[a]])
            => r.s.orders[Q[b]].filled = s.orders[Q[b]].filled
  BY <1>5 DEF Served
<1>7. \A a \in 1 .. j : a \in 1 .. n /\ a \in 1 .. k /\ a # k /\ Q[a] # i /\ Q[a] \in DOMAIN s.orders
  BY <1>1
<1>8. r.s.orders[i] = o
  BY <1>1, <1>6, <1>7
<1>9. /\ \A y \in DOMAIN s.orders : y # i => t.s.orders[y] = r.s.orders[y]
      /\ \A leg \in Legs : t.budget[leg] <= r.budget[leg]
      /\ Live(t.s.orders[i]) /\ Reaches(o, q) => Scarce(t, o.leg, q)
      /\ Scarce(r, o.leg, q) => t.s.orders[i].filled = o.filled
  BY <1>2, <1>4, <1>8 DEF TurnOf
<1>10. \A a \in 1 .. k : a = k \/ a \in 1 .. j
  OBVIOUS
<1>11. \A a \in 1 .. j : t.s.orders[Q[a]] = r.s.orders[Q[a]]
  BY <1>7, <1>9
<1>12. ASSUME NEW leg \in Legs, Scarce(r, leg, q) PROVE Scarce(t, leg, q)
  <2>1. r.budget[leg] \in Int /\ t.budget[leg] \in Int /\ LotSize \in Int
    BY LotSizeIs DEF Pair
  <2> QED
    BY <1>9, <1>12, <2>1 DEF Scarce
<1>13. \A a \in 1 .. n : s.orders[Q[a]].leg \in Legs
  BY DEF IsSession, IsOrder, Legs
<1>14. \A y \in DOMAIN s.orders : (\A a \in 1 .. k : Q[a] # y) => t.s.orders[y] = s.orders[y]
  <2> SUFFICES ASSUME NEW y \in DOMAIN s.orders, \A a \in 1 .. k : Q[a] # y
               PROVE  t.s.orders[y] = s.orders[y]
    OBVIOUS
  <2>1. y # i
    BY <1>1
  <2>2. r.s.orders[y] = s.orders[y]
    BY <1>6, <1>7
  <2> QED
    BY <1>9, <2>1, <2>2
<1>15. ASSUME NEW a \in 1 .. k, Reaches(s.orders[Q[a]], q), Live(t.s.orders[Q[a]])
       PROVE  Scarce(t, s.orders[Q[a]].leg, q)
  <2>1. CASE a = k
    BY <1>1, <1>9, <1>15, <2>1
  <2>2. CASE a \in 1 .. j
    <3>1. Scarce(r, s.orders[Q[a]].leg, q)
      BY <1>6, <1>11, <1>15, <2>2
    <3> QED
      BY <1>7, <1>12, <1>13, <2>2, <3>1
  <2> QED
    BY <1>10, <2>1, <2>2
<1>16. ASSUME NEW a \in 1 .. k, NEW b \in 1 .. k, a < b,
              s.orders[Q[a]].leg = s.orders[Q[b]].leg,
              Reaches(s.orders[Q[a]], q), Live(t.s.orders[Q[a]])
       PROVE  t.s.orders[Q[b]].filled = s.orders[Q[b]].filled
  <2>1. a \in 1 .. j /\ Live(r.s.orders[Q[a]])
    <3>1. a \in 1 .. j
      BY <1>16
    <3> QED
      BY <1>11, <1>16, <3>1
  <2>2. CASE b = k
    <3>1. Scarce(r, s.orders[Q[a]].leg, q)
      BY <1>6, <1>16, <2>1
    <3> QED
      BY <1>1, <1>9, <1>16, <2>2, <3>1
  <2>3. CASE b \in 1 .. j
    BY <1>6, <1>11, <1>16, <2>1, <2>3
  <2> QED
    BY <1>10, <2>2, <2>3
<1> QED
  BY <1>14, <1>15, <1>16 DEF Served

LEMMA SeenStaysBehind ==
    ASSUME SessionsApart, NEW q \in Quotes, NEW c \in Quotes, ~CursorConflict(c, q),
           NEW v, Known(v, q.sym, c)
    PROVE  Known(v, q.sym, q) /\ v # <<q.sess, q.seq>>
<1>1. PICK p \in Quotes : p.sym = q.sym /\ v = <<p.sess, p.seq>> /\ NotAfter(p, c)
  BY DEF Known
<1>2. c.sym = q.sym
  BY DEF Known
<1>3. /\ p.received \in Nat /\ c.received \in Nat /\ q.received \in Nat
      /\ p.seq \in Nat /\ c.seq \in Nat /\ q.seq \in Nat
  BY PaperSessionAssumption
<1>4. /\ p.received = q.received => p.sess = q.sess
      /\ p.sess = q.sess /\ p.seq = q.seq => p.received = q.received
      /\ c.received = q.received => c.sess = q.sess
  BY <1>1, <1>2 DEF SessionsApart
<1>5. q.received >= c.received /\ ~(c.sess = q.sess /\ c.seq >= q.seq)
  BY <1>3 DEF CursorConflict
<1>6. p.received <= c.received /\ (p.received = c.received => p.seq <= c.seq)
  BY <1>1 DEF NotAfter
<1>7. p.received = q.received => c.received = q.received /\ p.seq < q.seq
  BY <1>3, <1>4, <1>5, <1>6
<1>8. NotAfter(p, q) /\ ~(p.sess = q.sess /\ p.seq = q.seq)
  BY <1>3, <1>4, <1>5, <1>6, <1>7 DEF NotAfter
<1>9. q # NoQuote
  BY QuoteIsKnown DEF Known
<1> QED
  BY <1>1, <1>8, <1>9 DEF Known

\* The orders of its symbol have not seen a quote the cursor accepts.
Unseen(s, q) ==
    \A i \in DOMAIN s.orders : s.orders[i].sym = q.sym => <<q.sess, q.seq>> \notin s.orders[i].seen

LEMMA QuoteIsUnseen ==
    ASSUME SessionsApart, NEW s, Good(s), NEW q \in Quotes, SeenIn(s, s.cursor),
           s.cursor[q.sym] # NoQuote => ~CursorConflict(s.cursor[q.sym], q),
           NEW C, C = [s.cursor EXCEPT ![q.sym] = q]
    PROVE  SeenIn(s, C) /\ Unseen(s, q)
<1>1. s.cursor \in [Symbols -> Quotes \cup {NoQuote}]
  BY DEF Good, SessionInv, IsSession
<1>2. q.sym \in Symbols /\ \A p \in Quotes : p.sym \in Symbols
  BY PaperSessionAssumption
<1>3. C[q.sym] = q /\ \A y \in Symbols : y # q.sym => C[y] = s.cursor[y]
  BY <1>1, <1>2
<1>4. ASSUME NEW i \in DOMAIN s.orders, NEW v \in s.orders[i].seen
      PROVE  /\ Known(v, s.orders[i].sym, C[s.orders[i].sym])
             /\ s.orders[i].sym = q.sym => v # <<q.sess, q.seq>>
  <2>1. PICK y, c : y = s.orders[i].sym /\ c = s.cursor[y]
    OBVIOUS
  <2>2. Known(v, y, c)
    BY <1>4, <2>1 DEF SeenIn
  <2>3. y \in Symbols /\ c # NoQuote
    BY <1>2, <2>2 DEF Known
  <2>4. c \in Quotes
    BY <1>1, <2>1, <2>3
  <2>5. CASE y = q.sym
    <3>1. ~CursorConflict(c, q)
      BY <2>1, <2>3, <2>5
    <3>2. Known(v, q.sym, q) /\ v # <<q.sess, q.seq>>
      BY <2>2, <2>4, <2>5, <3>1, SeenStaysBehind
    <3> QED
      BY <1>3, <2>1, <2>5, <3>2
  <2>6. CASE y # q.sym
    BY <1>3, <2>1, <2>2, <2>3, <2>6
  <2> QED
    BY <2>5, <2>6
<1> QED
  BY <1>4 DEF SeenIn, Unseen

\* Every order of s has its symbol in t.
SameSymbols(s, t) == \A k \in DOMAIN s.orders : t.orders[k].sym = s.orders[k].sym

LEMMA EventKeepsSymbols ==
    ASSUME NEW s, Good(s), NEW i \in DOMAIN s.orders, NEW e, NEW t, t = AppendEvent(s, i, e)
    PROVE  SameSymbols(s, t)
<1>1. CASE t = Raise(s)
  BY <1>1, RaiseAs DEF SameSymbols
<1>2. CASE Took(s, t, i, e)
  <2>1. PICK o, r : o = s.orders[i] /\ r = Reduce(o, e)
    OBVIOUS
  <2>2. IsReduced(o, e, r)
    BY <2>1, TablesAgree, ReducedIs
  <2>3. t.orders[i] = r /\ \A k \in DOMAIN s.orders : k # i => t.orders[k] = s.orders[k]
    BY <1>2, <2>1 DEF Took, Applied
  <2>4. r.sym = o.sym
    BY <2>2 DEF IsReduced
  <2> QED
    BY <2>1, <2>3, <2>4 DEF SameSymbols
<1> QED
  BY <1>1, <1>2, EventIs

LEMMA MatchKeepsSymbols ==
    ASSUME NEW s, NEW r, Pair(s, r), NEW i \in DOMAIN s.orders, NEW q \in Quotes,
           SameSymbols(s, r.s), NEW t, t = MatchQuote(r, i, q)
    PROVE  SameSymbols(s, t.s)
<1>1. PICK o, b, n : o = r.s.orders[i] /\ b = r.budget[o.leg] /\ n = Fillable(o, q, b)
  OBVIOUS
<1>2. Good(r.s) /\ DOMAIN r.s.orders = DOMAIN s.orders /\ {"s", "budget"} \subseteq DOMAIN r
  BY SMTT(40) DEF Pair
<1>3. \/ t.s = r.s \/ t.s = Raise(r.s) \/ \E e : t.s = AppendEvent(r.s, i, e)
  <2>1. CASE t = r
    BY <2>1
  <2>2. CASE Raised(r, t)
    BY <1>2, <2>2 DEF Raised
  <2>3. CASE Stopped(r, t, i, q)
    BY <1>2, <2>3 DEF Stopped
  <2>4. CASE Matched(r, t, i, q, o, b, n)
    <3>1. PICK u, v, left : /\ u = AppendEvent(r.s, i, Fill(o, q, n, b)) /\ v = [r EXCEPT !.s = u]
                            /\ left = [r.budget EXCEPT ![o.leg] = b - n]
      OBVIOUS
    <3>2. DOMAIN v = DOMAIN r /\ v.s = u
      BY <1>2, <3>1
    <3>3. t = [v EXCEPT !.budget = left]
      BY <2>4, <3>1 DEF Matched
    <3>4. t.s = u
      BY <1>2, <3>2, <3>3
    <3> QED
      BY <3>1, <3>4
  <2> QED
    BY <1>1, <2>1, <2>2, <2>3, <2>4, MatchCases
<1>4. CASE t.s = r.s
  BY <1>4
<1>5. CASE t.s = Raise(r.s)
  <2>1. Raise(r.s).orders = r.s.orders
    BY <1>2, RaiseAs
  <2>2. t.s.orders = r.s.orders
    BY <1>5, <2>1
  <2> QED
    BY <2>2 DEF SameSymbols
<1>6. CASE \E e : t.s = AppendEvent(r.s, i, e)
  <2>1. SameSymbols(r.s, t.s)
    BY <1>2, <1>6, EventKeepsSymbols
  <2> QED
    BY <1>2, <2>1 DEF SameSymbols
<1> QED
  BY <1>3, <1>4, <1>5, <1>6

\* The loop keeps what a turn keeps: lots, symbols and the served orders.
Turned(s, Q, q, C, k, r) == Lots(r.s, C) /\ SameSymbols(s, r.s) /\ Served(s, Q, q, k, r)

LEMMA QuoteServes ==
    ASSUME NEW s, Good(s), NEW q \in Quotes, NEW Q, Q = Queue(s, q), NEW n \in Nat, n = Len(Q),
           NEW f, QuoteTurns(f, s, Q, q, n), NEW C, Lots(s, C), C[q.sym] = q
    PROVE  Turned(s, Q, q, C, n, f[n])
<1>1. PICK P, base : P = Budget(s.cursor[q.sym], q) /\ base = [s |-> s, budget |-> P]
  OBVIOUS
<1>2. f[0] = base /\ \A k \in 1 .. n : f[k] = MatchQuote(f[k - 1], Q[k], q)
  BY <1>1 DEF QuoteTurns
<1>3. \A k \in 0 .. n : Pair(s, f[k]) /\ Spent(s, P, f[k])
  BY <1>1, QuoteSpends
<1>4. IsSession(s)
  BY TablesAgree
<1>5. InOrder(Q, s, q)
  BY <1>4, QueueInOrder
<1>6. \A a, b \in 1 .. n : Q[a] = Q[b] => a = b
  BY <1>5 DEF InOrder
<1>7. PICK S : S = Eligible(s, q)
  OBVIOUS
<1>8. \A k \in 1 .. n : Q[k] \in S
  <2>1. Ranks(Q, S, Ahead(s, S))
    BY <1>4, <1>7, QueueRanks
  <2> QED
    BY <2>1 DEF Ranks
<1>9. \A k \in 1 .. n : Q[k] \in DOMAIN s.orders /\ s.orders[Q[k]].sym = q.sym
  BY <1>7, <1>8 DEF Eligible
<1>10. PICK B : B = {k \in 0 .. n : Turned(s, Q, q, C, k, f[k])}
  OBVIOUS
<1>11. 0 \in B
  <2>1. f[0].s = s
    BY <1>1, <1>2
  <2>2. Served(s, Q, q, 0, f[0])
    BY <2>1 DEF Served
  <2>3. Turned(s, Q, q, C, 0, f[0])
    BY <2>1, <2>2 DEF Turned, SameSymbols
  <2> QED
    BY <1>10, <2>3
<1>12. ASSUME NEW k \in 1 .. n, k - 1 \in B PROVE k \in B
  <2>1. PICK j, r, t, i : j = k - 1 /\ r = f[j] /\ t = f[k] /\ i = Q[k]
    OBVIOUS
  <2>2. j \in 0 .. n /\ k \in 0 .. n /\ Turned(s, Q, q, C, j, r)
    BY <1>10, <1>12, <2>1
  <2>3. Pair(s, r) /\ Spent(s, P, r) /\ Pair(s, t)
    BY <1>3, <2>1, <2>2
  <2>4. i \in DOMAIN s.orders /\ s.orders[i].sym = q.sym
    BY <1>9, <2>1
  <2>5. t = MatchQuote(r, i, q)
    BY <1>2, <2>1
  <2>6. Lots(r.s, C) /\ SameSymbols(s, r.s) /\ Served(s, Q, q, j, r)
    BY <2>2 DEF Turned
  <2>7. r.s.orders[i].sym = q.sym
    BY <2>4, <2>6 DEF SameSymbols
  <2>8. Lots(t.s, C)
    BY <2>3, <2>4, <2>5, <2>6, <2>7, MatchKeepsLots
  <2>9. SameSymbols(s, t.s)
    BY <2>3, <2>4, <2>5, <2>6, MatchKeepsSymbols
  <2>10. Served(s, Q, q, k, t)
    <3>1. \A leg \in Legs : r.s.ok => r.budget[leg] >= 0
      BY <2>3 DEF Spent
    <3>2. InLots(r.s)
      BY <2>6 DEF Lots
    <3>3. t = MatchQuote(r, Q[k], q)
      BY <2>1, <2>5
    <3>4. \A a \in 1 .. n : Q[a] \in DOMAIN s.orders
      BY <1>9
    <3> QED
      BY <1>4, <1>6, <2>1, <2>3, <2>6, <3>1, <3>2, <3>3, <3>4, TurnServes
  <2>11. Turned(s, Q, q, C, k, t)
    BY <2>8, <2>9, <2>10 DEF Turned
  <2> QED
    BY <1>10, <2>1, <2>2, <2>11
<1>13. n \in B
  BY <1>11, <1>12, UpTo
<1> QED
  BY <1>10, <1>13

\* What PriorityRespected says of a step from s to t.
Prior(s, t) ==
    \A i, j \in DOMAIN s.orders :
       LET a == s.orders[i]
           b == s.orders[j]
           q == t.cursor[a.sym]
       IN  /\ i # j /\ a.leg = b.leg /\ a.sym = b.sym
           /\ Precedes(s, i, j)
           /\ t.orders[j].filled > b.filled
           /\ Live(t.orders[i])
           => \/ q.received <= a.created
              \/ ~LimitRespected(a, IF a.leg = "ENTRY" THEN q.ask ELSE q.bid)

LEMMA QuietIsPrior ==
    ASSUME NEW s, Good(s), NEW t, NEW C, Quiet(s, t, C) PROVE Prior(s, t)
<1>1. \A j \in DOMAIN s.orders : t.orders[j].filled = s.orders[j].filled /\ s.orders[j].filled \in Nat
  BY TablesAgree DEF Quiet, FillsNothing, IsOrder
<1>2. \A j \in DOMAIN s.orders : ~(t.orders[j].filled > s.orders[j].filled)
  BY <1>1
<1> QED
  BY <1>2 DEF Prior

LEMMA QuoteIsPrior ==
    ASSUME SessionsApart, NEW s, Good(s), Lots(s, s.cursor), NEW q \in Quotes,
           NEW t, t = ProcessQuote(s, q), t.ok
    PROVE  Lots(t, t.cursor) /\ Prior(s, t)
<1>1. IsSession(s)
  BY TablesAgree
<1>2. PICK Q, C, P : /\ Q = Queue(s, q) /\ C = [s.cursor EXCEPT ![q.sym] = q]
                     /\ P = Budget(s.cursor[q.sym], q)
  OBVIOUS
<1>3. PICK n \in Nat : n = Len(Q)
  BY <1>1, <1>2, QueueListsOrders
<1>4. PICK f : QuoteTurns(f, s, Q, q, n) /\ (t \in {s, Raise(s)} \/ Returned(f, s, q, n, t))
  BY <1>2, <1>3, QuoteRuns
<1>5. CASE t \in {s, Raise(s)}
  <2>1. Quiet(s, t, s.cursor)
    BY <1>5, QuietRaise
  <2>2. t.cursor = s.cursor
    BY <1>5, RaiseAs
  <2> QED
    BY <2>1, <2>2, QuietIsPrior DEF Quiet
<1>6. CASE Returned(f, s, q, n, t)
  <2>1. s.cursor[q.sym] # NoQuote => ~CursorConflict(s.cursor[q.sym], q)
    BY <1>6 DEF Returned
  <2>2. SeenIn(s, C) /\ Unseen(s, q)
    BY <1>2, <2>1, QuoteIsUnseen DEF Lots
  <2>3. C[q.sym] = q
    <3>1. s.cursor \in [Symbols -> Quotes \cup {NoQuote}] /\ q.sym \in Symbols
      BY <1>1, PaperSessionAssumption DEF IsSession
    <3> QED
      BY <1>2, <3>1
  <2>4. Lots(s, C)
    BY <2>2 DEF Lots
  <2>5. Turned(s, Q, q, C, n, f[n])
    BY <1>2, <1>3, <1>4, <2>3, <2>4, QuoteServes
  <2>6. Pair(s, f[n])
    <3>1. n \in 0 .. n
      OBVIOUS
    <3> QED
      BY <1>2, <1>3, <1>4, <3>1, QuoteSpends
  <2>7. PICK m, d : m = f[n].s /\ d = [m EXCEPT !.cursor = C]
    OBVIOUS
  <2>8. Good(m) /\ m.cursor = s.cursor /\ DOMAIN m.orders = DOMAIN s.orders
    BY <2>6, <2>7 DEF Pair
  <2>9. C = [m.cursor EXCEPT ![q.sym] = q]
    BY <1>2, <2>8
  <2>10. d = [f[n].s EXCEPT !.cursor[q.sym] = q]
    BY <2>7, <2>9
  <2>11. t = Finish(s, d)
    BY <1>6, <2>10 DEF Returned
  <2>12. Good(d) /\ d.orders = m.orders /\ d.ledger = m.ledger /\ d.cursor = C /\ d.ok = m.ok
    BY <2>7, <2>8, <2>9, MovedIsGood
  <2>13. t.orders = m.orders /\ t.ledger = m.ledger /\ t.cursor = C /\ t.ok = m.ok
    <3>1. /\ Finish(s, d).orders = d.orders /\ Finish(s, d).ledger = d.ledger
          /\ Finish(s, d).ok = d.ok /\ Finish(s, d).cursor = d.cursor
      BY ONLY <2>12, FinishAs
    <3> QED
      BY ONLY <2>11, <2>12, <3>1
  <2>14. Lots(t, t.cursor)
    BY <2>5, <2>7, <2>13, LotsAs DEF Turned
  <2>15. /\ \A j \in DOMAIN s.orders : (\A a \in 1 .. n : Q[a] # j) => t.orders[j] = s.orders[j]
         /\ \A a, b \in 1 .. n :
               /\ a < b /\ s.orders[Q[a]].leg = s.orders[Q[b]].leg
               /\ Reaches(s.orders[Q[a]], q) /\ Live(t.orders[Q[a]])
               => t.orders[Q[b]].filled = s.orders[Q[b]].filled
    BY <2>5, <2>7, <2>13 DEF Turned, Served
  <2>16. InOrder(Q, s, q)
    BY <1>1, <1>2, QueueInOrder
  <2>17. PICK S : S = Eligible(s, q)
    OBVIOUS
  <2>18. \A k \in 1 .. n : Q[k] \in S
    <3>1. Ranks(Q, S, Ahead(s, S))
      BY <1>1, <1>2, <2>17, QueueRanks
    <3> QED
      BY <1>3, <3>1 DEF Ranks
  <2>19. ASSUME NEW i \in DOMAIN s.orders, NEW j \in DOMAIN s.orders, NEW a, a = s.orders[i],
                NEW b, b = s.orders[j], a.leg = b.leg, a.sym = b.sym, Precedes(s, i, j),
                t.orders[j].filled > b.filled, Live(t.orders[i])
         PROVE  /\ t.cursor[a.sym] = q
                /\ q.received <= a.created \/ ~LimitRespected(a, Price(a, q))
    <3>1. IsOrder(a) /\ IsOrder(b)
      BY <2>19, TablesAgree
    <3>2. b.filled \in Nat /\ t.orders[j].filled # b.filled
      BY <2>19, <3>1 DEF IsOrder
    <3>3. PICK y \in 1 .. n : Q[y] = j
      BY <2>15, <2>19, <3>2
    <3>4. j \in S
      BY <2>18, <3>3
    <3>5. a.sym = q.sym
      BY <2>17, <2>19, <3>4 DEF Eligible
    <3>6. t.cursor[a.sym] = q
      BY <2>3, <2>13, <3>5
    <3>7. ASSUME ~(q.received <= a.created), LimitRespected(a, Price(a, q)) PROVE FALSE
      <4>1. /\ q.received \in Nat /\ q.observed \in Nat /\ q.received <= q.observed
            /\ a.created \in Int
        BY <3>1, PaperSessionAssumption DEF IsOrder
      <4>2. q.received > a.created /\ a.created <= q.observed
        BY <3>7, <4>1
      <4>3. i \in S
        BY <2>17, <2>19, <3>5, <4>2 DEF Eligible
      <4>4. PICK x \in 1 .. n : Q[x] = i
        BY <1>3, <2>16, <2>17, <4>3 DEF InOrder
      <4>5. x < y
        BY <1>3, <2>16, <2>19, <3>3, <4>4 DEF InOrder
      <4>6. <<q.sess, q.seq>> \notin a.seen
        BY <2>2, <2>19, <3>5 DEF Unseen
      <4>7. Reaches(a, q)
        BY <3>7, <4>2, <4>6 DEF Reaches
      <4> QED
        BY <2>15, <2>19, <3>2, <3>3, <4>4, <4>5, <4>7
    <3> QED
      BY <3>6, <3>7
  <2>20. Prior(s, t)
    <3> SUFFICES ASSUME NEW i \in DOMAIN s.orders, NEW j \in DOMAIN s.orders,
                        NEW a, a = s.orders[i], NEW b, b = s.orders[j], NEW p, p = t.cursor[a.sym],
                        a.leg = b.leg, a.sym = b.sym, Precedes(s, i, j),
                        t.orders[j].filled > b.filled, Live(t.orders[i])
                 PROVE  \/ p.received <= a.created
                        \/ ~LimitRespected(a, IF a.leg = "ENTRY" THEN p.ask ELSE p.bid)
      BY DEF Prior
    <3>1. p = q /\ (q.received <= a.created \/ ~LimitRespected(a, Price(a, q)))
      BY <2>19
    <3> QED
      BY <3>1 DEF Price
  <2> QED
    BY <2>14, <2>20
<1> QED
  BY <1>4, <1>5, <1>6

LEMMA CommandIsPrior ==
    ASSUME SessionsApart, NEW s, Good(s), Lots(s, s.cursor), NEW c,
           c \in EntryCommands(s.ledger) \cup ExitCommands \cup QuoteCommands
                   \cup ClockCommands \cup CancelCommands,
           NEW t, t = Transition(s, c), t.ok
    PROVE  Lots(t, t.cursor) /\ Prior(s, t)
<1>1. ASSUME Quiet(s, t, s.cursor), t.cursor = s.cursor PROVE Lots(t, t.cursor) /\ Prior(s, t)
  BY <1>1, QuietIsPrior DEF Quiet
<1>2. CASE c \in EntryCommands(s.ledger)
  <2>1. PICK a \in Arbs, q \in Quotes :
              c = [kind |-> "entry", arb |-> a, quote |-> q, resources |-> s.ledger]
    BY <1>2 DEF EntryCommands
  <2>2. t = SubmitEntry(s, a, q, s.ledger)
    BY <2>1 DEF Transition
  <2> QED
    BY <1>1, <2>2, SubmitEntryIsGood, SubmitEntryIsQuiet
<1>3. CASE c \in ExitCommands
  <2>1. PICK i \in 1 .. MaxIntents, q \in Quotes : c = [kind |-> "exit", order |-> i, quote |-> q]
    BY <1>3 DEF ExitCommands
  <2>2. t = SubmitExit(s, i, q)
    BY <2>1 DEF Transition
  <2> QED
    BY <1>1, <2>2, SubmitExitIsGood, SubmitExitIsQuiet
<1>4. CASE c \in QuoteCommands
  <2>1. PICK q \in Quotes : c = [kind |-> "quote", quote |-> q]
    BY <1>4 DEF QuoteCommands
  <2>2. t = ProcessQuote(s, q)
    BY <2>1 DEF Transition
  <2> QED
    BY <2>2, QuoteIsPrior
<1>5. CASE c \in ClockCommands
  <2>1. PICK at \in Times : c = [kind |-> "clock", at |-> at]
    BY <1>5 DEF ClockCommands
  <2>2. t = AdvanceClock(s, at)
    BY <2>1 DEF Transition
  <2> QED
    BY <1>1, <2>2, AdvanceClockIsGood, AdvanceClockIsQuiet
<1>6. CASE c \in CancelCommands
  <2>1. PICK i \in 1 .. MaxIntents, at \in Times : c = [kind |-> "cancel", order |-> i, at |-> at]
    BY <1>6 DEF CancelCommands
  <2>2. t = CancelOrder(s, i, at)
    BY <2>1 DEF Transition
  <2> QED
    BY <1>1, <2>2, CancelOrderIsGood, CancelOrderIsQuiet
<1> QED
  BY <1>2, <1>3, <1>4, <1>5, <1>6

LEMMA EmptySessionLots == Lots(EmptySession, EmptySession.cursor)
<1>1. PICK s, l : s = EmptySession /\ l = s.ledger
  OBVIOUS
<1>2. s.orders = <<>> /\ l.res = <<>>
  BY <1>1 DEF EmptySession, InitialLedger
<1>3. DOMAIN s.orders = {} /\ DOMAIN l.res = {}
  BY <1>2
<1> QED
  BY <1>1, <1>3 DEF Lots, InLots, SeenIn

LEMMA LotsAlways == SessionsApart => (SessionSpec => [](Good(session) /\ Lots(session, session.cursor)))
<1> DEFINE Inv == Good(session) /\ Lots(session, session.cursor)
<1> SUFFICES ASSUME SessionsApart PROVE SessionSpec => []Inv
  OBVIOUS
<1>1. SessionInit => Inv
  BY EmptySessionIsGood, EmptySessionLots DEF SessionInit, Atomic!Init
<1>2. Inv /\ [SessionNext]_sessionVars => Inv'
  <2> SUFFICES ASSUME Inv, [SessionNext]_sessionVars PROVE Inv'
    OBVIOUS
  <2>1. CASE SessionNext
    <3>1. PICK s, c, t : /\ s = session /\ t = Transition(s, c) /\ t.ok /\ session' = t
                         /\ c \in EntryCommands(s.ledger) \cup ExitCommands \cup QuoteCommands
                                     \cup ClockCommands \cup CancelCommands
      BY <2>1, StepIs
    <3>2. Good(t) /\ Lots(t, t.cursor)
      BY <3>1, CommandIsGood, CommandIsPrior
    <3> QED
      BY <3>1, <3>2
  <2>2. CASE UNCHANGED sessionVars
    BY <2>2 DEF sessionVars
  <2> QED
    BY <2>1, <2>2
<1> HIDE DEF Inv
<1>3. SessionSpec => []Inv
  BY <1>1, <1>2, PTL DEF SessionSpec
<1> QED
  BY <1>3

\* Price-time priority, for streams whose positions and sessions keep apart: a
\* quote that fills an order leaves live no order of its leg ahead of it that
\* the quote may fill, whatever was filled, expired or cancelled before
\* (process_quote, match_quote).
THEOREM Priority == ASSUME SessionsApart PROVE SessionSpec => PriorityRespected
<1>1. ASSUME Good(session), Lots(session, session.cursor), [SessionNext]_sessionVars
      PROVE  [Prior(session, session')]_sessionVars
  <2>1. CASE SessionNext
    <3>1. PICK s, c, t : /\ s = session /\ t = Transition(s, c) /\ t.ok /\ session' = t
                         /\ c \in EntryCommands(s.ledger) \cup ExitCommands \cup QuoteCommands
                                     \cup ClockCommands \cup CancelCommands
      BY <2>1, StepIs
    <3>2. Prior(s, t)
      BY <1>1, <3>1, CommandIsPrior
    <3> QED
      BY <3>1, <3>2
  <2>2. CASE UNCHANGED sessionVars
    BY <2>2
  <2> QED
    BY <1>1, <2>1, <2>2
<1>2. SessionSpec => [](Good(session) /\ Lots(session, session.cursor))
  BY LotsAlways
<1>3. SessionSpec => [][Prior(session, session')]_sessionVars
  BY <1>1, <1>2, PTL DEF SessionSpec
<1> QED
  BY <1>3 DEF PriorityRespected, Prior

-----------------------------------------------------------------------------
\* A worker's state is a record of exactly these fields.
IsWorker(v) ==
    v \in [pc : {v.pc}, account : {v.account}, enabled : {v.enabled}, cmd : {v.cmd},
           prev : {v.prev}, new : {v.new}, acked : {v.acked}]

IsCommand(c) ==
    \/ \E l : c \in EntryCommands(l)
    \/ c \in ExitCommands
    \/ c \in QuoteCommands
    \/ c \in ClockCommands
    \/ c \in CancelCommands

\* What a worker between its steps relies on.
WorkerInv(v) ==
    /\ IsWorker(v)
    /\ v.account \in Accounts
    /\ v.pc # "idle" => IsCommand(v.cmd) /\ ValidCommand(v.cmd)
    /\ v.pc \in {"log", "commit"} => v.prev # NoRow
    /\ v.pc = "commit" => /\ v.new = Transition(v.prev, v.cmd)
                          /\ v.new.ok
                          /\ WithinBound(v.prev, v.cmd)
                          /\ v.new # v.prev

\* The inductive invariant: one row, and workers that hold a real transition
\* of the row they loaded.
RuntimeInv ==
    /\ rows = [a \in Accounts |-> rows[a]]
    /\ worker = [w \in Workers |-> worker[w]]
    /\ OneBudgetPerDay
    /\ \A w \in Workers : WorkerInv(worker[w])

-----------------------------------------------------------------------------
LEMMA EmptyIsARow == EmptySession # NoRow
<1>1. EmptySession.ok = TRUE
  BY DEF EmptySession
<1>2. NoRow.ok = FALSE
  BY DEF NoRow
<1> QED
  BY <1>1, <1>2

LEMMA OkIsARow == ASSUME NEW s, s.ok PROVE s # NoRow
<1>1. NoRow.ok = FALSE
  BY DEF NoRow
<1> QED
  BY <1>1

\* With one budget per day, Session is the row that exists.
LEMMA SessionIsTheRow ==
    ASSUME OneBudgetPerDay, NEW a \in Accounts, rows[a] # NoRow
    PROVE  Session = rows[a]
<1>1. (CHOOSE b \in Accounts : rows[b] # NoRow) = a
  BY DEF OneBudgetPerDay
<1> QED
  BY <1>1 DEF Session

LEMMA IdleWorker ==
    ASSUME NEW a \in Accounts, NEW e, NEW k
    PROVE  WorkerInv(Idle(a, e, k)) 
BY DEF WorkerInv, IsWorker, Idle

LEMMA AccountOf ==
    ASSUME RuntimeInv, NEW w \in Workers PROVE worker[w].account \in Accounts
BY DEF RuntimeInv, WorkerInv

LEMMA InitInv == Init => RuntimeInv
<1> SUFFICES ASSUME Init PROVE RuntimeInv
  OBVIOUS
<1>0. PICK account \in [Workers -> Accounts], enabled \in [Workers -> BOOLEAN] :
         worker = [w \in Workers |-> Idle(account[w], enabled[w], FALSE)]
  BY DEF Init
<1>1. \A w \in Workers : WorkerInv(worker[w])
  <2> TAKE w \in Workers
  <2>1. account[w] \in Accounts
    BY <1>0
  <2>2. worker[w] = Idle(account[w], enabled[w], FALSE)
    BY <1>0
  <2> QED
    BY <2>1, <2>2, IdleWorker
<1>2. worker = [w \in Workers |-> worker[w]]
  BY <1>0
<1> QED
  BY <1>1, <1>2 DEF Init, RuntimeInv, OneBudgetPerDay

\* Steps that change only one worker and leave it consistent.
LEMMA OneWorker ==
    ASSUME RuntimeInv, NEW w \in Workers, NEW v, WorkerInv(v),
           worker' = [worker EXCEPT ![w] = v], UNCHANGED rows
    PROVE  RuntimeInv'
<1>1. \A u \in Workers : worker'[u] = IF u = w THEN v ELSE worker[u]
  BY DEF RuntimeInv
<1>2. \A u \in Workers : WorkerInv(worker'[u])
  BY <1>1 DEF RuntimeInv
<1>3. worker' = [u \in Workers |-> worker'[u]]
  BY DEF RuntimeInv
<1> QED
  BY <1>2, <1>3 DEF RuntimeInv, OneBudgetPerDay

LEMMA ReturnInv ==
    ASSUME RuntimeInv, NEW w \in Workers, NEW k, Return(w, k), UNCHANGED rows
    PROVE  RuntimeInv'
<1>1. WorkerInv(Idle(worker[w].account, worker[w].enabled, k))
  BY IdleWorker, AccountOf
<1>2. worker' = [worker EXCEPT ![w] = Idle(worker[w].account, worker[w].enabled, k)]
  BY DEF Return
<1> QED
  BY <1>1, <1>2, OneWorker

LEMMA InitializeInv ==
    ASSUME RuntimeInv, NEW w \in Workers, Initialize(w)
    PROVE  RuntimeInv'
<1>1. CASE UNCHANGED rows
  BY <1>1, ReturnInv DEF Initialize
<1>2. CASE rows' = [rows EXCEPT ![worker[w].account] = EmptySession]
           /\ \A a \in Accounts : rows[a] = NoRow
  <2> DEFINE v == Idle(worker[w].account, worker[w].enabled, FALSE)
  <2>1. worker' = [worker EXCEPT ![w] = v]
    BY DEF Initialize, Return
  <2>2. WorkerInv(v)
    BY IdleWorker, AccountOf
  <2> HIDE DEF v
  <2>3. \A u \in Workers : WorkerInv(worker'[u])
    BY <2>1, <2>2 DEF RuntimeInv
  <2>4. worker' = [u \in Workers |-> worker'[u]]
    BY <2>1 DEF RuntimeInv
  <2>5. OneBudgetPerDay'
    BY <1>2 DEF RuntimeInv, OneBudgetPerDay
  <2>6. rows' = [a \in Accounts |-> rows'[a]]
    BY <1>2 DEF RuntimeInv
  <2> QED
    BY <2>3, <2>4, <2>5, <2>6 DEF RuntimeInv
<1> QED
  BY <1>1, <1>2 DEF Initialize

LEMMA IssueInv ==
    ASSUME RuntimeInv, NEW w \in Workers, NEW c, IsCommand(c), Issue(w, c)
    PROVE  RuntimeInv'
<1> DEFINE v == [worker[w] EXCEPT !.pc = "load", !.cmd = c, !.acked = FALSE]
<1>1. worker' = [worker EXCEPT ![w] = v]
  BY DEF Issue, RuntimeInv
<1>2. WorkerInv(v)
  <2>1. WorkerInv(worker[w]) /\ ValidCommand(c)
    BY DEF RuntimeInv, Issue
  <2>2. /\ v.pc = "load" /\ v.cmd = c
        /\ v.account = worker[w].account
    BY <2>1 DEF WorkerInv, IsWorker
  <2>3. IsWorker(v)
    BY <2>1 DEF WorkerInv, IsWorker
  <2> HIDE DEF v
  <2> QED
    BY <2>1, <2>2, <2>3 DEF WorkerInv
<1>3. UNCHANGED rows
  BY DEF Issue
<1> HIDE DEF v
<1> QED
  BY <1>1, <1>2, <1>3, OneWorker

LEMMA LoadCheckpointInv ==
    ASSUME RuntimeInv, NEW w \in Workers, LoadCheckpoint(w)
    PROVE  RuntimeInv'
<1>1. CASE Row(w) = NoRow
  BY <1>1, ReturnInv DEF LoadCheckpoint
<1>2. CASE Row(w) # NoRow
  <2> DEFINE v == [worker[w] EXCEPT !.pc = "log", !.prev = Row(w)]
  <2>1. worker' = [worker EXCEPT ![w] = v]
    BY <1>2 DEF LoadCheckpoint, RuntimeInv
  <2>2. WorkerInv(v)
    <3>1. WorkerInv(worker[w]) /\ worker[w].pc = "load"
      BY DEF RuntimeInv, LoadCheckpoint
    <3>2. /\ v.pc = "log" /\ v.cmd = worker[w].cmd /\ v.prev = Row(w)
          /\ v.account = worker[w].account
      BY <3>1 DEF WorkerInv, IsWorker
    <3>3. IsWorker(v)
      BY <3>1 DEF WorkerInv, IsWorker
    <3> HIDE DEF v
    <3> QED
      BY <1>2, <3>1, <3>2, <3>3 DEF WorkerInv
  <2>3. UNCHANGED rows
    BY DEF LoadCheckpoint
  <2> HIDE DEF v
  <2> QED
    BY <2>1, <2>2, <2>3, OneWorker
<1> QED
  BY <1>1, <1>2

LEMMA LoadLogInv ==
    ASSUME RuntimeInv, NEW w \in Workers, LoadLog(w)
    PROVE  RuntimeInv'
<1> DEFINE s == worker[w].prev
           c == worker[w].cmd
           next == Transition(s, c)
           v == [worker[w] EXCEPT !.pc = "commit", !.new = next]
<1>0. /\ worker[w].pc = "log"
      /\ UNCHANGED rows
      /\ \/ Return(w, FALSE)
         \/ /\ WithinBound(s, c) /\ next.ok /\ next # s
            /\ worker' = [worker EXCEPT ![w].pc = "commit", ![w].new = next]
  BY DEF LoadLog
<1>1. CASE Return(w, FALSE)
  BY <1>0, <1>1, ReturnInv
<1>2. CASE /\ WithinBound(s, c) /\ next.ok /\ next # s
           /\ worker' = [worker EXCEPT ![w].pc = "commit", ![w].new = next]
  <2>1. worker' = [worker EXCEPT ![w] = v]
    BY <1>2 DEF RuntimeInv
  <2>2. WorkerInv(v)
    <3>1. WorkerInv(worker[w]) /\ worker[w].pc = "log"
      BY <1>0 DEF RuntimeInv
    <3> HIDE DEF next
    <3>2. /\ v.pc = "commit" /\ v.cmd = c /\ v.prev = s /\ v.new = next
          /\ v.account = worker[w].account
      BY <3>1 DEF WorkerInv, IsWorker
    <3>3. IsWorker(v)
      BY <3>1 DEF WorkerInv, IsWorker
    <3>4. next = Transition(v.prev, v.cmd)
      BY <3>2 DEF next
    <3> HIDE DEF v
    <3> QED
      BY <1>2, <3>1, <3>2, <3>3, <3>4 DEF WorkerInv
  <2> HIDE DEF v, next
  <2> QED
    BY <1>0, <2>1, <2>2, OneWorker
<1> QED
  BY <1>0, <1>1, <1>2

\* The committed row replaces the row it was computed from, so there is still one.
LEMMA SwapRows ==
    ASSUME RuntimeInv, NEW w \in Workers, Swap(w)
    PROVE  /\ rows[worker[w].account] = worker[w].prev
           /\ worker[w].prev # NoRow
           /\ worker[w].new # NoRow
           /\ rows' = [rows EXCEPT ![worker[w].account] = worker[w].new]
           /\ rows' = [a \in Accounts |-> rows'[a]]
           /\ OneBudgetPerDay'
<1>1. /\ worker[w].account \in Accounts
      /\ worker[w].prev # NoRow
      /\ worker[w].new.ok
  BY DEF RuntimeInv, WorkerInv, Swap
<1>2. worker[w].new # NoRow
  BY <1>1, OkIsARow
<1>3. /\ rows[worker[w].account] = worker[w].prev
      /\ rows' = [rows EXCEPT ![worker[w].account] = worker[w].new]
  BY DEF Swap
<1>4. \A a \in Accounts : rows'[a] # NoRow => rows[a] # NoRow
  BY <1>1, <1>3 DEF RuntimeInv
<1> QED
  BY <1>1, <1>2, <1>3, <1>4 DEF RuntimeInv, OneBudgetPerDay

LEMMA SwapInv ==
    ASSUME RuntimeInv, NEW w \in Workers, Swap(w),
           Return(w, TRUE) \/ Return(w, FALSE) \/ UNCHANGED worker
    PROVE  RuntimeInv'
<1>1. /\ WorkerInv(Idle(worker[w].account, worker[w].enabled, TRUE))
      /\ WorkerInv(Idle(worker[w].account, worker[w].enabled, FALSE))
  BY IdleWorker, AccountOf
<1>2. \A u \in Workers : WorkerInv(worker'[u])
  BY <1>1 DEF Return, RuntimeInv
<1>3. worker' = [u \in Workers |-> worker'[u]]
  BY DEF Return, RuntimeInv
<1> QED
  BY <1>2, <1>3, SwapRows DEF RuntimeInv

LEMMA CrashInv ==
    ASSUME RuntimeInv, NEW w \in Workers, Crash(w)
    PROVE  RuntimeInv'
<1>1. PICK e \in BOOLEAN :
         worker' = [worker EXCEPT ![w] = Idle(worker[w].account, e, FALSE)]
  BY DEF Crash
<1>2. WorkerInv(Idle(worker[w].account, e, FALSE))
  BY IdleWorker, AccountOf
<1> QED
  BY <1>1, <1>2, OneWorker DEF Crash

\* Every step of the runtime preserves the invariant.
LEMMA StepInv == RuntimeInv /\ [Next]_vars => RuntimeInv'
<1> SUFFICES ASSUME RuntimeInv, [Next]_vars PROVE RuntimeInv'
  OBVIOUS
<1>1. CASE UNCHANGED vars
  BY <1>1 DEF vars, RuntimeInv, OneBudgetPerDay
<1>2. CASE Next
  <2>1. PICK w \in Workers :
          Initialize(w) \/ IssueAny(w) \/ Step(w) \/ CommitUnanswered(w) \/ Crash(w)
    BY <1>2 DEF Next
  <2>2. CASE Initialize(w)
    BY <2>2, InitializeInv
  <2>3. CASE IssueAny(w)
    <3>1. PICK c : IsCommand(c) /\ Issue(w, c)
      BY <2>3 DEF IssueAny, IsCommand
    <3> QED
      BY <3>1, IssueInv
  <2>4. CASE LoadCheckpoint(w)
    BY <2>4, LoadCheckpointInv
  <2>5. CASE LoadLog(w)
    BY <2>5, LoadLogInv
  <2>6. CASE Commit(w) \/ CommitUnanswered(w)
    BY <2>6, SwapInv DEF Commit, CommitUnanswered
  <2>7. CASE CommitConflict(w)
    BY <2>7, ReturnInv DEF CommitConflict
  <2>8. CASE Crash(w)
    BY <2>8, CrashInv
  <2> QED
    BY <2>1, <2>2, <2>3, <2>4, <2>5, <2>6, <2>7, <2>8 DEF Step
<1> QED
  BY <1>1, <1>2

\* At most one cash and inventory budget exists per trade date, for any number
\* of account snapshots and workers (initialize, commit).
THEOREM OneBudget == Spec => []OneBudgetPerDay
<1>1. RuntimeInv => OneBudgetPerDay
  BY DEF RuntimeInv
<1> QED
  BY <1>1, InitInv, StepInv, PTL DEF Spec
-----------------------------------------------------------------------------
\* Refinement.

LEMMA SerialInit == Init => Serial!Init
BY DEF Init, Serial!Init, Session

\* Only the row decides what the session is.
LEMMA SameRows == ASSUME UNCHANGED rows PROVE UNCHANGED Session
BY DEF Session

LEMMA InitializeStutters ==
    ASSUME RuntimeInv, NEW w \in Workers, Initialize(w)
    PROVE  UNCHANGED Session
<1>1. CASE UNCHANGED rows
  BY <1>1, SameRows
<1>2. CASE rows' = [rows EXCEPT ![worker[w].account] = EmptySession]
           /\ \A a \in Accounts : rows[a] = NoRow
  <2> DEFINE b == worker[w].account
  <2>1. b \in Accounts
    BY AccountOf
  <2>2. rows'[b] = EmptySession /\ \A a \in Accounts \ {b} : rows'[a] = NoRow
    BY <1>2, <2>1 DEF RuntimeInv
  <2>3. (CHOOSE a \in Accounts : rows'[a] # NoRow) = b
    BY <2>1, <2>2, EmptyIsARow
  <2>4. Session' = EmptySession
    BY <2>1, <2>2, <2>3, EmptyIsARow DEF Session
  <2>5. Session = EmptySession
    BY <1>2 DEF Session
  <2> QED
    BY <2>4, <2>5
<1> QED
  BY <1>1, <1>2 DEF Initialize

\* A transition that changed the session was planned against its ledger.
LEMMA ChangedEntryIsFresh ==
    ASSUME NEW s, NEW c, c.kind = "entry", Transition(s, c).ok, Transition(s, c) # s
    PROVE  c.resources = s.ledger
<1>1. Transition(s, c) = SubmitEntry(s, c.arb, c.quote, c.resources)
  BY DEF Transition
<1>2. ~Raise(s).ok
  BY DEF Raise
<1> QED
  BY <1>1, <1>2 DEF SubmitEntry

LEMMA SwapExecutes ==
    ASSUME RuntimeInv, NEW w \in Workers, Swap(w)
    PROVE  Serial!Next
<1> DEFINE c == worker[w].cmd
           a == worker[w].account
<1>1. Session = worker[w].prev
  BY SwapRows, SessionIsTheRow, AccountOf DEF RuntimeInv
<1>2. Session' = worker[w].new
  <2>1. a \in Accounts /\ rows'[a] = worker[w].new /\ rows'[a] # NoRow
    BY SwapRows, AccountOf DEF RuntimeInv
  <2>2. (CHOOSE b \in Accounts : rows'[b] # NoRow) = a
    BY <2>1, SwapRows DEF OneBudgetPerDay
  <2> QED
    BY <2>1, <2>2 DEF Session
<1>3. /\ IsCommand(c) /\ ValidCommand(c)
      /\ worker[w].new = Transition(worker[w].prev, c)
      /\ worker[w].new.ok
      /\ WithinBound(worker[w].prev, c)
      /\ worker[w].new # worker[w].prev
  BY DEF RuntimeInv, WorkerInv, Swap
<1>4. Serial!Execute(c)
  BY <1>1, <1>2, <1>3 DEF Serial!Execute, Admissible
<1>5. CASE \E l : c \in EntryCommands(l)
  <2>1. PICK l : c \in EntryCommands(l)
    BY <1>5
  <2>2. c.kind = "entry" /\ c.resources = l
    BY <2>1 DEF EntryCommands
  <2>3. l = Session.ledger
    BY <1>1, <1>3, <2>2, ChangedEntryIsFresh
  <2> QED
    BY <1>4, <2>1, <2>3 DEF Serial!Next, Commands
<1> QED
  BY <1>3, <1>4, <1>5 DEF IsCommand, Serial!Next, Commands

LEMMA StepRefines == RuntimeInv /\ [Next]_vars => [Serial!Next]_Session
<1> SUFFICES ASSUME RuntimeInv, [Next]_vars PROVE Serial!Next \/ UNCHANGED Session
  OBVIOUS
<1>1. CASE UNCHANGED rows
  BY <1>1, SameRows
<1>2. CASE ~UNCHANGED rows
  <2>1. PICK w \in Workers : Initialize(w) \/ Swap(w)
    BY <1>2 DEF Next, vars, IssueAny, Issue, Step, LoadCheckpoint, LoadLog, Commit,
                CommitConflict, CommitUnanswered, Crash
  <2> QED
    BY <2>1, InitializeStutters, SwapExecutes
<1> QED
  BY <1>1, <1>2

\* Whatever the interleaving of loads and commits, lost responses, retries and
\* crashes, the database goes through the states of one session that executes
\* whole commands one at a time (commit's compare-and-swap on revision and hash).
THEOREM Refinement == Spec => Serializable
<1> QED
  BY SerialInit, InitInv, StepInv, StepRefines, PTL DEF Spec, Serializable, Serial!Spec

\* Two planners never spend the same resources, for any number of workers.
THEOREM FreshAdmission == Spec => NoStaleAdmission
<1>1. ASSUME RuntimeInv, NEW w \in Workers, Swap(w), worker[w].cmd.kind = "entry"
      PROVE  worker[w].cmd.resources = Row(w).ledger
  <2>1. Row(w) = worker[w].prev
    BY <1>1, SwapRows DEF Row
  <2>2. /\ worker[w].new = Transition(worker[w].prev, worker[w].cmd)
        /\ worker[w].new.ok
        /\ worker[w].new # worker[w].prev
    BY <1>1 DEF RuntimeInv, WorkerInv, Swap
  <2> QED
    BY <1>1, <2>1, <2>2, ChangedEntryIsFresh
<1>2. RuntimeInv => \A w \in Workers : Swap(w) /\ worker[w].cmd.kind = "entry"
                                          => worker[w].cmd.resources = Row(w).ledger
  BY <1>1
<1> QED
  BY <1>2, InitInv, StepInv, PTL DEF Spec, NoStaleAdmission
-----------------------------------------------------------------------------
(***************************************************************************)
(* The two tables.  The log is compared and spliced as a sequence, so what  *)
(* a transition appends must be one, whatever it does to the rest of the   *)
(* session.  The loops over orders are recursive functions; a first index  *)
(* at which they went wrong would be one more than an index at which they  *)
(* did not.                                                                *)
(***************************************************************************)
HasLog(s) == {"ops", "orders"} \subseteq DOMAIN s /\ SomeSeq(s.ops) /\ SomeSeq(s.orders)

LEMMA ExceptIsSeq == ASSUME NEW x, NEW i, NEW e, SomeSeq(x) PROVE SomeSeq([x EXCEPT ![i] = e])
<1>1. PICK S : x \in Seq(S)
  BY DEF SomeSeq
<1>2. Len(x) \in Nat /\ x \in [1..Len(x) -> S]
  BY <1>1
<1>3. [x EXCEPT ![i] = e] \in [1..Len(x) -> S \cup {e}]
  BY <1>2
<1>4. [x EXCEPT ![i] = e] \in Seq(S \cup {e})
  BY <1>2, <1>3
<1> QED
  BY <1>4 DEF SomeSeq

\* A session that keeps the operations, and as many orders, whatever else it changes.
Keeps(s, t) ==
    {"ops", "orders"} \subseteq DOMAIN t /\ t.ops = s.ops /\ (SomeSeq(s.orders) => SomeSeq(t.orders))

LEMMA KeepsLog == ASSUME NEW s, NEW t, HasLog(s), Keeps(s, t) PROVE HasLog(t)
BY DEF HasLog, Keeps

LEMMA RaiseLog == ASSUME NEW s, HasLog(s) PROVE HasLog(Raise(s))
BY DEF HasLog, Raise

LEMMA LogLog == ASSUME NEW s, HasLog(s), NEW i, NEW type, NEW at PROVE HasLog(Log(s, i, type, at))
<1>1. PICK op : op = <<i, type, at>>
  OBVIOUS
<1>2. Log(s, i, type, at) = [[s EXCEPT !.ops = Append(s.ops, op)] EXCEPT !.lastAt = at]
  BY <1>1 DEF Log
<1> QED
  BY <1>2, AppendIsSeq DEF HasLog

LEMMA AppendIntentLog == ASSUME NEW s, NEW o, HasLog(s) PROVE HasLog(AppendIntent(s, o))
<1>1. PICK t, i, type, at : HasLog(t) /\ AppendIntent(s, o) \in {Raise(s), Log(t, i, type, at)}
  <2> DEFINE n == Len(s.orders) + 1
             ledger == IF o.leg = "ENTRY" THEN ReserveEntry(s.ledger, o)
                                          ELSE ReserveExit(s.ledger, n, o)
             t == [s EXCEPT !.orders = Append(@, o), !.ledger = ledger]
  <2>1. AppendIntent(s, o) \in {Raise(s), Log(t, n, o.leg, o.created)}
    BY DEF AppendIntent
  <2>2. Keeps(s, t)
    BY AppendIsSeq DEF Keeps, HasLog
  <2> QED
    BY <2>1, <2>2, KeepsLog
<1> QED
  BY <1>1, RaiseLog, LogLog

LEMMA AppendEventLog == ASSUME NEW s, NEW i, NEW e, HasLog(s) PROVE HasLog(AppendEvent(s, i, e))
<1>1. ASSUME NEW o PROVE HasLog(AppendReduced(s, i, e, o))
  <2> DEFINE ledger == IF Live(o) THEN s.ledger ELSE Settle(s.ledger, i, o)
             t == [s EXCEPT !.orders[i] = o, !.ledger = ledger, !.liquidity = Draw(@, o, e)]
  <2>1. AppendReduced(s, i, e, o) \in {Raise(s), Log(t, i, e.type, e.at)}
    BY DEF AppendReduced
  <2>2. Keeps(s, t)
    BY ExceptIsSeq DEF Keeps, HasLog
  <2> QED
    BY <2>1, <2>2, KeepsLog, RaiseLog, LogLog
<1>2. AppendEvent(s, i, e) = Raise(s)
      \/ AppendEvent(s, i, e) = AppendReduced(s, i, e, Reduce(s.orders[i], e))
  BY DEF AppendEvent, With
<1> QED
  BY <1>1, <1>2, RaiseLog

LEMMA FinishLog == ASSUME NEW p, NEW c, HasLog(c) PROVE HasLog(Finish(p, c))
<1>1. Finish(p, c) \in {c, [c EXCEPT !.rev = p.rev + 1]}
  BY DEF Finish, With
<1>2. Keeps(c, [c EXCEPT !.rev = p.rev + 1])
  BY DEF Keeps, HasLog
<1> QED
  BY <1>1, <1>2, KeepsLog

LEMMA AcceptedLog == ASSUME NEW s, NEW o, HasLog(s) PROVE HasLog(Accepted(s, o))
<1>1. Accepted(s, o) = AppendEvent(AppendIntent(s, o), Len(s.orders) + 1,
                                   Event("ACCEPTED", o.created))
  BY DEF Accepted, With
<1> QED
  BY <1>1, AppendIntentLog, AppendEventLog

LEMMA ClockLoopIs ==
    ASSUME NEW f, NEW s, NEW at, NEW n
    PROVE  Expiring(f, s, at, n)
              <=> f = [k \in 0..n |-> IF k = 0 THEN s ELSE Expire(f[k - 1], k, at)]
<1>1. ASSUME NEW v, NEW k PROVE With(v, LAMBDA r : Expire(r, k, at)) = Expire(v, k, at)
  BY DEF With
<1> QED
  BY <1>1, Zenon DEF Expiring

LEMMA ExpiringExists == ASSUME NEW s, NEW at, NEW n \in Nat PROVE \E f : Expiring(f, s, at, n)
<1> DEFINE B == {m \in Nat : ~\E f : Expiring(f, s, at, m)}
<1>1. B = {}
  <2> SUFFICES ASSUME B # {} PROVE FALSE
    OBVIOUS
  <2>1. PICK m \in B : \A l \in B : ~(l < m)
    <3>1. B \in SUBSET Nat
      OBVIOUS
    <3> HIDE DEF B
    <3> QED
      BY <3>1, FirstOf
  <2>2. CASE m = 0
    <3>1. PICK f : f = [k \in 0..0 |-> s]
      OBVIOUS
    <3>a. f = [k \in 0..0 |-> IF k = 0 THEN s ELSE Expire(f[k - 1], k, at)]
      BY <3>1
    <3>2. Expiring(f, s, at, 0)
      BY <3>a, ClockLoopIs
    <3> QED
      BY <2>1, <2>2, <3>2
  <2>3. CASE m # 0
    <3>1. m - 1 \in Nat /\ m - 1 \notin B
      BY <2>1, <2>3
    <3>2. PICK f : Expiring(f, s, at, m - 1)
      BY <3>1
    <3>3. PICK g : g = [k \in 0..m |-> IF k = m THEN Expire(f[m - 1], m, at) ELSE f[k]]
      OBVIOUS
    <3>4. \A k \in 0..m : g[k] = IF k = 0 THEN s ELSE Expire(g[k - 1], k, at)
      <4> SUFFICES ASSUME NEW k \in 0..m
                   PROVE  g[k] = IF k = 0 THEN s ELSE Expire(g[k - 1], k, at)
        OBVIOUS
      <4>1. CASE k = m
        <5>1. m - 1 \in 0..m /\ m - 1 # m /\ m \in 0..m
          BY <3>1
        <5>2. g[m - 1] = f[m - 1] /\ g[m] = Expire(f[m - 1], m, at)
          BY <3>3, <5>1
        <5> QED
          BY <2>3, <4>1, <5>2
      <4>2. CASE k # m
        <5>1. k \in 0..(m - 1)
          BY <3>1, <4>2
        <5>2. g[k] = f[k] /\ (k # 0 => k - 1 \in 0..(m - 1) /\ k - 1 # m /\ g[k - 1] = f[k - 1])
          BY <3>1, <3>3, <5>1
        <5>3. f[k] = IF k = 0 THEN s ELSE Expire(f[k - 1], k, at)
          BY <3>2, <5>1, ClockLoopIs
        <5> QED
          BY <5>2, <5>3
      <4> QED
        BY <4>1, <4>2
    <3>5. Expiring(g, s, at, m)
      BY <3>3, <3>4, ClockLoopIs
    <3> QED
      BY <2>1, <3>5
  <2> QED
    BY <2>2, <2>3
<1> QED
  BY <1>1

LEMMA ExpiringLog ==
    ASSUME NEW s, NEW at, NEW n \in Nat, NEW f, Expiring(f, s, at, n), HasLog(s)
    PROVE  HasLog(f[n])
<1> DEFINE B == {m \in 0..n : ~HasLog(f[m])}
<1>1. B = {}
  <2> SUFFICES ASSUME B # {} PROVE FALSE
    OBVIOUS
  <2>1. PICK m \in B : \A l \in B : ~(l < m)
    <3>1. B \in SUBSET Nat
      OBVIOUS
    <3> HIDE DEF B
    <3> QED
      BY <3>1, FirstOf
  <2>2. m # 0
    BY <2>1, ClockLoopIs
  <2>3. m - 1 \in 0..n /\ HasLog(f[m - 1])
    BY <2>1, <2>2
  <2>4. f[m] = Expire(f[m - 1], m, at)
    BY <2>1, <2>2, ClockLoopIs
  <2>5. HasLog(f[m])
    BY <2>3, <2>4, AppendEventLog DEF Expire
  <2> QED
    BY <2>1, <2>5
<1> QED
  BY <1>1

LEMMA AdvanceClockLog == ASSUME NEW s, NEW at, HasLog(s) PROVE HasLog(AdvanceClock(s, at))
<1>1. PICK n : n = Len(s.orders) /\ n \in Nat
  BY DEF HasLog, SomeSeq
<1>2. PICK f : f = CHOOSE g : Expiring(g, s, at, n)
  OBVIOUS
<1>3. Expiring(f, s, at, n)
  BY <1>1, <1>2, ExpiringExists
<1>4. AdvanceClock(s, at) = Finish(s, f[n])
  BY <1>1, <1>2 DEF AdvanceClock, Loop, With, Expiring, Expire
<1> QED
  BY <1>1, <1>3, <1>4, ExpiringLog, FinishLog

LEMMA QuoteLoopIs ==
    ASSUME NEW f, NEW base, NEW queue, NEW q, NEW n
    PROVE  Matching(f, base, queue, q, n)
              <=> f = [k \in 0..n |-> IF k = 0 THEN base ELSE MatchQuote(f[k - 1], queue[k], q)]
<1>1. ASSUME NEW v, NEW k
      PROVE  With(v, LAMBDA r : MatchQuote(r, queue[k], q)) = MatchQuote(v, queue[k], q)
  BY DEF With
<1> QED
  BY <1>1, Zenon DEF Matching

LEMMA MatchingExists ==
    ASSUME NEW base, NEW queue, NEW q, NEW n \in Nat
    PROVE  \E f : Matching(f, base, queue, q, n)
<1> DEFINE B == {m \in Nat : ~\E f : Matching(f, base, queue, q, m)}
<1>1. B = {}
  <2> SUFFICES ASSUME B # {} PROVE FALSE
    OBVIOUS
  <2>1. PICK m \in B : \A l \in B : ~(l < m)
    <3>1. B \in SUBSET Nat
      OBVIOUS
    <3> HIDE DEF B
    <3> QED
      BY <3>1, FirstOf
  <2>2. CASE m = 0
    <3>1. PICK f : f = [k \in 0..0 |-> base]
      OBVIOUS
    <3>2. f = [k \in 0..0 |-> IF k = 0 THEN base ELSE MatchQuote(f[k - 1], queue[k], q)]
      BY <3>1
    <3>3. Matching(f, base, queue, q, 0)
      BY <3>2, QuoteLoopIs
    <3> QED
      BY <2>1, <2>2, <3>3
  <2>3. CASE m # 0
    <3>1. m - 1 \in Nat /\ m - 1 \notin B
      BY <2>1, <2>3
    <3>2. PICK f : Matching(f, base, queue, q, m - 1)
      BY <3>1
    <3>3. PICK g : g = [k \in 0..m |-> IF k = m THEN MatchQuote(f[m - 1], queue[m], q) ELSE f[k]]
      OBVIOUS
    <3>4. \A k \in 0..m : g[k] = IF k = 0 THEN base ELSE MatchQuote(g[k - 1], queue[k], q)
      <4> SUFFICES ASSUME NEW k \in 0..m
                   PROVE  g[k] = IF k = 0 THEN base ELSE MatchQuote(g[k - 1], queue[k], q)
        OBVIOUS
      <4>1. CASE k = m
        <5>1. m - 1 \in 0..m /\ m - 1 # m /\ m \in 0..m
          BY <3>1
        <5>2. g[m - 1] = f[m - 1] /\ g[m] = MatchQuote(f[m - 1], queue[m], q)
          BY <3>3, <5>1
        <5> QED
          BY <2>3, <4>1, <5>2
      <4>2. CASE k # m
        <5>1. k \in 0..(m - 1)
          BY <3>1, <4>2
        <5>2. g[k] = f[k] /\ (k # 0 => k - 1 \in 0..(m - 1) /\ k - 1 # m /\ g[k - 1] = f[k - 1])
          BY <3>1, <3>3, <5>1
        <5>3. f[k] = IF k = 0 THEN base ELSE MatchQuote(f[k - 1], queue[k], q)
          BY <3>2, <5>1, QuoteLoopIs
        <5> QED
          BY <5>2, <5>3
      <4> QED
        BY <4>1, <4>2
    <3>5. Matching(g, base, queue, q, m)
      BY <3>3, <3>4, QuoteLoopIs
    <3> QED
      BY <2>1, <3>5
  <2> QED
    BY <2>2, <2>3
<1> QED
  BY <1>1

PairHasLog(r) == {"s", "budget"} \subseteq DOMAIN r /\ HasLog(r.s)

LEMMA MatchQuoteLog ==
    ASSUME NEW r, NEW i, NEW q, PairHasLog(r) PROVE PairHasLog(MatchQuote(r, i, q))
<1>1. \A t : HasLog(t) => PairHasLog([r EXCEPT !.s = t])
  BY DEF PairHasLog
<1>2. \A e : HasLog(AppendEvent(r.s, i, e)) /\ HasLog(Raise(r.s))
  BY AppendEventLog, RaiseLog DEF PairHasLog
<1>3. PICK o, b, n : o = r.s.orders[i] /\ b = r.budget[o.leg] /\ n = Fillable(o, q, b)
  OBVIOUS
<1>4. \/ MatchQuote(r, i, q) = r
      \/ MatchQuote(r, i, q) = [r EXCEPT !.s = Raise(r.s)]
      \/ \E e : MatchQuote(r, i, q) = [r EXCEPT !.s = AppendEvent(r.s, i, e)]
      \/ \E e, d : MatchQuote(r, i, q)
                      = [[r EXCEPT !.s = AppendEvent(r.s, i, e)] EXCEPT !.budget = d]
  BY <1>3 DEF MatchQuote
<1>5. \A t, d : PairHasLog(t) => PairHasLog([t EXCEPT !.budget = d])
  BY DEF PairHasLog
<1>6. CASE \E e : MatchQuote(r, i, q) = [r EXCEPT !.s = AppendEvent(r.s, i, e)]
  BY <1>1, <1>2, <1>6
<1>7. CASE \E e, d : MatchQuote(r, i, q)
                      = [[r EXCEPT !.s = AppendEvent(r.s, i, e)] EXCEPT !.budget = d]
  <2>1. PICK e, d : MatchQuote(r, i, q)
                      = [[r EXCEPT !.s = AppendEvent(r.s, i, e)] EXCEPT !.budget = d]
    BY <1>7
  <2>2. PairHasLog([r EXCEPT !.s = AppendEvent(r.s, i, e)])
    BY <1>1, <1>2
  <2> QED
    BY <1>5, <2>1, <2>2, ZenonT(60)
<1>8. CASE MatchQuote(r, i, q) \in {r, [r EXCEPT !.s = Raise(r.s)]}
  BY <1>1, <1>2, <1>8
<1> QED
  BY <1>4, <1>6, <1>7, <1>8

LEMMA MatchingLog ==
    ASSUME NEW base, NEW queue, NEW q, NEW n \in Nat, NEW f,
           Matching(f, base, queue, q, n), PairHasLog(base)
    PROVE  PairHasLog(f[n])
<1> DEFINE B == {m \in 0..n : ~PairHasLog(f[m])}
<1>1. B = {}
  <2> SUFFICES ASSUME B # {} PROVE FALSE
    OBVIOUS
  <2>1. PICK m \in B : \A l \in B : ~(l < m)
    <3>1. B \in SUBSET Nat
      OBVIOUS
    <3> HIDE DEF B
    <3> QED
      BY <3>1, FirstOf
  <2>2. m # 0
    BY <2>1, QuoteLoopIs
  <2>3. m - 1 \in 0..n /\ PairHasLog(f[m - 1])
    BY <2>1, <2>2
  <2>4. f[m] = MatchQuote(f[m - 1], queue[m], q)
    BY <2>1, <2>2, QuoteLoopIs
  <2>5. PairHasLog(f[m])
    BY <2>3, <2>4, MatchQuoteLog
  <2> QED
    BY <2>1, <2>5
<1> QED
  BY <1>1

LEMMA QueueIsFinite == ASSUME NEW s, NEW q, HasLog(s) PROVE Len(Queue(s, q)) \in Nat
<1> DEFINE S == {i \in DOMAIN s.orders : s.orders[i].sym = q.sym /\ s.orders[i].created <= q.observed}
<1>1. PICK n \in Nat : DOMAIN s.orders = 1..n
  BY DEF HasLog, SomeSeq
<1>2. IsFiniteSet(1..n)
  BY FS_Interval
<1>3. IsFiniteSet(S)
  BY <1>1, <1>2, FS_Subset
<1>4. Cardinality(S) \in Nat
  BY <1>3, FS_CardinalityType
<1>5. PICK m \in Nat : m = Cardinality(S)
  BY <1>4
<1>6. PICK Q : Q = Queue(s, q)
  OBVIOUS
<1>7. Q = [k \in 1..m |-> CHOOSE i \in S : Cardinality({j \in S : Precedes(s, j, i)}) = k - 1]
  BY <1>5, <1>6 DEF Queue
<1>8. Q \in [1..m -> {Q[k] : k \in 1..m}]
  BY <1>7
<1>9. Q \in Seq({Q[k] : k \in 1..m})
  BY <1>8
<1> QED
  BY <1>6, <1>9

LEMMA ProcessQuoteLog ==
    ASSUME NEW s, NEW q, HasLog(s) PROVE HasLog(ProcessQuote(s, q))
<1> DEFINE base == [s |-> s, budget |-> Budget(s.cursor[q.sym], q)]
<1> DEFINE queue == Queue(s, q)
           n == Len(queue)
<1>1. n \in Nat
  BY QueueIsFinite
<1>2. PICK f : f = CHOOSE g : Matching(g, base, queue, q, n)
  OBVIOUS
<1>3. Matching(f, base, queue, q, n)
  BY <1>1, <1>2, MatchingExists
<1>4. PairHasLog(base)
  BY DEF PairHasLog
<1>5. HasLog(f[n].s)
  <2> HIDE DEF base
  <2> QED
    BY <1>1, <1>3, <1>4, MatchingLog DEF PairHasLog
<1>6. \/ ProcessQuote(s, q) = s
      \/ ProcessQuote(s, q) = Raise(s)
      \/ ProcessQuote(s, q) = Finish(s, [f[n].s EXCEPT !.cursor[q.sym] = q])
  BY <1>1, <1>2 DEF ProcessQuote, Loop, Matching
<1>7. HasLog([f[n].s EXCEPT !.cursor[q.sym] = q])
  BY <1>5 DEF HasLog
<1> QED
  BY <1>6, <1>7, RaiseLog, FinishLog

LEMMA TransitionLog ==
    ASSUME NEW s, NEW c, IsCommand(c), HasLog(s) PROVE HasLog(Transition(s, c))
<1>1. \A a, q, l : HasLog(SubmitEntry(s, a, q, l))
  BY AcceptedLog, FinishLog, RaiseLog DEF SubmitEntry
<1>2. \A i, q : HasLog(SubmitExit(s, i, q))
  BY AcceptedLog, FinishLog, RaiseLog DEF SubmitExit
<1>3. \A i, at : HasLog(CancelOrder(s, i, at))
  BY AppendEventLog, FinishLog, RaiseLog DEF CancelOrder
<1>4. \A q : HasLog(ProcessQuote(s, q))
  BY ProcessQuoteLog
<1>5. \A at : HasLog(AdvanceClock(s, at))
  BY AdvanceClockLog
<1>6. \/ c.kind = "entry" \/ c.kind = "exit" \/ c.kind = "quote"
      \/ c.kind = "clock" \/ c.kind = "cancel"
  BY DEF IsCommand, EntryCommands, ExitCommands, QuoteCommands, ClockCommands, CancelCommands
<1>7. CASE c.kind = "entry"
  BY <1>1, <1>7 DEF Transition
<1>8. CASE c.kind = "exit"
  BY <1>2, <1>8 DEF Transition
<1>9. CASE c.kind = "quote"
  BY <1>4, <1>9 DEF Transition
<1>10. CASE c.kind = "clock"
  BY <1>5, <1>10 DEF Transition
<1>11. CASE c.kind = "cancel"
  BY <1>3, <1>11 DEF Transition
<1> QED
  BY <1>6, <1>7, <1>8, <1>9, <1>10, <1>11

LEMMA EmptySessionLog == HasLog(EmptySession) /\ EmptySession.ops = <<>>
<1>1. <<>> \in Seq({})
  OBVIOUS
<1>2. EmptySession.ops = <<>> /\ EmptySession.orders = <<>>
      /\ {"ops", "orders"} \subseteq DOMAIN EmptySession
  BY DEF EmptySession
<1> QED
  BY <1>1, <1>2 DEF HasLog, SomeSeq

\* Sequences that extend one another.
LEMMA PrefixOfItself == ASSUME NEW x, SomeSeq(x) PROVE Prefix(x, x)
<1>1. PICK S : x \in Seq(S)
  BY DEF SomeSeq
<1> QED
  BY <1>1, SubSeqFull DEF Prefix

LEMMA PrefixOfPrefix ==
    ASSUME NEW x, NEW y, NEW z, SomeSeq(x), SomeSeq(y), SomeSeq(z), Prefix(x, y), Prefix(y, z)
    PROVE  Prefix(x, z)
<1>1. PICK S : z \in Seq(S)
  BY DEF SomeSeq
<1>2. /\ Len(x) \in Nat /\ Len(y) \in Nat /\ Len(z) \in Nat
      /\ x \in [1..Len(x) -> Range(x)] /\ y \in [1..Len(y) -> Range(y)]
      /\ z \in [1..Len(z) -> S]
  BY <1>1 DEF SomeSeq, Range
<1>3. \A i \in 1..Len(y) : SubSeq(z, 1, Len(y))[i] = z[i]
  BY <1>1, <1>2 DEF Prefix
<1>4. \A i \in 1..Len(x) : SubSeq(y, 1, Len(x))[i] = y[i]
  BY <1>2 DEF Prefix, SomeSeq
<1>5. \A i \in 1..Len(x) : x[i] = z[i]
  BY <1>2, <1>3, <1>4 DEF Prefix
<1>6. SubSeq(z, 1, Len(x)) = [i \in 1..Len(x) |-> z[i]]
  BY <1>1, <1>2 DEF Prefix
<1>7. SubSeq(z, 1, Len(x)) = x
  BY <1>2, <1>5, <1>6
<1> QED
  BY <1>2, <1>7 DEF Prefix

LEMMA Splice ==
    ASSUME NEW x, NEW y, SomeSeq(x), SomeSeq(y), Prefix(x, y)
    PROVE  x \o SubSeq(y, Len(x) + 1, Len(y)) = y
<1>1. PICK S : y \in Seq(S)
  BY DEF SomeSeq
<1>2. Len(x) \in Nat /\ Len(y) \in Nat
  BY <1>1 DEF SomeSeq
<1>a. /\ 1 \in 1..Len(y) + 1 /\ Len(x) \in 1 - 1..Len(y) /\ Len(y) \in Len(x)..Len(y)
  BY <1>2 DEF Prefix
<1>3. SubSeq(y, 1, Len(x)) \o SubSeq(y, Len(x) + 1, Len(y)) = SubSeq(y, 1, Len(y))
  BY <1>1, <1>a, ConcatAdjacentSubSeq
<1> QED
  BY <1>1, <1>3, SubSeqFull DEF Prefix

\* A worker between its steps: what it loaded is what the log began with, what
\* it would commit extends it, and nothing is acknowledged before it returns.
WorkerLog(v) ==
    /\ v.pc \in {"log", "commit"} => HasLog(v.prev) /\ Prefix(v.prev.ops, log[v.account])
    /\ v.pc = "commit" => HasLog(v.new) /\ Prefix(v.prev.ops, v.new.ops)
    /\ v.pc # "idle" => ~v.acked

LogInv ==
    /\ RuntimeInv
    /\ log = [a \in Accounts |-> log[a]]
    /\ LogMatchesCheckpoint
    /\ \A a \in Accounts : rows[a] # NoRow => HasLog(rows[a])
    /\ \A w \in Workers : WorkerLog(worker[w])

LEMMA IdleLog == ASSUME NEW a, NEW e, NEW k PROVE WorkerLog(Idle(a, e, k))
BY DEF WorkerLog, Idle

LEMMA LogIsASeq == ASSUME LogInv, NEW a \in Accounts PROVE SomeSeq(log[a])
<1>1. CASE rows[a] = NoRow
  <2>1. <<>> \in Seq({})
    OBVIOUS
  <2> QED
    BY <1>1, <2>1 DEF LogInv, LogMatchesCheckpoint, SomeSeq
<1>2. CASE rows[a] # NoRow
  BY <1>2 DEF LogInv, LogMatchesCheckpoint, HasLog
<1> QED
  BY <1>1, <1>2

LEMMA InitLogInv == Init => LogInv
<1> SUFFICES ASSUME Init PROVE LogInv
  OBVIOUS
<1>1. RuntimeInv
  BY InitInv
<1>2. PICK account \in [Workers -> Accounts], enabled \in [Workers -> BOOLEAN] :
         worker = [w \in Workers |-> Idle(account[w], enabled[w], FALSE)]
  BY DEF Init
<1>3. \A w \in Workers : WorkerLog(worker[w])
  BY <1>2, IdleLog
<1> QED
  BY <1>1, <1>3 DEF Init, LogInv, LogMatchesCheckpoint

\* Steps that leave the log alone and change one worker.
LEMMA OneWorkerLog ==
    ASSUME LogInv, RuntimeInv', NEW w \in Workers, NEW v, WorkerLog(v),
           worker' = [worker EXCEPT ![w] = v], UNCHANGED <<rows, log>>
    PROVE  LogInv'
<1>1. \A u \in Workers : worker'[u] = IF u = w THEN v ELSE worker[u]
  BY DEF LogInv, RuntimeInv
<1>2. \A u \in Workers : WorkerLog(worker'[u])
  BY <1>1 DEF LogInv
<1>3. \A u \in Workers : WorkerLog(worker[u])'
  BY <1>2 DEF WorkerLog
<1> QED
  BY <1>3 DEF LogInv, LogMatchesCheckpoint

LEMMA ReturnLog ==
    ASSUME LogInv, RuntimeInv', NEW w \in Workers, NEW k, Return(w, k), UNCHANGED <<rows, log>>
    PROVE  LogInv'
<1>1. PICK v : v = Idle(worker[w].account, worker[w].enabled, k)
  OBVIOUS
<1>2. worker' = [worker EXCEPT ![w] = v]
  BY <1>1 DEF Return
<1> QED
  BY <1>1, <1>2, IdleLog, OneWorkerLog

LEMMA InitializeLog ==
    ASSUME LogInv, RuntimeInv', NEW w \in Workers, Initialize(w)
    PROVE  LogInv'
<1>1. CASE UNCHANGED rows
  BY <1>1, ReturnLog DEF Initialize
<1>2. CASE /\ rows' = [rows EXCEPT ![worker[w].account] = EmptySession]
           /\ \A a \in Accounts : rows[a] = NoRow
  <2>1. PICK v : v = Idle(worker[w].account, worker[w].enabled, FALSE)
    OBVIOUS
  <2>2. worker' = [worker EXCEPT ![w] = v] /\ UNCHANGED log
    BY <2>1 DEF Return, Initialize
  <2>3. \A u \in Workers : worker'[u] = IF u = w THEN v ELSE worker[u]
    BY <2>2 DEF LogInv, RuntimeInv
  <2>4. \A u \in Workers : WorkerLog(worker'[u])
    BY <2>1, <2>3, IdleLog, ZenonT(60) DEF LogInv
  <2>5. \A u \in Workers : WorkerLog(worker[u])'
    BY <2>2, <2>4 DEF WorkerLog
  <2>6. \A a \in Accounts : log'[a] = <<>> /\ rows'[a] \in {NoRow, EmptySession}
    BY <1>2, <2>2 DEF LogInv, LogMatchesCheckpoint, RuntimeInv
  <2>7. LogMatchesCheckpoint'
    BY <2>6, EmptySessionLog, EmptyIsARow DEF LogMatchesCheckpoint
  <2>8. \A a \in Accounts : rows'[a] # NoRow => HasLog(rows'[a])
    BY <2>6, EmptySessionLog
  <2>9. (log = [a \in Accounts |-> log[a]])'
    BY <2>2 DEF LogInv
  <2> QED
    BY <2>5, <2>7, <2>8, <2>9 DEF LogInv
<1> QED
  BY <1>1, <1>2 DEF Initialize

LEMMA IssueLog ==
    ASSUME LogInv, RuntimeInv', NEW w \in Workers, NEW c, Issue(w, c)
    PROVE  LogInv'
<1>1. PICK v : v = [worker[w] EXCEPT !.pc = "load", !.cmd = c, !.acked = FALSE]
  OBVIOUS
<1>2. worker' = [worker EXCEPT ![w] = v]
  BY <1>1 DEF Issue, LogInv, RuntimeInv
<1>3. v.pc = "load" /\ v.acked = FALSE
  BY <1>1 DEF LogInv, RuntimeInv, WorkerInv, IsWorker
<1>4. WorkerLog(v)
  BY <1>3 DEF WorkerLog
<1>5. UNCHANGED <<rows, log>>
  BY DEF Issue
<1> QED
  BY <1>2, <1>4, <1>5, OneWorkerLog

LEMMA LoadCheckpointLog ==
    ASSUME LogInv, RuntimeInv', NEW w \in Workers, LoadCheckpoint(w)
    PROVE  LogInv'
<1>0. UNCHANGED <<rows, log>> /\ worker[w].pc = "load"
  BY DEF LoadCheckpoint
<1>1. CASE Row(w) = NoRow
  BY <1>0, <1>1, ReturnLog DEF LoadCheckpoint
<1>2. CASE Row(w) # NoRow
  <2>1. PICK v : v = [worker[w] EXCEPT !.pc = "log", !.prev = Row(w)]
    OBVIOUS
  <2>2. worker' = [worker EXCEPT ![w] = v]
    BY <1>2, <2>1 DEF LoadCheckpoint, LogInv, RuntimeInv
  <2>3. /\ v.pc = "log" /\ v.prev = Row(w) /\ v.account = worker[w].account
        /\ v.acked = worker[w].acked
    BY <2>1 DEF LogInv, RuntimeInv, WorkerInv, IsWorker
  <2>4. worker[w].account \in Accounts /\ ~worker[w].acked
    BY <1>0, AccountOf DEF LogInv, WorkerLog
  <2>5. HasLog(Row(w)) /\ log[v.account] = Row(w).ops
    BY <1>2, <2>3, <2>4 DEF LogInv, LogMatchesCheckpoint, Row
  <2>6. WorkerLog(v)
    BY <2>3, <2>4, <2>5, PrefixOfItself DEF WorkerLog, HasLog
  <2> QED
    BY <1>0, <2>2, <2>6, OneWorkerLog
<1> QED
  BY <1>1, <1>2

LEMMA LoadLogLog ==
    ASSUME LogInv, RuntimeInv', NEW w \in Workers, LoadLog(w)
    PROVE  LogInv'
<1>1. PICK s, c, next : s = worker[w].prev /\ c = worker[w].cmd /\ next = Transition(s, c)
  OBVIOUS
<1>2. /\ worker[w].pc = "log"
      /\ UNCHANGED <<rows, log>>
      /\ \/ Return(w, FALSE)
         \/ /\ Committable(s, next)
            /\ worker' = [worker EXCEPT ![w].pc = "commit", ![w].new = next]
  BY <1>1 DEF LoadLog
<1>3. CASE Return(w, FALSE)
  BY <1>2, <1>3, ReturnLog
<1>4. CASE /\ Committable(s, next)
           /\ worker' = [worker EXCEPT ![w].pc = "commit", ![w].new = next]
  <2>1. PICK v : v = [worker[w] EXCEPT !.pc = "commit", !.new = next]
    OBVIOUS
  <2>2. worker' = [worker EXCEPT ![w] = v]
    BY <1>4, <2>1 DEF LogInv, RuntimeInv
  <2>3. /\ v.pc = "commit" /\ v.prev = s /\ v.new = next /\ v.acked = worker[w].acked
        /\ v.account = worker[w].account
    BY <1>1, <2>1 DEF LogInv, RuntimeInv, WorkerInv, IsWorker
  <2>4. HasLog(s) /\ Prefix(s.ops, log[v.account]) /\ ~v.acked
    BY <1>1, <1>2, <2>3 DEF LogInv, WorkerLog
  <2>5. IsCommand(c)
    BY <1>1, <1>2 DEF LogInv, RuntimeInv, WorkerInv
  <2>6. HasLog(next)
    BY <1>1, <2>4, <2>5, TransitionLog
  <2>7. WorkerLog(v)
    BY <1>4, <2>3, <2>4, <2>6 DEF WorkerLog, Committable
  <2> QED
    BY <1>2, <2>2, <2>7, OneWorkerLog
<1> QED
  BY <1>2, <1>3, <1>4

\* The committed operations are the log the transition was computed from and
\* the new ones: exactly the new checkpoint's.
LEMMA SwapAppends ==
    ASSUME LogInv, NEW w \in Workers, Swap(w)
    PROVE  /\ worker[w].account \in Accounts
           /\ log' = [log EXCEPT ![worker[w].account] = worker[w].new.ops]
           /\ rows' = [rows EXCEPT ![worker[w].account] = worker[w].new]
           /\ HasLog(worker[w].new) /\ worker[w].new # NoRow
           /\ Prefix(log[worker[w].account], worker[w].new.ops)
<1>1. PICK a, x, y : a = worker[w].account /\ x = worker[w].prev.ops /\ y = worker[w].new.ops
  OBVIOUS
<1>2. /\ worker[w].pc = "commit" /\ rows[a] = worker[w].prev
      /\ rows' = [rows EXCEPT ![a] = worker[w].new]
      /\ log' = [log EXCEPT ![a] = log[a] \o SubSeq(y, Len(x) + 1, Len(y))]
  BY <1>1 DEF Swap
<1>3. a \in Accounts /\ worker[w].prev # NoRow /\ worker[w].new # NoRow
  BY <1>1, SwapRows, AccountOf DEF LogInv
<1>4. SomeSeq(x) /\ SomeSeq(y) /\ Prefix(x, y) /\ HasLog(worker[w].new)
  BY <1>1, <1>2 DEF LogInv, WorkerLog, HasLog
<1>5. log[a] = x
  BY <1>1, <1>2, <1>3 DEF LogInv, LogMatchesCheckpoint
<1>6. log[a] \o SubSeq(y, Len(x) + 1, Len(y)) = y
  BY <1>4, <1>5, Splice
<1> QED
  BY <1>1, <1>2, <1>3, <1>4, <1>5, <1>6

LEMMA SwapLog ==
    ASSUME LogInv, RuntimeInv', NEW w \in Workers, Swap(w),
           Return(w, TRUE) \/ Return(w, FALSE) \/ UNCHANGED worker
    PROVE  LogInv'
<1>1. PICK a, new : a = worker[w].account /\ new = worker[w].new
  OBVIOUS
<1>2. /\ a \in Accounts /\ HasLog(new) /\ new # NoRow /\ Prefix(log[a], new.ops)
      /\ log' = [log EXCEPT ![a] = new.ops] /\ rows' = [rows EXCEPT ![a] = new]
  BY <1>1, SwapAppends
<1>3. \A b \in Accounts : /\ log'[b] = IF b = a THEN new.ops ELSE log[b]
                          /\ rows'[b] = IF b = a THEN new ELSE rows[b]
  BY <1>2 DEF LogInv, RuntimeInv
<1>4. (log = [b \in Accounts |-> log[b]])'
  BY <1>2 DEF LogInv
<1>5. LogMatchesCheckpoint'
  BY <1>2, <1>3 DEF LogInv, LogMatchesCheckpoint
<1>6. \A b \in Accounts : rows'[b] # NoRow => HasLog(rows'[b])
  BY <1>2, <1>3 DEF LogInv
<1>7. \A u \in Workers : WorkerLog(worker[u])'
  <2> SUFFICES ASSUME NEW u \in Workers PROVE WorkerLog(worker[u])'
    OBVIOUS
  <2>1. CASE u = w /\ (Return(w, TRUE) \/ Return(w, FALSE))
    <3>1. PICK v : v = worker'[w]
      OBVIOUS
    <3>2. PICK k \in BOOLEAN : v = Idle(a, worker[w].enabled, k)
      BY <1>1, <2>1, <3>1 DEF Return, LogInv, RuntimeInv
    <3>3. v.pc = "idle"
      BY <3>2 DEF Idle
    <3> QED
      BY <2>1, <3>1, <3>3 DEF WorkerLog
  <2>2. CASE worker'[u] = worker[u]
    <3>1. PICK v : v = worker[u] /\ v = worker'[u]
      BY <2>2
    <3>2. v.account \in Accounts /\ WorkerLog(v)
      BY <3>1, AccountOf DEF LogInv
    <3>3. ASSUME v.pc \in {"log", "commit"} PROVE Prefix(v.prev.ops, log'[v.account])
      <4>1. Prefix(v.prev.ops, log[v.account]) /\ SomeSeq(v.prev.ops)
        BY <3>2, <3>3 DEF WorkerLog, HasLog
      <4>2. CASE v.account = a
        <5>1. SomeSeq(log[a]) /\ SomeSeq(new.ops)
          BY <1>2, LogIsASeq DEF HasLog
        <5> QED
          BY <1>2, <1>3, <4>1, <4>2, <5>1, PrefixOfPrefix
      <4>3. CASE v.account # a
        BY <1>3, <3>2, <4>1, <4>3
      <4> QED
        BY <4>2, <4>3
    <3> QED
      BY <3>1, <3>2, <3>3 DEF WorkerLog
  <2>3. worker'[u] = worker[u] \/ (u = w /\ (Return(w, TRUE) \/ Return(w, FALSE)))
    BY DEF Return, LogInv, RuntimeInv
  <2> QED
    BY <2>1, <2>2, <2>3
<1> QED
  BY <1>4, <1>5, <1>6, <1>7 DEF LogInv

LEMMA StepLogInv == LogInv /\ [Next]_vars => LogInv'
<1> SUFFICES ASSUME LogInv, [Next]_vars PROVE LogInv'
  OBVIOUS
<1>0. RuntimeInv'
  BY StepInv DEF LogInv
<1>1. CASE UNCHANGED vars
  BY <1>0, <1>1 DEF vars, LogInv, LogMatchesCheckpoint, WorkerLog
<1>2. CASE Next
  <2>1. PICK w \in Workers :
          Initialize(w) \/ IssueAny(w) \/ Step(w) \/ CommitUnanswered(w) \/ Crash(w)
    BY <1>2 DEF Next
  <2>2. CASE Initialize(w)
    BY <1>0, <2>2, InitializeLog
  <2>3. CASE IssueAny(w)
    <3>1. PICK c : Issue(w, c)
      BY <2>3 DEF IssueAny
    <3> QED
      BY <1>0, <3>1, IssueLog
  <2>4. CASE LoadCheckpoint(w)
    BY <1>0, <2>4, LoadCheckpointLog
  <2>5. CASE LoadLog(w)
    BY <1>0, <2>5, LoadLogLog
  <2>6. CASE Commit(w) \/ CommitUnanswered(w)
    BY <1>0, <2>6, SwapLog DEF Commit, CommitUnanswered
  <2>7. CASE CommitConflict(w)
    BY <1>0, <2>7, ReturnLog DEF CommitConflict
  <2>8. CASE Crash(w)
    <3>1. PICK e \in BOOLEAN :
             worker' = [worker EXCEPT ![w] = Idle(worker[w].account, e, FALSE)]
      BY <2>8 DEF Crash
    <3>2. PICK v : v = Idle(worker[w].account, e, FALSE)
      OBVIOUS
    <3>3. WorkerLog(v) /\ worker' = [worker EXCEPT ![w] = v] /\ UNCHANGED <<rows, log>>
      BY <2>8, <3>1, <3>2, IdleLog DEF Crash
    <3> QED
      BY <1>0, <3>3, OneWorkerLog
  <2> QED
    BY <2>1, <2>2, <2>3, <2>4, <2>5, <2>6, <2>7, <2>8 DEF Step
<1> QED
  BY <1>1, <1>2

LEMMA NeverTorn == LogInv => LoadNeverTorn
<1> SUFFICES ASSUME LogInv, NEW w \in Workers, worker[w].pc = "log"
             PROVE  LoggedFor(w) = worker[w].prev.ops
  BY DEF LoadNeverTorn
<1>1. PICK a, x : a = worker[w].account /\ x = worker[w].prev.ops
  OBVIOUS
<1>2. a \in Accounts /\ SomeSeq(x) /\ Prefix(x, log[a])
  BY <1>1, AccountOf DEF LogInv, WorkerLog, HasLog
<1>3. Len(x) \in Nat /\ Len(log[a]) \in Nat
  BY <1>2, LogIsASeq DEF SomeSeq
<1>4. (IF Len(x) < Len(log[a]) THEN Len(x) ELSE Len(log[a])) = Len(x)
  BY <1>2, <1>3 DEF Prefix
<1>5. LoggedFor(w) = SubSeq(log[a], 1, Len(x))
  BY <1>1, <1>4 DEF LoggedFor
<1> QED
  BY <1>1, <1>2, <1>5 DEF Prefix

\* To every reader the checkpoint and the operation log are one story: the log
\* is the checkpoint's operations, and a load whose two SELECTs straddle other
\* workers' commits still reads exactly the log of the row it began with (load, commit).
THEOREM Whole == Spec => []LogIsWhole
<1>1. LogInv => LogIsWhole
  BY NeverTorn DEF LogInv, LogIsWhole
<1> QED
  BY <1>1, InitLogInv, StepLogInv, PTL DEF Spec

LEMMA LogOnlyGrows ==
    ASSUME LogInv, [Next]_vars, NEW a \in Accounts PROVE Prefix(log[a], log'[a])
<1>1. CASE UNCHANGED log
  BY <1>1, LogIsASeq, PrefixOfItself
<1>2. ASSUME NEW w \in Workers, Swap(w) PROVE Prefix(log[a], log'[a])
  <2>1. CASE a = worker[w].account
    BY <1>2, <2>1, SwapAppends DEF LogInv
  <2>2. CASE a # worker[w].account
    <3>1. log'[a] = log[a]
      BY <1>2, <2>2, SwapAppends DEF LogInv
    <3> QED
      BY <3>1, LogIsASeq, PrefixOfItself
  <2> QED
    BY <2>1, <2>2
<1>3. UNCHANGED log \/ \E w \in Workers : Swap(w)
  BY DEF vars, Next, Initialize, IssueAny, Issue, Step, LoadCheckpoint, LoadLog, Commit,
         CommitConflict, CommitUnanswered, Crash
<1> QED
  BY <1>1, <1>2, <1>3

LEMMA AcknowledgedIsLogged ==
    ASSUME LogInv, [Next]_vars, NEW w \in Workers, worker[w].pc = "commit", worker'[w].acked
    PROVE  Prefix(worker[w].new.ops, log'[worker[w].account])
<1>1. PICK a, new : a = worker[w].account /\ new = worker[w].new
  OBVIOUS
<1>2. a \in Accounts /\ ~worker[w].acked /\ SomeSeq(new.ops)
  BY <1>1, AccountOf DEF LogInv, WorkerLog, HasLog
<1>3. CASE Swap(w)
  <2>1. log'[a] = new.ops
    BY <1>1, <1>3, SwapAppends DEF LogInv
  <2> QED
    BY <1>1, <1>2, <2>1, PrefixOfItself
<1>4. CASE Row(w) = new /\ UNCHANGED <<rows, log>>
  <2>1. worker[w].new # NoRow
    BY OkIsARow DEF LogInv, RuntimeInv, WorkerInv
  <2>2. log'[a] = new.ops
    BY <1>1, <1>2, <1>4, <2>1 DEF LogInv, LogMatchesCheckpoint, Row
  <2> QED
    BY <1>1, <1>2, <2>2, PrefixOfItself
<1>5. Swap(w) \/ (Row(w) = new /\ UNCHANGED <<rows, log>>)
  <2>1. worker' # worker
    BY <1>2
  <2>2. PICK u \in Workers :
          Initialize(u) \/ IssueAny(u) \/ Step(u) \/ CommitUnanswered(u) \/ Crash(u)
    BY <2>1 DEF Next, vars
  <2>3. u = w
    <3>1. \E v : worker' = [worker EXCEPT ![u] = v] \/ UNCHANGED worker
      <4>1. ASSUME NEW c, Issue(u, c) PROVE \E v : worker' = [worker EXCEPT ![u] = v]
        BY <4>1 DEF Issue, LogInv, RuntimeInv
      <4>2. ASSUME LoadCheckpoint(u) PROVE \E v : worker' = [worker EXCEPT ![u] = v]
        BY <4>2 DEF LoadCheckpoint, Return, LogInv, RuntimeInv
      <4>3. ASSUME LoadLog(u) PROVE \E v : worker' = [worker EXCEPT ![u] = v]
        BY <4>3 DEF LoadLog, Return, LogInv, RuntimeInv
      <4> QED
        BY <2>2, <4>1, <4>2, <4>3
           DEF Initialize, IssueAny, Step, Commit, CommitConflict, CommitUnanswered, Crash, Return
    <3> QED
      BY <1>2, <3>1 DEF LogInv, RuntimeInv
  <2>4. CASE CommitConflict(w)
    <3>1. PICK k : k = (Row(w) = new)
      OBVIOUS
    <3>2. worker'[w] = Idle(worker[w].account, worker[w].enabled, k)
      BY <1>1, <2>4, <3>1 DEF CommitConflict, Return, LogInv, RuntimeInv
    <3>3. k
      BY <3>2 DEF Idle
    <3> QED
      BY <2>4, <3>1, <3>3 DEF CommitConflict
  <2>5. CASE Crash(w)
    <3>1. PICK e : worker'[w] = Idle(worker[w].account, e, FALSE)
      BY <2>5 DEF Crash, LogInv, RuntimeInv
    <3> QED
      BY <3>1 DEF Idle
  <2> QED
    BY <2>2, <2>3, <2>4, <2>5
       DEF Initialize, IssueAny, Issue, Step, LoadCheckpoint, LoadLog, Commit, CommitUnanswered
<1> QED
  BY <1>3, <1>4, <1>5

\* A transition reported COMMITTED is in the log, also when the response was
\* lost and a retry or a conflicting worker found it there, and the log only
\* ever grows (PaperRuntime._run, commit).
THEOREM Durable == Spec => AcknowledgedIsDurable
<1>1. LogInv /\ [Next]_vars
        => [/\ \A a \in Accounts : Prefix(log[a], log'[a])
            /\ \A w \in Workers :
                  worker[w].pc = "commit" /\ worker'[w].acked
                  => Prefix(worker[w].new.ops, log'[worker[w].account])]_vars
  BY LogOnlyGrows, AcknowledgedIsLogged
<1> QED
  BY <1>1, InitLogInv, StepLogInv, PTL DEF Spec, AcknowledgedIsDurable
=============================================================================
