----------------------------- MODULE PaperSession -----------------------------
(***************************************************************************)
(* The transitions of a paper session (execution/runtime.py), the planner  *)
(* (execution/engine.py) and the top-of-book matcher                       *)
(* (execution/matching.py) as functions from a session to a session.  A    *)
(* transition that raises returns a session whose `ok' is FALSE.           *)
(*                                                                         *)
(* The configured policy is in effect and the lineage checks of            *)
(* submit_entry hold: they compare identities of immutable records.        *)
(***************************************************************************)
EXTENDS PaperLedger, FiniteSets

CONSTANTS
    Arbs,            \* selected arbitrations a planner may submit
    ArbSymbol,       \* the candidate's symbol
    ArbPriority,     \* CandidateArbitration.priority
    ArbDigest,       \* order of the intents' sha256, the matcher's tie-break
    ExitFrom,        \* decision_at + horizon_seconds
    Quotes,          \* the PaperMarketSnapshots the callers hold
    FloorPrice, CeilingPrice, TickSize,
    OrderQuantity, LotSize, MaxQuoteAge, LimitOffset, TimeInForce,
    MaxCycleQuantity, MaxOrderNotional, MaxCycles, MaxDailyLoss, CashReserve,
    Times,           \* clock readings callers pass to clock and cancel
    MaxIntents       \* bound: intents in one session

\* PaperMarketSnapshot.validate_market and PaperExecutionVersion.validate_execution,
\* with the types and bounds the fields declare; callers hold quotes of the
\* account's symbols.
ASSUME PaperSessionAssumption ==
    /\ ArbSymbol \in [Arbs -> Symbols]
    /\ ArbPriority \in [Arbs -> Int] /\ ArbDigest \in [Arbs -> Int]
    /\ Quotes \subseteq [sym : Symbols, observed : Nat, received : Nat, sess : Nat, seq : Nat,
                         ask : Nat, askQty : Nat, bid : Nat, bidQty : Nat, tradable : BOOLEAN]
    /\ \A q \in Quotes :
          /\ q.received <= q.observed
          /\ FloorPrice <= q.bid /\ q.bid < q.ask /\ q.ask <= CeilingPrice
          /\ q.ask % TickSize = 0 /\ q.bid % TickSize = 0
          /\ q.askQty > 0 /\ q.bidQty > 0
    /\ OrderQuantity \in Nat \ {0} /\ OrderQuantity % LotSize = 0
    /\ TickSize \in Nat \ {0} /\ LotSize \in Nat \ {0} /\ CashReserve \in Nat
    /\ TimeInForce \in Nat \ {0} /\ LimitOffset \in Nat

NoQuote == [sym |-> "none"]

\* account.as_of is time 0.
EmptySession ==
    [ok |-> TRUE, rev |-> 0, ledger |-> InitialLedger, orders |-> <<>>, ops |-> <<>>,
     liquidity |-> [k \in {} |-> 0], lastAt |-> 0, cursor |-> [s \in Symbols |-> NoQuote]]

(***************************************************************************)
(* _append, together with the checks the replay in _finish makes of the    *)
(* appended operation.                                                     *)
(***************************************************************************)
\* op(v), evaluating v once.
With(v, op(_)) == CHOOSE r \in {op(x) : x \in {v}} : TRUE

\* A loop over 1..n from `base', in order.
Loop(op(_, _), base, n) ==
    LET after[k \in 0 .. n] == IF k = 0 THEN base
                               ELSE With(after[k - 1], LAMBDA r : op(r, k))
    IN  after[n]

Raise(s) == [s EXCEPT !.ok = FALSE]

Log(s, i, type, at) ==
    [s EXCEPT !.ops = Append(@, <<i, type, at>>), !.lastAt = at]

AppendIntent(s, o) ==
    LET fresh == \A i \in DOMAIN s.orders :
                    s.orders[i].leg = "ENTRY" => s.orders[i].arb # o.arb
        n == Len(s.orders) + 1
        can == IF o.leg = "ENTRY" THEN fresh /\ CanReserveEntry(s.ledger, o)
                                  ELSE CanReserveExit(s.ledger, o)
    IN  IF ~s.ok \/ o.created < s.lastAt \/ ~can THEN Raise(s)
        ELSE Log([s EXCEPT !.orders = Append(@, o),
                           !.ledger = IF o.leg = "ENTRY" THEN ReserveEntry(@, o)
                                                         ELSE ReserveExit(@, n, o)],
                 n, o.leg, o.created)

AppendReduced(s, i, e, o) ==
    IF CanDraw(s.liquidity, o, e) /\ (Live(o) \/ Settleable(s.ledger, i, o))
    THEN Log([s EXCEPT !.orders[i] = o,
                       !.ledger = IF Live(o) THEN @ ELSE Settle(@, i, o),
                       !.liquidity = Draw(@, o, e)],
             i, e.type, e.at)
    ELSE Raise(s)

AppendEvent(s, i, e) ==
    IF s.ok /\ e.at >= s.lastAt /\ CanReduce(s.orders[i], e)
    THEN With(Reduce(s.orders[i], e), LAMBDA o : AppendReduced(s, i, e, o))
    ELSE Raise(s)

\* lifecycle_event without a fill.
Event(type, at) == [type |-> type, at |-> at, inc |-> 0, price |-> 0,
                    avail |-> 0, pos |-> NoFill]

\* _finish: an unchanged session keeps its revision.
Finish(previous, current) ==
    With(current, LAMBDA c : IF c = previous \/ ~c.ok THEN c
                             ELSE [c EXCEPT !.rev = previous.rev + 1])

(***************************************************************************)
(* The planner.                                                            *)
(***************************************************************************)
Fresh(q) == q.observed - q.received <= MaxQuoteAge

EntryLimit(q) == q.ask + TickSize * LimitOffset
ExitLimit(q) == q.bid - TickSize * LimitOffset
InBand(price) == FloorPrice <= price /\ price <= CeilingPrice

\* Mutant: the order's own cost is not held against the reserve.
EntryPlannedIntoReserve(l, a, q) ==
    LET notional == EntryLimit(q) * OrderQuantity IN
    /\ q.tradable
    /\ Fresh(q)
    /\ q.askQty >= OrderQuantity
    /\ InBand(EntryLimit(q))
    /\ l.pos[ArbSymbol[a]] >= OrderQuantity
    /\ OrderQuantity <= MaxCycleQuantity
    /\ notional <= MaxOrderNotional
    /\ l.cycles < MaxCycles
    /\ l.pnl > -MaxDailyLoss
    /\ l.cash >= CashReserve

EntryPlanned(l, a, q) ==
    LET notional == EntryLimit(q) * OrderQuantity IN
    /\ q.tradable
    /\ Fresh(q)
    /\ q.askQty >= OrderQuantity
    /\ InBand(EntryLimit(q))
    /\ l.pos[ArbSymbol[a]] >= OrderQuantity
    /\ OrderQuantity <= MaxCycleQuantity
    /\ notional <= MaxOrderNotional
    /\ l.cycles < MaxCycles
    /\ l.pnl > -MaxDailyLoss
    /\ l.cash - BuyCost(notional) >= CashReserve

EntryIntent(a, q) ==
    NewOrder("ENTRY", a, 0, ArbSymbol[a], OrderQuantity, EntryLimit(q),
             BuyCost(EntryLimit(q) * OrderQuantity), q.observed,
             q.observed + TimeInForce)

\* Mutant: the exit horizon is not checked.
ExitPlannedEarly(s, i, q) ==
    /\ ~Live(s.orders[i])
    /\ q.tradable
    /\ Fresh(q)
    /\ q.bidQty >= s.ledger.res[i].qty
    /\ InBand(ExitLimit(q))

ExitPlanned(s, i, q) ==
    /\ ~Live(s.orders[i])
    /\ q.observed >= ExitFrom[s.orders[i].arb]
    /\ q.tradable
    /\ Fresh(q)
    /\ q.bidQty >= s.ledger.res[i].qty
    /\ InBand(ExitLimit(q))

ExitIntent(s, i, q) ==
    NewOrder("EXIT", s.orders[i].arb, i, s.orders[i].sym, s.ledger.res[i].qty,
             ExitLimit(q), 0, q.observed, q.observed + TimeInForce)

(***************************************************************************)
(* The commands.                                                           *)
(***************************************************************************)
Accepted(s, o) ==
    With(AppendIntent(s, o), LAMBDA r :
         AppendEvent(r, Len(s.orders) + 1, Event("ACCEPTED", o.created)))

\* Mutant: the planned resources are not compared with the current ledger.
SubmitEntryStale(s, a, q, resources) ==
    IF \E i \in DOMAIN s.orders : s.orders[i].leg = "ENTRY" /\ s.orders[i].arb = a
    THEN s
    ELSE IF ~EntryPlanned(resources, a, q) THEN Raise(s)
    ELSE Finish(s, Accepted(s, EntryIntent(a, q)))

\* `resources' is the ledger the caller planned against.
SubmitEntry(s, a, q, resources) ==
    IF \E i \in DOMAIN s.orders : s.orders[i].leg = "ENTRY" /\ s.orders[i].arb = a
    THEN s
    ELSE IF resources # s.ledger \/ ~EntryPlanned(resources, a, q) THEN Raise(s)
    ELSE Finish(s, Accepted(s, EntryIntent(a, q)))

SubmitExit(s, i, q) ==
    IF i \notin DOMAIN s.orders THEN Raise(s)
    ELSE IF s.ledger.res[i].status # "OPEN" THEN s
    ELSE IF s.orders[i].sym # q.sym \/ ~ExitPlanned(s, i, q) THEN Raise(s)
    ELSE Finish(s, Accepted(s, ExitIntent(s, i, q)))
\* Mutant: the clock overlooks orders that are partly filled or accepted.
AdvanceClockCreatedOnly(s, at) ==
    LET expire(r, i) == IF r.orders[i].status = "CREATED" /\ at >= r.orders[i].expires
                        THEN AppendEvent(r, i, Event("EXPIRED", at)) ELSE r
    IN  Finish(s, Loop(expire, s, Len(s.orders)))

AdvanceClock(s, at) ==
    LET expire(r, i) == IF Live(r.orders[i]) /\ at >= r.orders[i].expires
                        THEN AppendEvent(r, i, Event("EXPIRED", at)) ELSE r
    IN  Finish(s, Loop(expire, s, Len(s.orders)))

CancelOrder(s, i, at) ==
    IF i \notin DOMAIN s.orders THEN Raise(s)
    ELSE IF ~Live(s.orders[i]) THEN s
    ELSE Finish(s, AppendEvent(s, i, Event("CANCELLED", at)))

(***************************************************************************)
(* process_quote.  `r' is the pair of the session so far and the quote's   *)
(* remaining budgets per leg.                                              *)
(***************************************************************************)
CursorConflict(p, q) ==
    \/ p.sess = q.sess /\ p.seq >= q.seq
    \/ q.received < p.received
    \/ q.observed < p.observed

\* An unchanged book on a later callback does not prove replenished liquidity.
Delta(qty, previous) == IF qty > previous THEN qty - previous ELSE 0
\* Mutant: an unchanged book is taken as fresh liquidity.
BudgetReplenished(p, q) == [ENTRY |-> q.askQty, EXIT |-> q.bidQty]

Budget(p, q) ==
    [ENTRY |-> IF p # NoQuote /\ p.ask = q.ask THEN Delta(q.askQty, p.askQty) ELSE q.askQty,
     EXIT  |-> IF p # NoQuote /\ p.bid = q.bid THEN Delta(q.bidQty, p.bidQty) ELSE q.bidQty]

\* Mutant: the quote the order was planned from may fill it.
FillableLookahead(o, q, b) ==
    LET wanted == IF o.qty - o.filled < b THEN o.qty - o.filled ELSE b IN
    IF /\ q.received >= o.created
       /\ Fresh(q)
       /\ LimitRespected(o, IF o.leg = "ENTRY" THEN q.ask ELSE q.bid)
       /\ <<q.sess, q.seq>> \notin o.seen
    THEN (wanted \div LotSize) * LotSize
    ELSE 0

\* Whole lots the quote may fill of order `o' from budget `b'.
Fillable(o, q, b) ==
    LET wanted == IF o.qty - o.filled < b THEN o.qty - o.filled ELSE b IN
    IF /\ q.received > o.created
       /\ Fresh(q)
       /\ LimitRespected(o, IF o.leg = "ENTRY" THEN q.ask ELSE q.bid)
       /\ <<q.sess, q.seq>> \notin o.seen
    THEN (wanted \div LotSize) * LotSize
    ELSE 0

Fill(o, q, n, b) ==
    [type |-> IF o.filled + n = o.qty THEN "FILLED" ELSE "PARTIALLY_FILLED",
     at |-> q.observed, inc |-> n, avail |-> b,
     price |-> IF o.leg = "ENTRY" THEN q.ask ELSE q.bid,
     pos |-> <<q.received, q.sess, q.seq>>]

\* match_quote for order `i'.
MatchQuote(r, i, q) ==
    LET o == r.s.orders[i]
        b == r.budget[o.leg]
        n == Fillable(o, q, b)
        append(e) == [r EXCEPT !.s = AppendEvent(@, i, e)]
    IN  IF ~Live(o) THEN r
        ELSE IF q.observed < o.lastAt THEN [r EXCEPT !.s = Raise(@)]
        ELSE IF q.observed >= o.expires THEN append(Event("EXPIRED", q.observed))
        ELSE IF ~q.tradable THEN append(Event("CANCELLED", q.observed))
        ELSE IF n = 0 THEN r
        ELSE [append(Fill(o, q, n, b)) EXCEPT !.budget[o.leg] = @ - n]

\* The matcher's order of intents: priority, creation time, sha256.
Precedes(s, i, j) ==
    LET key(k) == <<ArbPriority[s.orders[k].arb], s.orders[k].created,
                    ArbDigest[s.orders[k].arb]>>
    IN  \/ Before(key(i), key(j))
        \/ key(i) = key(j) /\ i < j

\* Mutant: intents are matched in log order.
QueueByArrival(s, q) ==
    LET S == {i \in DOMAIN s.orders : s.orders[i].sym = q.sym /\ s.orders[i].created <= q.observed}
    IN  [k \in 1 .. Cardinality(S) |->
            CHOOSE i \in S : Cardinality({j \in S : j < i}) = k - 1]

\* The k-th eligible intent in that order.
Queue(s, q) ==
    LET S == {i \in DOMAIN s.orders : s.orders[i].sym = q.sym /\ s.orders[i].created <= q.observed}
    IN  [k \in 1 .. Cardinality(S) |->
            CHOOSE i \in S : Cardinality({j \in S : Precedes(s, j, i)}) = k - 1]

ProcessQuote(s, q) ==
    LET p == s.cursor[q.sym]
        queue == Queue(s, q)
        match(r, k) == MatchQuote(r, queue[k], q)
        matched == Loop(match, [s |-> s, budget |-> Budget(p, q)], Len(queue)).s
    IN  IF p = q THEN s
        ELSE IF p # NoQuote /\ CursorConflict(p, q) THEN Raise(s)
        ELSE Finish(s, [matched EXCEPT !.cursor[q.sym] = q])

(***************************************************************************)
(* PaperRuntime: the command dispatch.  A disabled runtime still runs the  *)
(* clock and cancellations.                                                *)
(***************************************************************************)
Transition(s, c) ==
    CASE c.kind = "entry"  -> SubmitEntry(s, c.arb, c.quote, c.resources)
      [] c.kind = "exit"   -> SubmitExit(s, c.order, c.quote)
      [] c.kind = "quote"  -> ProcessQuote(s, c.quote)
      [] c.kind = "clock"  -> AdvanceClock(s, c.at)
      [] c.kind = "cancel" -> CancelOrder(s, c.order, c.at)

Observes(c) == c.kind \in {"entry", "exit", "quote"}

\* PaperExecutionRequest.validate_request ties the market to the candidate.
ValidCommand(c) == c.kind = "entry" => c.quote.sym = ArbSymbol[c.arb]

WithinBound(s, c) == c.kind \in {"entry", "exit"} => Len(s.orders) < MaxIntents
Admissible(s, c) == ValidCommand(c) /\ WithinBound(s, c)

\* Commands the callers may issue; entries planned against the ledger `l'.
EntryCommands(l) ==
    {[kind |-> "entry", arb |-> a, quote |-> q, resources |-> l] :
        a \in Arbs, q \in Quotes}
ExitCommands == {[kind |-> "exit", order |-> i, quote |-> q] :
                    i \in 1 .. MaxIntents, q \in Quotes}
QuoteCommands == {[kind |-> "quote", quote |-> q] : q \in Quotes}
ClockCommands == {[kind |-> "clock", at |-> t] : t \in Times}
CancelCommands == {[kind |-> "cancel", order |-> i, at |-> t] :
                      i \in 1 .. MaxIntents, t \in Times}
Commands(s) == EntryCommands(s.ledger) \cup ExitCommands \cup QuoteCommands
                  \cup ClockCommands \cup CancelCommands
=============================================================================
