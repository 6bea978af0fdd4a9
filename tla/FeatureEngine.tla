--------------------------- MODULE FeatureEngine ---------------------------
(***************************************************************************)
(* features/engine.py and features/calculators.py: the incremental feature *)
(* state behind every decision clock, live and in replay.  The engine      *)
(* keeps, for each symbol, the events of one market session within the     *)
(* longest window; reset, prune and the stream-session switch decide what  *)
(* a later snapshot can still see.                                         *)
(***************************************************************************)
EXTENDS MarketState, Numeric, SequencesExt

CONSTANTS Windows,           \* features.windows_seconds, ascending
          Cadence,           \* features.cadence_seconds
          Warmup,            \* features.warmup_seconds
          DecisionSessions   \* features.decision_sessions

\* features.windows_seconds is not empty and ascending (configuration.py).
ASSUME FeatureAssumption ==
    /\ Cadence \in Nat \ {0} /\ Warmup \in Nat
    /\ Len(Windows) \in Nat \ {0} /\ DOMAIN Windows = 1..Len(Windows)
    /\ \A i, k \in DOMAIN Windows : Windows[i] \in Nat \ {0} /\ (i < k => Windows[i] < Windows[k])

EmptyFeatures == [session |-> None, from |-> None, trade |-> None, quote |-> None,
                  trades |-> <<>>, flows |-> <<>>]

InitEngine == [m |-> InitMarket, sym |-> [s \in Symbols |-> EmptyFeatures],
               lastAt |-> None, lastSes |-> None, lastSeq |-> None, decided |-> None]

\* Cont-style best-level order-flow imbalance of one quote transition.
level_one_book_flow(previous, current) ==
    LET pb == Populated(previous.bids)[1]  pa == Populated(previous.asks)[1]
        cb == Populated(current.bids)[1]   ca == Populated(current.asks)[1]
        bid == (IF cb[1] >= pb[1] THEN cb[2] ELSE 0) - (IF cb[1] <= pb[1] THEN pb[2] ELSE 0)
        ask == (IF ca[1] <= pa[1] THEN ca[2] ELSE 0) - (IF ca[1] >= pa[1] THEN pa[2] ELSE 0)
    IN  bid - ask

\* book_values: the mid price (in half prices), the spread and the two imbalances.
book_values(q) ==
    LET bids == Populated(q.bids)  asks == Populated(q.asks)
        depth(levels) == FoldSeq(LAMBDA l, sum : l[2] + sum, 0, levels)
    IN  [mid |-> bids[1][1] + asks[1][1],
         spread_bps |-> basis_points(2 * (asks[1][1] - bids[1][1]), bids[1][1] + asks[1][1]),
         level_one |-> ratio(bids[1][2] - asks[1][2], bids[1][2] + asks[1][2]),
         depth |-> ratio(depth(bids) - depth(asks), depth(bids) + depth(asks))]

DropOld(items, cutoff) ==
    LET kept == {i \in DOMAIN items : items[i].at > cutoff}
    IN  IF kept = {} THEN <<>>
        ELSE SubSeq(items, CHOOSE i \in kept : \A j \in kept : i <= j, Len(items))

_prune(f, t) ==
    LET cutoff == t - Windows[Len(Windows)]
    IN  [f EXCEPT !.trades = DropOld(@, cutoff), !.flows = DropOld(@, cutoff)]

\* Mutant: the features of the previous market session survive the change.
InSessionKept(f, session) == [f EXCEPT !.session = session]

\* reset: a change of market session starts the symbol's features afresh.
InSession(f, session) ==
    IF f.session = session THEN f ELSE [EmptyFeatures EXCEPT !.session = session]

_observe(f, e, kind) ==
    LET g == InSession(f, session_at(e.et))
        h == [g EXCEPT !.from = IF @ = None THEN e.at ELSE @]
        flow == g.quote # None /\ is_complete(g.quote) /\ is_complete(e)
    IN  CASE kind = "trade" ->
               _prune([h EXCEPT !.trade = e, !.trades = Append(@, e)], e.at)
          [] kind = "quote" ->
               _prune([h EXCEPT !.quote = e,
                                !.flows = IF flow THEN Append(@,
                                   [at |-> e.at, flow |-> level_one_book_flow(g.quote, e)])
                                          ELSE @], e.at)
          [] OTHER -> g

\* FeatureEngine.apply.
Observed(g, e, u) ==
    LET switch == g.lastSes # None /\ e.ses # g.lastSes
        sym == IF switch THEN [s \in Symbols |-> EmptyFeatures] ELSE g.sym
        newest == ~u.raised /\ ~Before(e.at, g.lastAt)
    IN  [g |-> [g EXCEPT !.m = u.m,
                   !.sym = IF u.kind = "none" THEN sym
                           ELSE [sym EXCEPT ![e.sym] = _observe(@, e, u.kind)],
                   !.lastAt = IF newest THEN e.at ELSE @,
                   !.lastSes = IF newest THEN e.ses ELSE @,
                   !.lastSeq = IF newest THEN e.seq ELSE @],
         bars |-> u.bars, raised |-> u.raised, kind |-> u.kind]

EngineApply(g, e) ==
    IF Before(e.at, g.decided) THEN [g |-> g, bars |-> <<>>, raised |-> TRUE, kind |-> "none"]
    ELSE Observed(g, e, MarketApply(g.m, e))

(***************************************************************************)
(* window_values over the trades and book flows received in (t - w, t]:    *)
(* both are given by their places in the symbol's deques, oldest first.    *)
(***************************************************************************)
Volume(items, R) == SumFunction([i \in R |-> items[i].qty])
SignedVolume(items, R) == SumFunction([i \in R |-> signed_quantity(items[i])])
Value(items, R) == SumFunction([i \in R |-> items[i].price * items[i].qty])
Flow(items, R) == SumFunction([i \in R |-> items[i].flow])

\* The return of an item of R from the one before it.
StepReturn(items, R, i) ==
    LET before == items[Max({j \in R : j < i})].price
    IN  basis_points(items[i].price - before, before)

\* The root of the summed squared trade-to-trade returns, on the grid of whole basis points.
RealizedVolatility(items, R) ==
    Sqrt(SumFunction([i \in R \ {Min(R)} |->
            StepReturn(items, R, i) * StepReturn(items, R, i)]))

window_values(w, trades, T, flows, F) ==
    LET n == Cardinality(T)
        first == trades[Min(T)]  last == trades[Max(T)]
        value == Value(trades, T)  volume == Volume(trades, T)
    IN  [seconds |-> w, trades |-> n, changes |-> Cardinality(F), volume |-> volume,
         flow |-> Flow(flows, F),
         imbalance |-> IF n = 0 THEN None ELSE ratio(SignedVolume(trades, T), volume),
         to_vwap |-> IF n = 0 THEN None ELSE basis_points(last.price * volume - value, value),
         return |-> IF n < 2 THEN None ELSE basis_points(last.price - first.price, first.price),
         volatility |-> IF n < 2 THEN None ELSE RealizedVolatility(trades, T)]

Recent(items, t, w) == {i \in DOMAIN items : t - w < items[i].at /\ items[i].at <= t}

_window(f, t, w) ==
    window_values(w, f.trades, Recent(f.trades, t, w), f.flows, Recent(f.flows, t, w))

\* The decision-clock gates of _snapshot.
SnapshotReasons(g, s, f, t, windows) ==
    IF session_at(t) \notin DecisionSessions THEN {"SESSION_NOT_ENABLED"}
    ELSE health(g.m, s, t, session_window(session_at(t))[1])
         \cup (IF f.from = None \/ t - f.from < Warmup THEN {"WARMUP"} ELSE {})
         \cup (IF \E i \in DOMAIN windows : windows[i].trades < 2
               THEN {"INSUFFICIENT_TRADES"} ELSE {})
         \cup (IF \E i \in DOMAIN windows : windows[i].changes < 1
               THEN {"INSUFFICIENT_BOOK_FLOW"} ELSE {})

_snapshot(g, s, t) ==
    LET f == _prune(InSession(g.sym[s], session_at(t)), t)
        windows == [i \in DOMAIN Windows |-> _window(f, t, Windows[i])]
        usable == f.quote # None /\ is_complete(f.quote) /\ f.quote.at <= t
    IN  [sym |-> s, at |-> t, session |-> session_at(t),
         position |-> <<g.lastSes, g.lastSeq>>,
         trade_age |-> IF f.trade = None THEN None ELSE t - f.trade.at,
         quote_age |-> IF f.quote = None THEN None ELSE t - f.quote.at,
         book |-> IF usable THEN book_values(f.quote) ELSE None,
         windows |-> windows, reasons |-> SnapshotReasons(g, s, f, t, windows)]

\* FeatureEngine.snapshots: one vector per symbol; refuses a clock it cannot serve.
SnapshotsRefused(g, t) ==
    \/ t % Cadence # 0
    \/ g.decided # None /\ t <= g.decided
    \/ g.lastAt # None /\ g.lastAt > t

snapshots(g, t) == [s \in Symbols |-> _snapshot(g, s, t)]

\* The engine after the clock: sessions and pruning done by _snapshot stay.
EngineDecided(g, t) ==
    [g EXCEPT !.sym = [s \in Symbols |-> _prune(InSession(@[s], session_at(t)), t)],
              !.decided = t]

\* decision_times: the clocks strictly inside the enabled sessions.
decision_times ==
    {t \in Schedule.open..Schedule.close :
        \E d \in DecisionSessions :
            LET w == session_window(d)
            IN  w[1] < t /\ t < w[2] /\ (t - w[1]) % Cadence = 0}

\* StreamGap: a decision inside a transport gap, or warming up after one.
GapAffects(gap, t) == gap.start <= t /\ t < gap.end + Warmup

MarkGap(snaps, affected) ==
    IF ~affected THEN snaps
    ELSE [s \in DOMAIN snaps |-> [snaps[s] EXCEPT !.reasons = @ \cup {"CAPTURE_GAP"}]]

is_eligible(snap) == snap.reasons = {}
=============================================================================
