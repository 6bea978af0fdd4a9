-------------------------- MODULE DecisionContext --------------------------
(***************************************************************************)
(* context/engine.py, breadth.py, regime.py and model.py with              *)
(* market/intervals.py: the point-in-time market context of one decision   *)
(* clock (zones, index confirmation, exchange status, constituent breadth  *)
(* and regime), built from receipts applied before the clock.              *)
(***************************************************************************)
EXTENDS FeatureEngine

CONSTANTS Indices, Markets, \* market.indices and market.status_markets
          ContextPolicy,    \* [lookback, minimum, tolerance, windows, stale, tradable,
                            \*  trend, volatility]
          BreadthPolicy,    \* None, or [indices, lookback, stale, participation, advance]
          Membership,       \* None, or [at, members]: the captured index constituents
          Minute            \* one provider interval

\* An index is no traded symbol (configuration.py, capture scope).
ASSUME ContextAssumption == Symbols \cap Indices = {} /\ Minute \in Nat \ {0}

\* The engine of one day; regime is None, or [basis, reference, trend, dispersion].
InitContext(regime) == [regime |-> regime, index |-> [i \in Indices |-> <<>>], status |-> [k \in Markets |-> <<>>],
                hist |-> [s \in Symbols |-> <<>>], lastAt |-> None, ses |-> None,
                decided |-> None, bars |-> <<>>]

(***************************************************************************)
(* intervals.py: one provider minute revision; breadth.py keeps the latest *)
(* revision of each (symbol, minute) within its look-back.                 *)
(***************************************************************************)
ProviderBarValid(e) ==
    /\ e.ok /\ e.ctx = "symbols" /\ e.volume > 0
    /\ e.start % Minute = 0 /\ e.start <= e.et /\ e.et < e.start + Minute /\ e.et <= e.at
    /\ e.low > 0 /\ e.low <= e.open /\ e.low <= e.close /\ e.high >= e.open /\ e.high >= e.close

BreadthSymbols == IF Membership = None THEN {}
                  ELSE UNION {Membership.members[i] : i \in DOMAIN Membership.members}

BreadthBars(bars, e) ==
    LET key == <<e.sym, e.start>>
        kept == IF key \in DOMAIN bars /\ e.et < bars[key].et THEN bars
                ELSE [k \in DOMAIN bars \cup {key} |-> IF k = key THEN e ELSE bars[k]]
        cutoff == e.at - (BreadthPolicy.lookback + BreadthPolicy.stale + Minute)
    IN  [k \in {x \in DOMAIN kept : x[2] >= cutoff} |-> kept[k]]

UsesBreadth(e) == BreadthPolicy # None /\ e.type = "interval" /\ e.sym \in BreadthSymbols

\* The start of the last minute closed by t.
LastMinute(t) == t - (t % Minute) - Minute

\* The return over the closed-minute pair of one constituent, if both are fresh.
BreadthPair(bars, s, t) ==
    LET current == <<s, LastMinute(t)>>
        base == <<s, LastMinute(t) - BreadthPolicy.lookback>>
    IN  IF {current, base} \subseteq DOMAIN bars
           /\ t - bars[current].et <= BreadthPolicy.stale
           /\ t - BreadthPolicy.lookback - bars[base].et <= BreadthPolicy.stale
        THEN {basis_points(bars[current].close - bars[base].close, bars[base].close)}
        ELSE {}

\* BreadthEngine.build for one index: its metrics, or the reasons it has none.
breadth(bars, index, t) ==
    LET known == Membership # None /\ Membership.at <= t
        symbols == IF known /\ index \in DOMAIN Membership.members
                   THEN Membership.members[index] ELSE {}
        base == LastMinute(t) - BreadthPolicy.lookback
        same == session_at(t) \in {"continuous_am", "continuous_pm"}
                /\ session_at(base) = session_at(t)
        paired == IF same THEN {s \in symbols : BreadthPair(bars, s, t) # {}} ELSE {}
        value(s) == CHOOSE r \in BreadthPair(bars, s, t) : TRUE
        n == Cardinality(paired)
        total == MapThenSumSet(value, paired)
        advance == ratio(Cardinality({s \in paired : value(s) > 0}), n)
        reasons == (IF symbols = {} THEN {"membership_unavailable"} ELSE {})
                   \cup (IF ~same THEN {"outside_continuous_lookback"} ELSE {})
                   \cup (IF n = 0 THEN {"missing_closed_minute_pairs"} ELSE {})
                   \cup (IF symbols # {} /\ ratio(n, Cardinality(symbols))
                                               < BreadthPolicy.participation
                         THEN {"insufficient_participation"} ELSE {})
        mean == HalfUp(total, n)
    IN  [index |-> index, reasons |-> reasons,
         advance |-> IF n = 0 THEN None ELSE advance,
         mean |-> IF n = 0 THEN None ELSE mean,
         dispersion |-> IF n = 0 THEN None
                        ELSE Sqrt(HalfUp(MapThenSumSet(LAMBDA s : (value(s) - mean) * (value(s) - mean),
                                                       paired), n)),
         upward |-> reasons = {} /\ advance >= BreadthPolicy.advance /\ total > 0]

(***************************************************************************)
(* LiveDecisionContextEngine.apply.  With a regime policy a new stream     *)
(* session forgets the exchange status: authorization must be reacquired.  *)
(***************************************************************************)
IsIndexTick(e) == e.ctx = "indices" /\ e.type = "trade" /\ e.sym \in Indices
IsStatusTick(e) == e.ctx = "markets" /\ e.type = "status" /\ e.sym \in Markets

\* Mutant: the status received before a reconnect still authorizes.
ForgetsNothing(c, e) == c.regime # None /\ c.ses # None /\ c.ses > e.ses

Forgets(c, e) == c.regime # None /\ c.ses # None /\ c.ses # e.ses

\* One more observation of its index or market.
Ticked(ticks, e) == [ticks EXCEPT ![e.sym] = Append(@, e)]

ContextApply(c, e) ==
    LET status == IF Forgets(c, e) THEN [k \in Markets |-> <<>>] ELSE c.status
        raised == \/ Before(e.at, c.lastAt)
                  \/ UsesBreadth(e) /\ ~ProviderBarValid(e)
                  \/ IsIndexTick(e) /\ (~e.ok \/ e.price <= 0 \/ e.et > e.at)
                  \/ IsStatusTick(e) /\ ~e.ok
    IN  [raised |-> raised,
         c |-> IF raised THEN c
               ELSE [c EXCEPT !.lastAt = e.at, !.ses = e.ses,
                       !.bars = IF UsesBreadth(e) THEN BreadthBars(@, e) ELSE @,
                       !.index = IF IsIndexTick(e) THEN Ticked(@, e) ELSE @,
                       !.status = IF IsStatusTick(e) THEN Ticked(status, e) ELSE status]]

\* _as_of: the last observation received by t.
AsOf(ticks, t) ==
    LET by == {i \in DOMAIN ticks : ticks[i].at <= t}
    IN  IF by = {} THEN None ELSE ticks[Max(by)]

\* _window: return and volatility of an index since its reference tick.
IndexWindow(ticks, current, t, w) ==
    LET reference == AsOf(ticks, t - w)
        later == SelectSeq(ticks, LAMBDA x : t - w < x.at /\ x.at <= current.at)
        ticked == <<reference>> \o later
    IN  IF reference = None \/ later = <<>> THEN None
        ELSE IF t - w - reference.at > ContextPolicy.stale THEN None
        ELSE [seconds |-> w,
              return |-> basis_points(current.price - reference.price, reference.price),
              volatility |-> RealizedVolatility(ticked, DOMAIN ticked)]

_index_context(index, ticks, t) ==
    LET current == AsOf(ticks, t)
        all == [i \in DOMAIN ContextPolicy.windows |->
                   IndexWindow(ticks, current, t, ContextPolicy.windows[i])]
        windows == SelectSeq(all, LAMBDA x : x # None)
    IN  IF current = None THEN [index |-> index, windows |-> <<>>, reasons |-> {"MISSING_INDEX"}]
        ELSE [index |-> index, windows |-> windows,
              reasons |-> (IF t - current.at > ContextPolicy.stale THEN {"STALE_INDEX"} ELSE {})
                          \cup (IF Len(windows) # Len(all)
                                THEN {"INSUFFICIENT_INDEX_HISTORY"} ELSE {})]

\* Exchange status never goes stale; only a reconnect revokes it.
_market_status_context(market, ticks, t) ==
    LET current == AsOf(ticks, t)
    IN  [market |-> market, source |-> current,
         reasons |-> IF current = None THEN {"MISSING_MARKET_STATUS"}
                     ELSE IF current.status \notin ContextPolicy.tradable
                     THEN {"MARKET_NOT_TRADABLE"} ELSE {}]

\* _zone: support and resistance over the earlier eligible snapshots of the session.
_zone(snap, history) ==
    LET prior == SelectSeq(history, LAMBDA x :
                    /\ x.session = snap.session /\ x.book # None /\ is_eligible(x)
                    /\ snap.at - ContextPolicy.lookback <= x.at /\ x.at < snap.at)
        mids == {prior[i].book.mid : i \in DOMAIN prior}
        distance == basis_points(snap.book.mid - Min(mids), Min(mids))
        near == One - ratio(IF distance < 0 THEN -distance ELSE distance, ContextPolicy.tolerance)
    IN  IF snap.book = None \/ Len(prior) < ContextPolicy.minimum \/ prior = <<>> THEN None
        ELSE [support |-> Min(mids), resistance |-> Max(mids),
              near |-> IF near < 0 THEN 0 ELSE near]

(***************************************************************************)
(* regime.py: market_state.  A declared basis never falls back to another. *)
(***************************************************************************)
Regime(confirmation, regime, reasons) ==
    [confirmation |-> confirmation, regime |-> regime, reasons |-> reasons]

ConstituentState(policy, ref) ==
    LET confirmation == HalfUp(Clamp(HalfUp(ref.mean * One, policy.trend), 0, One)
                               * ref.advance, One)
    IN  IF ref.reasons # {} THEN Regime(None, "UNKNOWN", ref.reasons)
        ELSE IF ref.dispersion >= policy.dispersion
        THEN Regime(confirmation, "HIGH_DISPERSION", {})
        ELSE IF ref.mean >= policy.trend /\ ref.upward THEN Regime(confirmation, "TREND_UP", {})
        ELSE IF ref.mean <= -policy.trend /\ ref.advance <= One - BreadthPolicy.advance
        THEN Regime(confirmation, "TREND_DOWN", {})
        ELSE Regime(confirmation, "RANGE", {})

OfficialState(policy, indices, statuses) ==
    LET reasons == UNION {i.reasons : i \in indices}
                   \cup (IF policy = None THEN UNION {k.reasons : k \in statuses} ELSE {})
                   \cup (IF indices = {} THEN {"MISSING_REQUIRED_INDICES"} ELSE {})
        long(i) == i.windows[Len(i.windows)]
        n == Cardinality(indices)
        returns == MapThenSumSet(LAMBDA i : long(i).return, indices)
        volatility == MapThenSumSet(LAMBDA i : long(i).volatility, indices)
        confirmation == Clamp(Min({ratio(long(i).return, ContextPolicy.trend) : i \in indices}),
                              0, One)
    IN  IF reasons # {} THEN Regime(None, "UNKNOWN", reasons)
        ELSE IF volatility >= n * ContextPolicy.volatility
        THEN Regime(confirmation, "HIGH_VOLATILITY", {})
        ELSE IF returns >= n * ContextPolicy.trend THEN Regime(confirmation, "TREND_UP", {})
        ELSE IF returns <= -(n * ContextPolicy.trend) THEN Regime(confirmation, "TREND_DOWN", {})
        ELSE Regime(confirmation, "RANGE", {})

market_state(indices, statuses, c, t) ==
    IF c.regime # None /\ c.regime.basis = "CONSTITUENT_BREADTH"
    THEN ConstituentState(c.regime, breadth(c.bars, c.regime.reference, t))
    ELSE OfficialState(c.regime, indices, statuses)

\* LiveDecisionContextEngine.build, and the engine after it.
BuildRefused(c, t) == \/ c.decided # None /\ t <= c.decided
                      \/ c.lastAt # None /\ c.lastAt > t

build(c, snaps, t) ==
    LET indices == {_index_context(i, c.index[i], t) : i \in Indices}
        statuses == {_market_status_context(k, c.status[k], t) : k \in Markets}
    IN  [at |-> t, declared |-> c.regime # None, zones |-> [s \in Symbols |-> _zone(snaps[s], c.hist[s])],
         statuses |-> statuses, state |-> market_state(indices, statuses, c, t)]

ContextDecided(c, snaps, t) ==
    [c EXCEPT !.decided = t,
              !.hist = [s \in Symbols |->
                 SelectSeq(Append(@[s], snaps[s]), LAMBDA x : x.at >= t - ContextPolicy.lookback)]]

\* model.py: may this context authorize a selection?
is_tradable(context) ==
    context.statuses # {} /\ \A k \in context.statuses : k.reasons = {}

selection_block_reason(context, realtime) ==
    IF ~is_tradable(context) THEN "market_status_ineligible"
    ELSE IF (realtime \/ context.declared) /\ context.state.regime = "UNKNOWN"
    THEN "regime_ineligible" ELSE None
=============================================================================
