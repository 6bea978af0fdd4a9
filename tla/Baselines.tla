----------------------------- MODULE Baselines -----------------------------
(***************************************************************************)
(* strategy/baselines.py: the three buy-first baselines scored for every   *)
(* symbol of a clock, candidates and abstentions alike.  The V1 contract   *)
(* knows exactly two symbols, each the other's peer.                       *)
(***************************************************************************)
EXTENDS DecisionContext

CONSTANTS Short, Medium, Long,  \* the 30, 60 and 300 second windows
          PeerLag               \* RELATIVE_PEER_LAG

ASSUME BaselineAssumption ==
    /\ IsFiniteSet(Symbols) /\ Cardinality(Symbols) = 2
    /\ None \notin {"feature_ineligible", "not_continuous_session", "market_status_ineligible",
                    "regime_ineligible"}

BASELINE_NAMES == {"mean_reversion", "momentum_pullback", "vic_vhm_relative"}

Window(snap, seconds) ==
    snap.windows[CHOOSE i \in DOMAIN snap.windows : snap.windows[i].seconds = seconds]

_positive(numerator, denominator) ==
    IF numerator = None \/ denominator = None THEN None
    ELSE IF denominator <= 0 THEN None
    ELSE Clamp(ratio(numerator, denominator), 0, One)

Negated(x) == IF x = None THEN None ELSE -x

_flow(w) == IF w.imbalance = None THEN None ELSE Clamp(w.imbalance, 0, One)

_minimum(values) == IF None \in values THEN None ELSE Min(values)

Rising(w) == _positive(w.return, w.volatility)

Matches(strength) == strength # None /\ strength > 0

\* _build: the reasons a candidate is blocked, and its strength when it is not.
BlockReason(strategy, groups, block) ==
    IF block # None THEN block
    ELSE IF strategy # "momentum_pullback"
    THEN IF \E i \in 1..3 : groups[i] = None THEN "required_group_unavailable"
         ELSE IF \E i \in 1..3 : groups[i] = 0 THEN "required_group_failed" ELSE None
    ELSE IF groups[1] = None THEN "required_group_unavailable"
    ELSE IF groups[1] = 0 THEN "required_group_failed"
    ELSE IF groups[2] = None /\ groups[3] = None THEN "confirming_group_unavailable"
    ELSE IF ~Matches(groups[2]) /\ ~Matches(groups[3]) THEN "confirming_group_failed"
    ELSE None

_build(strategy, snap, groups, block) ==
    LET reason == BlockReason(strategy, groups, block)
        matched == {i \in 1..3 : Matches(groups[i])}
    IN  [strategy |-> strategy, sym |-> snap.sym, at |-> snap.at, block |-> reason,
         strength |-> IF reason # None THEN 0
                      ELSE HalfUp(MapThenSumSet(LAMBDA i : groups[i], matched),
                                  Cardinality(matched))]

_mean_reversion(snap, context) ==
    LET short == Window(snap, Short)  long == Window(snap, Long)
        zone == context.zones[snap.sym]
    IN  _build("mean_reversion", snap,
               <<_positive(Negated(long.to_vwap), long.volatility),
                 IF zone = None THEN None ELSE zone.near,
                 _minimum({Rising(short), _flow(short)})>>, None)

_momentum_pullback(snap) ==
    LET short == Window(snap, Short)  medium == Window(snap, Medium)  long == Window(snap, Long)
        deep == /\ short.return # None /\ medium.return # None
                /\ (IF short.return < 0 THEN -short.return ELSE short.return)
                      > (IF medium.return > 0 THEN medium.return ELSE 0)
    IN  _build("momentum_pullback", snap,
               <<_minimum({Rising(medium), Rising(long)}),
                 IF deep THEN 0
                 ELSE _minimum({_positive(Negated(short.return), short.volatility), _flow(short)}),
                 _minimum({Rising(short), _flow(short)})>>, None)

\* peer is the peer's snapshot at the clock, lagged the one PeerLag earlier, or None.
_relative(snap, peer, lagged, context) ==
    LET target == Window(snap, Long)  other == Window(peer, Long)
        current == Window(snap, Short)
        known == target.return # None /\ other.return # None
    IN  IF ~is_eligible(peer)
        THEN _build("vic_vhm_relative", snap, <<None, None, None>>, "missing_peer")
        ELSE _build("vic_vhm_relative", snap,
               <<IF known THEN _positive(other.return - target.return,
                                         other.volatility + target.volatility) ELSE None,
                 IF lagged = None THEN None
                 ELSE IF ~is_eligible(lagged) THEN None
                 ELSE _minimum({Rising(Window(lagged, Short)), Rising(current), _flow(current)}),
                 context.state.confirmation>>, None)

Peer(s) == CHOOSE p \in Symbols : p # s

\* The peer's snapshot PeerLag before t, or None; history holds the earlier snapshots.
LaggedPeer(history, s, t) ==
    LET at == {x \in history : x.sym = Peer(s) /\ x.at = t - PeerLag}
    IN  IF at = {} THEN None ELSE CHOOSE x \in at : TRUE

\* Why no strategy may be scored for a symbol.
Blocked(snap, context) ==
    IF ~is_eligible(snap) THEN "feature_ineligible"
    ELSE IF snap.session \notin {"continuous_am", "continuous_pm"} THEN "not_continuous_session"
    ELSE selection_block_reason(context, FALSE)

Scored(snap, peer, context, history) ==
    IF Blocked(snap, context) # None
    THEN {_build(n, snap, <<None, None, None>>, Blocked(snap, context)) : n \in BASELINE_NAMES}
    ELSE {_mean_reversion(snap, context), _momentum_pullback(snap),
          _relative(snap, peer, LaggedPeer(history, snap.sym, snap.at), context)}

\* score_buy_first_baselines for one clock.
score_buy_first_baselines(snaps, context, history) ==
    UNION {Scored(snaps[s], snaps[Peer(s)], context, history) : s \in Symbols}
=============================================================================
