---------------------------- MODULE MarketState ----------------------------
(***************************************************************************)
(* market/events.py, market/session.py and market/state.py: one captured   *)
(* envelope is decoded, checked against the transport and trade order of   *)
(* its stream session, and folded into per-symbol hot state and bars.      *)
(*                                                                         *)
(* An envelope is a record.  ses, seq and at are its stream session,       *)
(* receive sequence and receipt time; ok says that its checksum, lineage   *)
(* and provider type are right (everything the SDK adapters reject is not  *)
(* ok); et is the provider's event time.  Times are seconds of one day.    *)
(***************************************************************************)
EXTENDS Integers, Sequences, FiniteSets

CONSTANTS Symbols,        \* configuration.market.symbols
          StreamIds,      \* stream session identifiers
          None,
          BarInterval,    \* market.bar_interval_seconds
          QuoteDepth,     \* market.quote_depth
          TradeStale, QuoteStale,  \* data_quality
          Schedule        \* market.sessions: the six boundaries of the day

ASSUME MarketAssumption ==
    /\ None \notin Int
    /\ TradeStale \in Nat /\ QuoteStale \in Nat
    /\ \A b \in DOMAIN Schedule : Schedule[b] \in Int
    /\ {"open", "openEnd", "amEnd", "pmStart", "pmEnd", "close"} \subseteq DOMAIN Schedule
    /\ BarInterval \in Nat \ {0} /\ QuoteDepth \in Nat \ {0}
    /\ Schedule.open < Schedule.openEnd /\ Schedule.openEnd < Schedule.amEnd
    /\ Schedule.amEnd <= Schedule.pmStart /\ Schedule.pmStart < Schedule.pmEnd
    /\ Schedule.pmEnd < Schedule.close

\* session.py: classify an instant of the trading date.
session_at(t) ==
    CASE t < Schedule.open    -> "pre_open"
      [] t >= Schedule.open /\ t < Schedule.openEnd -> "opening_auction"
      [] t >= Schedule.openEnd /\ t < Schedule.amEnd -> "continuous_am"
      [] t >= Schedule.amEnd /\ t < Schedule.pmStart -> "lunch_break"
      [] t >= Schedule.pmStart /\ t < Schedule.pmEnd -> "continuous_pm"
      [] t >= Schedule.pmEnd /\ t <= Schedule.close  -> "closing_auction"
      [] OTHER -> "closed"

session_window(session) ==
    CASE session = "opening_auction" -> <<Schedule.open, Schedule.openEnd>>
      [] session = "continuous_am"   -> <<Schedule.openEnd, Schedule.amEnd>>
      [] session = "continuous_pm"   -> <<Schedule.pmStart, Schedule.pmEnd>>
      [] session = "closing_auction" -> <<Schedule.pmEnd, Schedule.close>>

TRADE_SESSIONS == {"opening_auction", "continuous_am", "continuous_pm", "closing_auction"}

covers_trading_window(connected, disconnected) ==
    connected <= Schedule.open /\ disconnected >= Schedule.close

(***************************************************************************)
(* events.py: decode_event.  A quote carries its provider arrays bids and  *)
(* asks as <<price, quantity>> pairs; an empty position is <<0, 0>>.       *)
(***************************************************************************)
Populated(levels) == SelectSeq(levels, LAMBDA l : l[1] > 0 /\ l[2] > 0)

\* _levels: well-formed pairs, nothing beyond the depth, best to worst: falling for
\* bids (sign 1), rising for asks (sign -1).
LevelsValid(levels, sign) ==
    /\ \A i \in DOMAIN levels : (levels[i][1] = 0) <=> (levels[i][2] = 0)
    /\ \A i \in DOMAIN levels : i > QuoteDepth => levels[i] = <<0, 0>>
    /\ LET p == Populated(levels)
       IN  \A i \in 1..(Len(p) - 1) : sign * p[i][1] > sign * p[i + 1][1]

QuoteValid(e) == /\ LevelsValid(e.bids, 1)
                 /\ LevelsValid(e.asks, -1)

is_complete(e) ==
    LET bids == Populated(e.bids)  asks == Populated(e.asks)
    IN  Len(bids) = QuoteDepth /\ Len(asks) = QuoteDepth /\ bids[1][1] < asks[1][1]

\* The kind of event an envelope decodes to; "error" is MarketEventError.
decode_event(e) ==
    CASE ~e.ok -> "error"
      [] e.ok /\ e.type = "trade" ->
            IF e.et > e.at THEN "error"
            ELSE IF e.price = 0 /\ e.qty = 0 /\ e.side = "U" THEN "auction"
            ELSE IF e.price <= 0 \/ e.qty <= 0 \/ e.side \notin {"B", "S", "U"} \/ e.cum < e.qty
            THEN "error" ELSE "trade"
      [] e.ok /\ e.type = "quote" ->
            IF e.et > e.at \/ ~QuoteValid(e) THEN "error" ELSE "quote"
      [] OTHER -> "none"

signed_quantity(e) ==
    CASE e.side = "B" -> e.qty [] e.side = "S" -> -e.qty [] OTHER -> 0

(***************************************************************************)
(* state.py: the bars of one symbol.                                       *)
(***************************************************************************)
bar_start(t) == t - (t % BarInterval)

BarFromTrade(e) ==
    [sym |-> e.sym, start |-> bar_start(e.et), open |-> e.price, high |-> e.price,
     low |-> e.price, close |-> e.price, volume |-> e.qty, count |-> 1, ses |-> e.ses]

BarAdd(bar, e) ==
    [bar EXCEPT !.high = IF e.price > @ THEN e.price ELSE @,
                !.low = IF e.price < @ THEN e.price ELSE @,
                !.close = e.price, !.volume = @ + e.qty, !.count = @ + 1]

BarEnd(bar) == bar.start + BarInterval

EmptySymbol == [trade |-> None, quote |-> None, tradeTime |-> None, quoteTime |-> None,
                cum |-> None, bar |-> None, closed |-> None]

InitMarket == [active |-> None, lastSeq |-> [s \in StreamIds |-> 0],
               lastAt |-> [s \in StreamIds |-> None], issues |-> {},
               sym |-> [s \in Symbols |-> EmptySymbol]]

Before(t, mark) == mark # None /\ t < mark

_sequence_issues(m, e) ==
    (IF m.lastSeq[e.ses] = 0
     THEN IF e.seq # 1 THEN {"SEQUENCE_GAP"} ELSE {}
     ELSE IF e.seq <= m.lastSeq[e.ses] THEN {"SEQUENCE_REGRESSION"}
     ELSE IF e.seq # m.lastSeq[e.ses] + 1 THEN {"SEQUENCE_GAP"} ELSE {})
    \cup (IF Before(e.at, m.lastAt[e.ses]) THEN {"RECEIPT_TIME_REGRESSION"} ELSE {})

\* The transport position of the stream session after an envelope.
Positioned(m, e, issues) ==
    [m EXCEPT !.issues = @ \cup issues,
              !.lastSeq[e.ses] = IF "SEQUENCE_REGRESSION" \in issues THEN @ ELSE e.seq,
              !.lastAt[e.ses] = IF "SEQUENCE_REGRESSION" \in issues
                                   \/ "RECEIPT_TIME_REGRESSION" \in issues THEN @ ELSE e.at]

\* Mutant: a jump of the cumulative volume goes unnoticed.
VolumeIssueNoGap(s, e) ==
    IF s.cum = None \/ e.cum >= s.cum + e.qty THEN {}
    ELSE IF e.cum < s.cum THEN {"TRADE_VOLUME_REGRESSION"} ELSE {"TRADE_VOLUME_DUPLICATE"}

VolumeIssue(s, e) ==
    IF s.cum = None \/ e.cum = s.cum + e.qty THEN {}
    ELSE IF e.cum < s.cum THEN {"TRADE_VOLUME_REGRESSION"}
    ELSE IF e.cum = s.cum THEN {"TRADE_VOLUME_DUPLICATE"} ELSE {"TRADE_VOLUME_GAP"}

TradeIssues(s, e) ==
    IF Before(e.et, s.tradeTime) THEN {"TRADE_TIME_REGRESSION"}
    ELSE VolumeIssue(s, e)
         \cup (IF s.closed # None /\ bar_start(e.et) + BarInterval <= s.closed
               THEN {"LATE_TRADE"} ELSE {})

\* Mutant: the trade on the boundary joins the bar that ends there.
OpensPastEnd(s, e) == s.bar = None \/ BarEnd(s.bar) < e.et

\* A trade of a later interval opens a new bar.
Opens(s, e) == s.bar = None \/ s.bar.start < bar_start(e.et)

\* _apply_trade: extend the open bar, or finalize it and open the next one.
_apply_trade(s, e) ==
    LET opens == Opens(s, e)
    IN  [sym |-> [s EXCEPT !.bar = IF opens THEN BarFromTrade(e)
                                   ELSE IF bar_start(e.et) < @.start THEN @ ELSE BarAdd(@, e),
                           !.closed = IF s.bar # None /\ opens THEN BarEnd(s.bar) ELSE @,
                           !.trade = e, !.tradeTime = e.et, !.cum = e.cum],
         bars |-> IF s.bar # None /\ opens THEN <<s.bar>> ELSE <<>>]

\* The symbol state, the issues and the finalized bars of one decoded event.
SymbolStep(s, e, kind) ==
    LET issues == CASE kind = "quote" -> IF Before(e.et, s.quoteTime)
                                         THEN {"QUOTE_TIME_REGRESSION"} ELSE {}
                    [] kind = "trade" -> TradeIssues(s, e)
                    [] OTHER -> IF Before(e.et, s.tradeTime) THEN {"TRADE_TIME_REGRESSION"} ELSE {}
        traded == _apply_trade(s, e)
    IN  [issues |-> issues,
         sym |-> IF issues # {} THEN s
                 ELSE CASE kind = "quote" -> [s EXCEPT !.quote = e, !.quoteTime = e.et]
                        [] kind = "trade" -> traded.sym
                        [] OTHER -> [s EXCEPT !.tradeTime = e.et],
         bars |-> IF kind = "trade" /\ issues = {} THEN traded.bars ELSE <<>>]

(***************************************************************************)
(* MarketState.apply.  The result holds the new state, the applied event   *)
(* kind ("none" when the envelope is rejected or not a business event), the *)
(* finalized bars, and whether the call raised.                            *)
(***************************************************************************)
Update(m, kind, bars, raised) == [m |-> m, kind |-> kind, bars |-> bars, raised |-> raised]

\* A new stream session resets the hot state of every symbol.
Switched(m, e) ==
    [m EXCEPT !.active = e.ses,
              !.sym = IF m.active # None /\ e.ses # m.active
                      THEN [s \in Symbols |-> EmptySymbol] ELSE @]

Stepped(m, e, kind, step) ==
    Update([m EXCEPT !.sym[e.sym] = step.sym, !.issues = @ \cup step.issues],
           IF step.issues = {} THEN kind ELSE "none", step.bars, FALSE)

Dispatched(m, e, issues, kind) ==
    IF issues \cap {"SEQUENCE_REGRESSION", "RECEIPT_TIME_REGRESSION"} # {}
       \/ e.ctx = "indices" THEN Update(m, "none", <<>>, FALSE)
    ELSE IF kind = "error" THEN Update(m, "none", <<>>, TRUE)
    ELSE IF kind = "none" THEN Update(m, "none", <<>>, FALSE)
    ELSE IF e.sym \notin Symbols THEN Update(m, "none", <<>>, TRUE)
    ELSE Stepped(m, e, kind, SymbolStep(m.sym[e.sym], e, kind))

Sequenced(m, e, issues) == Dispatched(Positioned(m, e, issues), e, issues, decode_event(e))

MarketApply(m, e) == Sequenced(Switched(m, e), e, _sequence_issues(Switched(m, e), e))

\* advance: close the bars that end by a clock boundary and refuse later trades for them.
MarketAdvance(m, t) ==
    LET ends(s) == m.sym[s].bar # None /\ BarEnd(m.sym[s].bar) <= t
    IN  [m |-> [m EXCEPT !.sym = [s \in Symbols |->
                   [m.sym[s] EXCEPT !.bar = IF ends(s) THEN None ELSE @,
                                    !.closed = IF @ = None \/ bar_start(t) > @
                                               THEN bar_start(t) ELSE @]]],
         bars |-> {m.sym[s].bar : s \in {x \in Symbols : ends(x)}}]

Missing(e, since) == e = None \/ e.et < since \/ e.at < since

\* health: why a symbol's hot state may not be used at t.
health(m, s, t, since) ==
    LET trade == m.sym[s].trade  quote == m.sym[s].quote
    IN  m.issues
        \cup (IF Missing(trade, since) THEN {"MISSING_TRADE"}
              ELSE IF trade.at > t THEN {"FUTURE_TRADE"}
              ELSE IF t - trade.at > TradeStale THEN {"STALE_TRADE"} ELSE {})
        \cup (IF Missing(quote, since) THEN {"MISSING_QUOTE"}
              ELSE (IF quote.at > t THEN {"FUTURE_QUOTE"}
                    ELSE IF t - quote.at > QuoteStale THEN {"STALE_QUOTE"} ELSE {})
                   \cup (IF ~is_complete(quote) THEN {"INCOMPLETE_QUOTE"} ELSE {}))
=============================================================================
