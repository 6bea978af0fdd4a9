----------------------------- MODULE TradingDay -----------------------------
(***************************************************************************)
(* One market day of decisions: the capture service records what the       *)
(* provider sends over successive stream sessions, the decision loop of    *)
(* arbitration/journal.py (features, context, baselines, arbitration)      *)
(* takes every decision clock from it, and after the close the captured    *)
(* sessions are certified.                                                 *)
(*                                                                         *)
(* The provider is the environment: in each second it sends one batch of   *)
(* its menu, or nothing, and may lose or repeat a trade on the way.        *)
(***************************************************************************)
EXTENDS Arbitration, Reconciliation

CONSTANTS Menus,     \* menu name -> set of batches (sequences of templates)
          Regimes,   \* the regime policies the day may be configured with
          BasePrice,
          Start,     \* the first connection
          FirstBatch, LastBatch, \* bound: the seconds in which a menu is sent
          MaxSessions

\* Times, prices and quantities are whole numbers; None is no bar and no envelope; a batch is a
\* finite sequence of messages.
ASSUME DayAssumption ==
    /\ Start \in Int /\ BasePrice \in Int
    /\ None \notin [sym : Symbols, start : Int, open : Int, high : Int, low : Int, close : Int,
                    volume : Int, count : Int, ses : Int]
    /\ \A m \in DOMAIN Menus :
          /\ FirstBatch[m] \in Int /\ LastBatch[m] \in Int
          /\ \A batch \in Menus[m] :
                /\ batch \in Seq(Range(batch))
                /\ \A x \in Range(batch) :
                      /\ x.qty \in Nat /\ x.dp \in Int /\ x.lag \in Int
                      /\ None \notin [ses : Nat, seq : Nat, at : Int, ok : {TRUE}, type : {x.type},
                            sym : {x.sym}, ctx : {"indices", "markets", "symbols"}, et : Int,
                            price : Int, qty : Int, side : {"U", x.side}, cum : Int,
                            bids : Seq(Int \X Int), asks : Seq(Int \X Int), status : {x.via},
                            start : Int, open : Int, high : Int, low : Int, close : Int,
                            volume : Int]

VARIABLES now, menu,
          sessions,  \* the capture: terminal manifests in order, the open session last
          down,      \* no session is open
          applied,   \* what MarketState made of every captured envelope, in order
          eng, ctx, arb, feats,
          out,       \* the recorded decision clocks
          failed,    \* the decision loop raised
          provider,  \* [total, price] per provider symbol
          report     \* the certification, or None

vars == <<now, menu, sessions, down, applied, eng, ctx, arb, feats, out, failed, provider, report>>

Open(id, at) == [id |-> id, symbols |-> Symbols, connected |-> at, disconnected |-> at,
                 published |-> at, kind |-> "open", hb |-> None, env |-> <<>>]

Current == sessions[Len(sessions)]

NextClock ==
    LET later == {t \in decision_times : eng.decided = None \/ t > eng.decided}
    IN  IF later = {} THEN None ELSE Min(later)

ClockDue == IF NextClock = None THEN FALSE ELSE now > NextClock

Init ==
    /\ menu \in DOMAIN Menus /\ now = FirstBatch[menu]
    /\ sessions = <<Open(1, Start)>> /\ down = FALSE
    /\ applied = <<>> /\ eng = InitEngine /\ arb = InitArbitrator
    /\ \E r \in Regimes : ctx = InitContext(r)
    /\ feats = {} /\ out = {} /\ failed = FALSE /\ report = None
    /\ provider = [s \in Symbols \cup Indices |-> [total |-> 0, price |-> BasePrice]]

(***************************************************************************)
(* The provider's side of one message.  A template is [type, sym, dp, qty, *)
(* side, via, lag]: dp moves the price; via is "sent", "lost" (an earlier  *)
(* trade of one lot never arrives) or "repeat" (the last trade again).     *)
(***************************************************************************)
Priced(p, x) ==
    IF x.sym \notin DOMAIN p THEN p
    ELSE [p EXCEPT ![x.sym] =
            [price |-> @.price + x.dp,
             total |-> @.total + (IF x.type # "trade" \/ x.via = "repeat" THEN 0
                                  ELSE IF x.via = "lost" THEN x.qty + 1 ELSE x.qty)]]

Envelope(x, p, ses, seq, at) ==
    LET price == IF x.sym \in DOMAIN p THEN p[x.sym].price ELSE 0
    IN  [ses |-> ses, seq |-> seq, at |-> at, ok |-> TRUE, type |-> x.type, sym |-> x.sym,
         ctx |-> IF x.sym \in Indices THEN "indices"
                 ELSE IF x.sym \in Markets THEN "markets" ELSE "symbols",
         et |-> at - x.lag, price |-> IF x.side = "A" THEN 0 ELSE price,
         qty |-> IF x.side = "A" THEN 0 ELSE x.qty,
         side |-> IF x.side = "A" THEN "U" ELSE x.side,
         cum |-> IF x.sym \in DOMAIN p THEN p[x.sym].total ELSE 0,
         bids |-> <<<<price - 1, x.qty>>>>, asks |-> <<<<price + 1, 2>>>>,
         status |-> x.via, start |-> at - (at % Minute), open |-> price, high |-> price,
         low |-> price, close |-> price, volume |-> x.qty]

\* The provider after a batch, and the rows the current session captures of it.
Sending(acc, x) ==
    LET p == Priced(acc.p, x)
    IN  [p |-> p, rows |-> Append(acc.rows,
            Envelope(x, p, Current.id, Len(Current.env) + Len(acc.rows) + 1, now))]

Sent(batch) == FoldLeft(Sending, [p |-> provider, rows |-> <<>>], batch)

\* _apply_until: one envelope goes through both engines; an exception ends the journal.
Pipeline == [eng |-> eng, ctx |-> ctx, applied |-> applied, failed |-> failed]

Piped(p, e, f, c) == [eng |-> f.g, ctx |-> c.c, failed |-> f.raised \/ c.raised,
                      applied |-> Append(p.applied, [e |-> e, kind |-> f.kind])]

PipelineApply(p, e) ==
    IF p.failed THEN p ELSE Piped(p, e, EngineApply(p.eng, e), ContextApply(p.ctx, e))

\* One second of the stream: an empty batch while the transport is down.
Receive(batch) ==
    /\ report = None /\ now <= LastBatch[menu]
    /\ ~ClockDue
    /\ \E sent \in {Sent(batch)} : \E live \in {FoldLeft(PipelineApply, Pipeline, sent.rows)} :
           /\ provider' = sent.p
           /\ sessions' = IF down THEN sessions
                          ELSE [sessions EXCEPT ![Len(sessions)].env = @ \o sent.rows,
                                                ![Len(sessions)].hb = now]
           /\ eng' = live.eng /\ ctx' = live.ctx /\ applied' = live.applied
           /\ failed' = live.failed
    /\ now' = now + 1
    /\ UNCHANGED <<menu, down, arb, feats, out, report>>

\* The transport is lost; a stale session ends at its last heartbeat.
Disconnect(kind) ==
    /\ ~down /\ report = None /\ Len(sessions) < MaxSessions
    /\ ~ClockDue
    /\ sessions' = [sessions EXCEPT ![Len(sessions)].disconnected = now,
                                    ![Len(sessions)].published = now,
                                    ![Len(sessions)].kind = kind]
    /\ down' = TRUE
    /\ UNCHANGED <<now, menu, applied, eng, ctx, arb, feats, out, failed, provider, report>>

Connect ==
    /\ down /\ report = None
    /\ sessions' = Append(sessions, Open(Len(sessions) + 1, now))
    /\ down' = FALSE
    /\ UNCHANGED <<now, menu, applied, eng, ctx, arb, feats, out, failed, provider, report>>

\* The gaps the live service knows of: the closed ones and the one that is open.
GapKnown(t) ==
    \/ \E g \in gaps(sessions) : GapAffects(g, t)
    \/ down /\ t >= covered_until(Current)

\* _advance: snapshots, context, baselines and arbitration of one clock.
Decide ==
    /\ report = None /\ ~failed
    /\ ClockDue
    /\ \E t \in {NextClock} :
           IF SnapshotsRefused(eng, t) \/ BuildRefused(ctx, t) \/ DecideRefused(arb, t)
           THEN failed' = TRUE /\ UNCHANGED <<eng, ctx, arb, feats, out>>
           ELSE \E snaps \in {MarkGap(snapshots(eng, t), GapKnown(t))} :
                \E context \in {build(ctx, snaps, t)} :
                \E candidates \in {score_buy_first_baselines(snaps, context, feats)} :
                /\ eng' = EngineDecided(eng, t)
                /\ ctx' = ContextDecided(ctx, snaps, t)
                /\ arb' = ArbitratorDecided(arb, candidates, t)
                /\ feats' = {x \in feats : x.at >= t - PeerLag} \cup {snaps[s] : s \in Symbols}
                /\ out' = out \cup {[at |-> t, upto |-> Len(applied), snaps |-> snaps,
                                     context |-> context,
                                     results |-> decide(arb, candidates, t)]}
                /\ UNCHANGED failed
    /\ UNCHANGED <<now, menu, sessions, down, applied, provider, report>>

\* The close: the last session completes and the day is certified once.
Certify ==
    /\ report = None /\ now > LastBatch[menu]
    /\ failed \/ ~ClockDue
    /\ LET final == IF down THEN sessions
                    ELSE [sessions EXCEPT ![Len(sessions)].disconnected = Schedule.close,
                                          ![Len(sessions)].published = Schedule.close,
                                          ![Len(sessions)].hb = Schedule.close,
                                          ![Len(sessions)].kind = "completed"]
       IN  /\ sessions' = final
           /\ report' = certify_market_day({x \in Range(final) : SessionValid(x)})
    /\ UNCHANGED <<now, menu, down, applied, eng, ctx, arb, feats, out, failed, provider>>

Next ==
    \/ \E batch \in IF down THEN {<<>>} ELSE Menus[menu] : Receive(batch)
    \/ \E kind \in {"error", "stale"} : Disconnect(kind)
    \/ Connect
    \/ Decide
    \/ Certify

Spec == Init /\ [][Next]_vars

-----------------------------------------------------------------------------
\* The events of a symbol accepted among the first n envelopes, by their places in the capture.
AcceptedOf(s, n) == {i \in 1..n : applied[i].kind # "none" /\ applied[i].e.sym = s}

\* Those the engine may still see at a clock: nothing of another stream session or market
\* session has come since.
Visible(s, n, t) ==
    {i \in AcceptedOf(s, n) :
        \A k \in AcceptedOf(s, n) : k >= i =>
            /\ applied[k].e.ses = applied[n].e.ses
            /\ session_at(applied[k].e.et) = session_at(t)}

\* The trades, and the changes from one complete quote to the next, received within w of
\* the clock.
TradesWithin(s, n, t, w) ==
    {i \in Visible(s, n, t) : applied[i].kind = "trade" /\ t - w < applied[i].e.at}

QuotesBefore(s, n, t, i) == {k \in Visible(s, n, t) : k < i /\ applied[k].kind = "quote"}

ChangesWithin(s, n, t, w) ==
    {i \in Visible(s, n, t) :
        /\ applied[i].kind = "quote" /\ t - w < applied[i].e.at /\ is_complete(applied[i].e)
        /\ QuotesBefore(s, n, t, i) # {}
        /\ is_complete(applied[Max(QuotesBefore(s, n, t, i))].e)}

(***************************************************************************)
(* Every feature of a recorded clock is a function of exactly the accepted *)
(* events of the current stream and market session received in its window, *)
(* whatever was reset, pruned or switched on the way (features/engine.py). *)
(***************************************************************************)
SnapshotsArePointInTime ==
    \A d \in {x \in out : x.at = eng.decided} : \A s \in Symbols : \A i \in DOMAIN Windows :
        LET w == d.snaps[s].windows[i]
            trades == TradesWithin(s, d.upto, d.at, Windows[i])
            first == applied[Min(trades)].e  last == applied[Max(trades)].e
        IN  /\ w.trades = Cardinality(trades)
            /\ w.volume = SumFunction([k \in trades |-> applied[k].e.qty])
            /\ w.changes = Cardinality(ChangesWithin(s, d.upto, d.at, Windows[i]))
            /\ w.trades >= 2 => w.return = basis_points(last.price - first.price, first.price)

(***************************************************************************)
(* Replaying the capture, every bar it finalizes holds exactly the accepted *)
(* trades of its symbol, stream session and interval, and no interval is   *)
(* finalized twice (market/state.py, market/replay.py).                    *)
(***************************************************************************)
BarsAreTheirTrades ==
    report # None =>
    \A r \in {replay(sessions)} :
        /\ \A b \in r.bars :
              LET of == {i \in ReplayedTrades(r) :
                           /\ r.events[i].e.sym = b.sym /\ r.events[i].e.ses = b.ses
                           /\ bar_start(r.events[i].e.et) = b.start}
              IN  /\ of # {} /\ b.count = Cardinality(of)
                  /\ b.volume = SumFunction([i \in of |-> r.events[i].e.qty])
                  /\ b.open = r.events[Min(of)].e.price
                  /\ b.close = r.events[Max(of)].e.price
        /\ \A a, b \in r.bars : a.sym = b.sym /\ a.ses = b.ses /\ a.start = b.start => a = b

\* The status message a selection at t may rest on: the last one of the current stream session.
LatestStatus(t, market) ==
    LET ticks == {i \in DOMAIN applied : /\ IsStatusTick(applied[i].e) /\ applied[i].e.sym = market
                                        /\ applied[i].e.at <= t}
    IN  IF ticks = {} THEN None ELSE applied[Max(ticks)].e

(***************************************************************************)
(* A candidate is selected only on a clock whose symbol is warm, complete  *)
(* and free of integrity issues, outside every known transport gap, and    *)
(* with every exchange status tradable; under a declared regime policy     *)
(* that status was received on the stream session in use, never carried    *)
(* over a reconnect (context/engine.py, arbitration/engine.py).            *)
(***************************************************************************)
SelectionsAreAuthorised ==
    \A d \in out : \A r \in d.results : r.status = "SELECTED" =>
        LET snap == d.snaps[r.cand.sym]
        IN  /\ snap.reasons = {} /\ session_at(d.at) \in DecisionSessions
            /\ snap.trade_age <= TradeStale /\ snap.quote_age <= QuoteStale
            /\ \A k \in Markets :
                 LET tick == LatestStatus(d.at, k)
                 IN  /\ tick # None
                     /\ tick.status \in ContextPolicy.tradable
                     /\ d.context.declared => tick.ses = applied[d.upto].e.ses

(***************************************************************************)
(* Two selections of one symbol are at least the cooldown apart and no     *)
(* clock selects more than the capacity or one symbol twice, over every    *)
(* gap, reset and rejected winner in between (arbitration/engine.py).      *)
(***************************************************************************)
CooldownHolds ==
    LET chosen == UNION {{r.cand : r \in {x \in d.results : x.status = "SELECTED"}} : d \in out}
    IN  /\ \A a, b \in chosen : a # b /\ a.sym = b.sym =>
              a.at - b.at >= Policy.cooldown \/ b.at - a.at >= Policy.cooldown
        /\ \A d \in out : Cardinality({a \in chosen : a.at = d.at}) <= Policy.capacity

(***************************************************************************)
(* A certified day lost no trade inside a stream session: for each symbol  *)
(* and session the captured quantities add up to the provider's own        *)
(* cumulative volume, and the first session starts from zero               *)
(* (market/reconciliation.py).                                             *)
(***************************************************************************)
CertifiedVolumeComplete ==
    report # None => (report.status = "passed" =>
        \A i \in DOMAIN report.day, s \in Symbols :
            LET env == report.day[i].env
                trades == {k \in DOMAIN env : decode_event(env[k]) = "trade" /\ env[k].sym = s}
                first == env[Min(trades)]  last == env[Max(trades)]
            IN  trades # {} =>
                  /\ Volume(env, trades) = last.cum - first.cum + first.qty
                  /\ i = 1 => first.cum = first.qty)
=============================================================================
