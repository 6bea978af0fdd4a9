--------------------------- MODULE Reconciliation ---------------------------
(***************************************************************************)
(* capture/reader.py, market/replay.py and market/reconciliation.py: the   *)
(* terminal manifests of a market day are validated, assembled into one    *)
(* logical capture, replayed through the production market state and       *)
(* certified or refused.                                                   *)
(*                                                                         *)
(* A session is the manifest of one transport segment and its rows:        *)
(* [id, symbols, connected, disconnected, published, kind, hb, env] with   *)
(* hb the last heartbeat or None and env the captured envelopes.           *)
(***************************************************************************)
EXTENDS DecisionContext

CLEAN == {"completed", "shutdown"}

\* StreamManifest.validate_summary: the manifest is well formed.
ManifestValid(x) ==
    /\ x.symbols # {}
    /\ x.connected <= x.disconnected /\ x.disconnected <= x.published
    /\ x.hb # None => x.connected <= x.hb /\ x.hb <= x.disconnected
    /\ x.kind \in CLEAN => x.hb # None

\* StreamSessionReader.envelopes: the rows are the session's, in sequence and in time.
SessionValid(x) ==
    /\ ManifestValid(x)
    /\ \A i \in DOMAIN x.env :
          /\ x.env[i].ses = x.id /\ x.env[i].seq = i
          /\ x.connected <= x.env[i].at /\ x.env[i].at <= x.disconnected
          /\ i > 1 => x.env[i - 1].at <= x.env[i].at

\* The last instant backed by a healthy transport heartbeat.
covered_until(x) ==
    IF x.kind = "stale" THEN IF x.hb = None THEN x.connected ELSE x.hb ELSE x.disconnected

(***************************************************************************)
(* StreamDayReader: ordered segments that do not overlap.                  *)
(***************************************************************************)
Earlier(a, b) ==
    \/ a.connected < b.connected
    \/ a.connected = b.connected /\ a.disconnected < b.disconnected
    \/ a.connected = b.connected /\ a.disconnected = b.disconnected /\ a.id < b.id

DayOrder(sessions) ==
    [n \in 1..Cardinality(sessions) |->
        CHOOSE x \in sessions : Cardinality({y \in sessions : Earlier(y, x)}) = n - 1]

DayValid(day) ==
    /\ day # <<>>
    /\ \A i \in 1..(Len(day) - 1) : day[i].disconnected <= day[i + 1].connected
    /\ \A i \in DOMAIN day : day[i].symbols = day[1].symbols

gaps(day) ==
    {[start |-> covered_until(day[i]), end |-> day[i + 1].connected] :
        i \in {j \in 1..(Len(day) - 1) : covered_until(day[j]) < day[j + 1].connected}}

DayEnvelopes(day) == FoldLeft(LAMBDA rows, x : rows \o x.env, <<>>, day)

overlaps(gap, start, end) == start < gap.end /\ end > gap.start

\* _active_gaps: the gaps clipped to the four trading sessions.
_active_gaps(day) ==
    LET clip(gap, w) == [start |-> Max({gap.start, w[1]}), end |-> Min({gap.end, w[2]})]
    IN  {clip(x[1], session_window(x[2])) : x \in
            {x \in gaps(day) \X TRADE_SESSIONS :
                x[1].start < session_window(x[2])[2] /\ x[1].end > session_window(x[2])[1]}}

(***************************************************************************)
(* _capture_set: which sessions may certify the day, or why none can.      *)
(***************************************************************************)
CaptureSet(sessions) ==
    LET ready == {x \in sessions : x.hb # None}
        full == {x \in ready : covers_trading_window(x.connected, covered_until(x))}
        scoped == {x \in ready : x.symbols = Symbols}
        eligible == full \cap scoped
        relevant == {x \in scoped : x.connected <= Schedule.close
                                    /\ covered_until(x) >= Schedule.open}
        day == DayOrder(relevant)
        failed(reason) == [day |-> <<>>, failure |-> reason]
    IN  IF sessions = {} THEN failed("no_terminal_session")
        ELSE IF Cardinality(eligible) > 1 THEN failed("multiple_full_sessions")
        ELSE IF eligible # {} THEN [day |-> DayOrder(eligible), failure |-> None]
        ELSE IF ~\E x \in sessions : x.symbols = Symbols THEN failed("capture_scope_mismatch")
        ELSE IF scoped = {} \/ relevant = {} THEN failed("no_full_session")
        ELSE IF \/ Min({x.connected : x \in relevant}) > Schedule.open
                \/ Max({covered_until(x) : x \in relevant}) < Schedule.close
        THEN failed("no_full_session")
        ELSE IF ~DayValid(day) THEN failed("overlapping_sessions")
        ELSE [day |-> day, failure |-> None]

(***************************************************************************)
(* replay.py: every envelope through MarketState in receipt order, closing *)
(* the bars of a segment at the end of its coverage.                       *)
(***************************************************************************)
InitReplay == [m |-> InitMarket, bars |-> {}, events |-> <<>>, last |-> None, ses |-> None,
               raised |-> FALSE]

CoverageOf(day, id) == covered_until(day[CHOOSE i \in DOMAIN day : day[i].id = id])

\* Advance the market clock to the end of the active segment.
CloseSegment(r, boundary) ==
    LET closed == MarketAdvance(r.m, boundary)
    IN  [r EXCEPT !.m = closed.m, !.bars = @ \cup closed.bars,
                  !.raised = @ \/ Before(boundary, r.last)]

Replayed(r, e, u) ==
    [r EXCEPT !.m = u.m, !.bars = @ \cup Range(u.bars), !.last = e.at, !.ses = e.ses,
              !.events = IF u.kind = "none" THEN @ ELSE Append(@, [e |-> e, kind |-> u.kind]),
              !.raised = @ \/ u.raised]

ReplayStep(day, r, e) ==
    LET closed == IF r.ses # None /\ e.ses # r.ses THEN CloseSegment(r, CoverageOf(day, r.ses))
                  ELSE r
    IN  Replayed(closed, e, MarketApply(closed.m, e))

\* The last segment closes at the end of its coverage, never after the capture ends.
CloseDay(day, r) ==
    LET finish == day[Len(day)].disconnected
    IN  CloseSegment(r, IF r.ses = None THEN finish
                        ELSE Min({finish, CoverageOf(day, r.ses)}))

replay(day) ==
    CloseDay(day, FoldLeft(LAMBDA acc, e : ReplayStep(day, acc, e), InitReplay, DayEnvelopes(day)))

(***************************************************************************)
(* reconcile_capture and ReconciliationReport.status.                      *)
(***************************************************************************)
_interval_progression_issue(p, c) ==
    IF c.et < p.et \/ c.volume < p.volume THEN TRUE
    ELSE IF c.volume = p.volume
    THEN <<c.open, c.high, c.low, c.close>> # <<p.open, p.high, p.low, p.close>>
    ELSE c.open # p.open \/ c.high < p.high \/ c.low > p.low

\* Provider minute revisions of the configured symbols, in receipt order.
IntervalUpdates(day) ==
    SelectSeq(DayEnvelopes(day), LAMBDA e : e.type = "interval" /\ e.sym \in Symbols)

\* A revision is compared with the last accepted revision of its minute; a minute
\* touched by a transport gap is accepted as it comes.
ProgressionIssues(updates, known) ==
    LET affected(e) == \E g \in known : overlaps(g, e.start, e.start + BarInterval)
        step(acc, e) ==
            LET key == <<e.sym, e.start>>
                bad == /\ key \in DOMAIN acc.bars /\ ~affected(e)
                       /\ _interval_progression_issue(acc.bars[key], e)
            IN  IF bad THEN [acc EXCEPT !.count = @ + 1]
                ELSE [acc EXCEPT !.bars =
                        [k \in DOMAIN @ \cup {key} |-> IF k = key THEN e ELSE @[k]]]
    IN  FoldLeft(step, [bars |-> <<>>, count |-> 0], updates).count

\* The accepted trades, by their places in the replayed events.
ReplayedTrades(r) == {i \in DOMAIN r.events : r.events[i].kind = "trade"}

\* The trade that sets a symbol's cumulative-volume baseline.
FirstTrades(r) ==
    {r.events[i].e : i \in {j \in ReplayedTrades(r) :
        \A k \in ReplayedTrades(r) : k < j => r.events[k].e.sym # r.events[j].e.sym}}

ReconciliationRaises(day, r) ==
    \/ r.raised
    \/ \E e \in Range(DayEnvelopes(day)) :
          /\ e.type = "interval"
          /\ ~ProviderBarValid(e) \/ e.sym \notin Symbols \cup BreadthSymbols

ReportPasses(day, r, known) ==
    /\ covers_trading_window(day[1].connected, covered_until(day[Len(day)]))
    /\ day[1].symbols = Symbols
    /\ \A e \in FirstTrades(r) : e.cum = e.qty
    /\ \A i \in ReplayedTrades(r) : session_at(r.events[i].e.et) \in TRADE_SESSIONS
    /\ r.events # <<>>
    /\ ProgressionIssues(IntervalUpdates(day), known) = 0
    /\ \A s \in Symbols, k \in {"trade", "quote"} :
          \E x \in Range(r.events) : x.kind = k /\ x.e.sym = s
    /\ r.m.issues = {}

\* certify_market_day: the selected segments when the day passes, else the reason it fails.
Outcome(status, reason, day) == [status |-> status, failure |-> reason, day |-> day]

reconcile_capture(day, r) ==
    IF ReconciliationRaises(day, r) THEN Outcome("error", "raised", <<>>)
    ELSE IF ReportPasses(day, r, _active_gaps(day)) THEN Outcome("passed", None, day)
    ELSE Outcome("failed", "reconciliation_failed", <<>>)

Certified(set) == IF set.failure # None THEN Outcome("failed", set.failure, <<>>)
                  ELSE reconcile_capture(set.day, replay(set.day))

certify_market_day(sessions) == Certified(CaptureSet(sessions))
=============================================================================
