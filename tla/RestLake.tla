------------------------------ MODULE RestLake ------------------------------
(***************************************************************************)
(* One trade date of the SSI REST pipeline: capture/rest.py writes request *)
(* manifests and a run manifest to S3, and the EMR job (rest_manifest.py,  *)
(* rest_landing.py, rest_curated.py) publishes that run to the landing and *)
(* curated Iceberg tables, one commit after the other.                     *)
(*                                                                         *)
(* The scope is one symbol, one index and one minute bar, so a request has *)
(* one page.  A record's content is the version of the provider's data it  *)
(* was read from; `at` is the attempt that received it, and DayOf gives    *)
(* the market date of an attempt (day 1 is the trade date).  A page object *)
(* is content addressed and only read through the manifest put after it,   *)
(* so page and request manifest are one step.  Membership requests behave  *)
(* as the index-bar request does and are left out.                         *)
(***************************************************************************)
EXTENDS Lake, Naturals, Sequences, FiniteSets, FiniteSetsExt, SequencesExt

CONSTANTS Runs,          \* DAG runs of the trade date
          DayOf,         \* market date of each task attempt, in order
          MaxRevisions,  \* bound: provider revisions
          MaxKills       \* bound: tasks killed

ASSUME RestAssumption ==
    /\ Runs \in Nat \ {0}
    /\ DayOf \in Seq(Nat \ {0})
    /\ \A t, u \in DOMAIN DayOf : t < u => DayOf[t] <= DayOf[u]
    /\ None \notin Int

VARIABLES provider,      \* the data the provider serves now
          revisions,     \* how often it was revised
          now,           \* attempts so far
          kills,         \* how many tasks were killed
          latest,        \* newest DAG run
          task,          \* the running task, or idle
          store,         \* S3: request manifests and run manifests
          lake,          \* landing and curated tables
          done,          \* runs whose REST publication has completed
          overtaken      \* history: was an older run captured, or published, after a newer one?

restVars == <<provider, revisions, now, kills, latest, task, store, lake, done, overtaken>>

TRADE_DATE == 1
Idle == [name |-> "idle", run |-> 0, step |-> 0, index |-> None]

\* Requests of one attempt.  The availability is a request parameter and so part of
\* the request's identity.
Requests(index) ==
    <<"info", "summary", "daily", "minute", "master", "index_summary",
      IF index = None THEN "index_unavailable" ELSE "index_captured">>

\* What load_page returns for a request.  The index bars were read when the attempt
\* began; every other endpoint is called now.
LoadPage(request) ==
    CASE request = "info" -> provider.info
      [] request \in {"summary", "daily", "minute", "index_summary"} -> provider.prices
      [] request = "master" -> provider.reference
      [] request = "index_captured" -> task.index
      [] request = "index_unavailable" -> None

RestInit ==
    /\ provider = [info |-> 0, prices |-> 0, reference |-> 0]
    /\ revisions = 0 /\ now = 0 /\ kills = 0 /\ latest = 0 /\ task = Idle
    /\ store = [requests |-> [r \in 1..Runs |-> <<>>], runs |-> [r \in 1..Runs |-> None]]
    /\ lake = [records |-> {}, publications |-> {}, securities |-> {}, daily |-> {},
               bars |-> {}, index_bars |-> {}, indices |-> {}]
    /\ done = {} /\ overtaken = FALSE

\* The provider corrects one of its data sets, or takes a correction back.  Nobody reads
\* the provider while a run is being published, so it may as well have done so before.
Revise ==
    /\ revisions < MaxRevisions /\ task.name # "publish"
    /\ revisions' = revisions + 1
    /\ \E field \in DOMAIN provider : provider' = [provider EXCEPT ![field] = 1 - @]
    /\ UNCHANGED <<now, kills, latest, task, store, lake, done, overtaken>>

(***************************************************************************)
(* Tasks.  max_active_runs = 1: one task runs at a time.  A task that      *)
(* failed or was killed is attempted again by its retry or by an operator, *)
(* who may clear any run of the date, or a new DAG run is triggered.       *)
(***************************************************************************)
Clearable(r) == r \in 1..latest

Begin ==
    /\ task = Idle /\ now < Len(DayOf)
    /\ now' = now + 1
    /\ UNCHANGED <<provider, revisions, kills, store, lake, done>>

Kill ==
    /\ task # Idle /\ kills < MaxKills
    /\ kills' = kills + 1
    /\ task' = Idle
    /\ UNCHANGED <<provider, revisions, now, latest, store, lake, done, overtaken>>

\* capture_rest: an existing run manifest is returned; otherwise the same-day index bars
\* are read before the first request.
StartCapture(r) ==
    /\ Begin
    /\ Clearable(r) \/ (r = latest + 1 /\ r <= Runs)
    /\ latest' = Max({latest, r})
    /\ overtaken' = (overtaken \/ (store.runs[r] = None /\ r < latest))
    /\ task' = IF store.runs[r] # None THEN Idle
               ELSE [name |-> "capture", run |-> r, step |-> 1,
                     index |-> IF DayOf[now + 1] = TRADE_DATE THEN provider.prices ELSE None]

\* A request manifest left by an earlier attempt of the run is reused.
Reuses(r, request) == request \in DOMAIN store.requests[r]

_capture_request ==
    LET r == task.run
        request == Requests(task.index)[task.step]
        record == [value |-> LoadPage(request), at |-> now]
    IN  /\ task.name = "capture" /\ task.step <= Len(Requests(task.index))
        /\ task' = [task EXCEPT !.step = @ + 1]
        /\ store' = IF Reuses(r, request) THEN store
                    ELSE [store EXCEPT !.requests[r] =
                            [q \in DOMAIN @ \cup {request} |->
                                IF q = request THEN record ELSE @[q]]]
        /\ UNCHANGED <<provider, revisions, now, kills, latest, lake, done, overtaken>>

\* The run manifest is put last, naming every request manifest of this attempt.
FinishCapture ==
    LET wanted == ToSet(Requests(task.index))
    IN  /\ task.name = "capture" /\ task.step = Len(Requests(task.index)) + 1
        /\ store' = [store EXCEPT !.runs[task.run] =
                        [q \in wanted |-> store.requests[task.run][q]]]
        /\ task' = Idle
        /\ UNCHANGED <<provider, revisions, now, kills, latest, lake, done, overtaken>>

(***************************************************************************)
(* The publication job.  Every step is one Iceberg commit.                 *)
(***************************************************************************)
\* The run manifest names exactly the requests of the configured scope.
require_bounded_scope(capture) ==
    \E index \in {None, provider.prices} : DOMAIN capture = ToSet(Requests(index))

StartPublish(r) ==
    /\ Begin
    /\ Clearable(r) /\ store.runs[r] # None /\ require_bounded_scope(store.runs[r])
    /\ task' = [name |-> "publish", run |-> r, step |-> 1, index |-> None]
    /\ overtaken' = (overtaken \/ \E p \in lake.publications : p[1] > r)
    /\ UNCHANGED latest

Capture == store.runs[task.run]
IndexStatus(capture) ==
    IF "index_captured" \in DOMAIN capture THEN "index_captured" ELSE "index_unavailable"

\* rest_landing: insert-only MERGE of the records, then of the request publications.
\* Keys hold the run's token, so a run only ever meets its own rows.
LandRecords(tables) ==
    [tables EXCEPT !.records = @ \cup
        {[run |-> task.run, request |-> q, record |-> Capture[q]] :
            q \in {q \in DOMAIN Capture : Capture[q].value # None}}]

LandPublications(tables) ==
    [tables EXCEPT !.publications = @ \cup {<<task.run, q>> : q \in DOMAIN Capture}]

\* _capture_view: the run's rows of the landing table.
Landed(request) ==
    (CHOOSE x \in lake.records : x.run = task.run /\ x.request = request).record

\* _publish_securities: the captured row, if it differs from the open one.
SecurityCandidate ==
    [from |-> DayOf[Landed("info").at], to |-> None, info |-> Landed("info").value,
     at |-> Landed("info").at]

SecurityChanged(c) ==
    LET open == {s \in lake.securities : s.to = None}
    IN  open = {} \/ \E s \in open : s.info # c.info

CloseSecurity(tables) ==
    LET c == SecurityCandidate
    IN  IF ~SecurityChanged(c) THEN tables
        ELSE [tables EXCEPT !.securities =
                {IF s.to = None /\ s.from < c.from THEN [s EXCEPT !.to = c.from - 1] ELSE s :
                    s \in @}]

UpsertSecurity(tables) ==
    LET c == SecurityCandidate
        same == {s \in tables.securities : s.from = c.from}
    IN  IF ~SecurityChanged(c) THEN tables
        ELSE IF same = {} THEN [tables EXCEPT !.securities = @ \cup {c}]
        ELSE [tables EXCEPT !.securities =
                {IF s.from = c.from /\ c.at > s.at THEN c ELSE s : s \in @}]

\* The typed views over the run's records, one for each endpoint.
_market_views(view) ==
    Landed(CASE view = "ssi_daily_ohlc" -> "daily"
             [] view = "ssi_minute_ohlc" -> "minute"
             [] view = "ssi_index_minute_ohlc" -> "index_captured"
             [] view = "ssi_security_summary" -> "summary"
             [] view = "ssi_master_data" -> "master")

\* _validate_market_data: the summary and the minute bars reconcile with the daily bar.
Reconciles ==
    \A view \in {"ssi_security_summary", "ssi_minute_ohlc"} :
        _market_views(view).value = _market_views("ssi_daily_ohlc").value

\* Mutant: the anti-join is missing.
RevisedAlways(rows, source, at, value) ==
    rows \cup {[rev |-> IF rows = {} THEN 0 ELSE Max({x.rev : x \in rows}) + 1,
                source |-> source, at |-> at, value |-> value, run |-> task.run]}

\* A source record already present is not a revision; a new one takes the next number.
Revised(rows, source, at, value) ==
    IF \E x \in rows : x.source = source THEN rows
    ELSE rows \cup {[rev |-> IF rows = {} THEN 0 ELSE Max({x.rev : x \in rows}) + 1,
                     source |-> source, at |-> at, value |-> value, run |-> task.run]}

_publish_daily(tables) ==
    LET parts == <<_market_views("ssi_daily_ohlc"), _market_views("ssi_master_data"),
                   _market_views("ssi_security_summary")>>
    IN  [tables EXCEPT !.daily = Revised(@, [i \in DOMAIN parts |-> parts[i].value],
            Max({p.at : p \in ToSet(parts)}), parts[1].value)]

_publish_bars(tables) ==
    LET bar == _market_views("ssi_minute_ohlc")
    IN  [tables EXCEPT !.bars = Revised(@, bar.value, bar.at, bar.value)]

_publish_index_bars(tables) ==
    IF IndexStatus(Capture) = "index_unavailable" THEN tables
    ELSE LET bar == _market_views("ssi_index_minute_ohlc")
         IN  [tables EXCEPT !.index_bars = Revised(@, bar.value, bar.at, bar.value)]

_publish_indices(tables) == [tables EXCEPT !.indices = @ \cup {Landed("index_summary").value}]

COMMITS == 9

\* The commits in the order of rest_landing.publish and rest_curated.publish.
Commit(step, tables) ==
    CASE step = 1 -> LandRecords(tables)
      [] step = 2 -> LandPublications(tables)
      [] step = 3 -> CloseSecurity(tables)
      [] step = 4 -> UpsertSecurity(tables)
      [] step = 5 -> tables
      [] step = 6 -> _publish_daily(tables)
      [] step = 7 -> _publish_bars(tables)
      [] step = 8 -> _publish_index_bars(tables)
      [] step = 9 -> _publish_indices(tables)

\* Step 5 is the validation, which runs after the securities are committed.  A check that
\* refuses malformed rows ends the attempt where a kill would, and is left to Kill.
Publish ==
    LET s == task.step
        failed == s = 5 /\ ~Reconciles
    IN  /\ task.name = "publish" /\ s <= COMMITS
        /\ lake' = Commit(s, lake)
        /\ task' = IF failed \/ s = COMMITS THEN Idle ELSE [task EXCEPT !.step = s + 1]
        /\ done' = IF s = COMMITS THEN done \cup {task.run} ELSE done
        /\ UNCHANGED <<provider, revisions, now, kills, latest, store, overtaken>>

RestNext ==
    \/ Revise \/ Kill
    \/ \E r \in 1..Runs : StartCapture(r) \/ StartPublish(r)
    \/ _capture_request \/ FinishCapture \/ Publish

-----------------------------------------------------------------------------
\* The revisions of a fact are numbered from zero without a gap and no source record is a
\* revision twice, whatever attempt was killed, retried or cleared (rest_curated.py, _revised).
RevisionsAreDense ==
    \A table \in {"daily", "bars", "index_bars"} :
        /\ {x.rev : x \in lake[table]} = 0 .. Cardinality(lake[table]) - 1
        /\ \A x, y \in lake[table] : x.source = y.source => x = y

\* The numbers follow the order in which the source records became available
\* (market_data.yaml: "Zero-based revision ordered by availability").
RevisionsFollowAvailability ==
    \A table \in {"daily", "bars", "index_bars"} :
        \A x, y \in lake[table] : x.rev < y.rev => x.at < y.at

\* At most one row of a security is open and no two of its rows are effective on one
\* date, although closing the old row and inserting the new one are two commits.
OneCurrentSecurity ==
    \A s, t \in lake.securities :
        s # t => \/ s.to # None /\ s.to < t.from
                 \/ t.to # None /\ t.to < s.from

\* Once a run is published, each of its daily bars has a minute bar of the same prices:
\* a capture that straddles a provider revision is refused as a whole.
DailyReconciles ==
    \A d \in lake.daily : d.run \in done => \E b \in lake.bars : b.value = d.value

\* After every commit, kill and retry the REST tables agree with each other, and as long as
\* no run has been overtaken they are in order: an operator who clears the capture of a run
\* after a newer one has begun, or its publication after a newer one's (operations'
\* incident-response.mdx:24 has bounded windows retried), gives older records the newest
\* revision and may open a second row of a security.
RestTablesConsistent ==
    /\ RevisionsAreDense /\ DailyReconciles
    /\ ~overtaken => RevisionsFollowAvailability /\ OneCurrentSecurity
=============================================================================
