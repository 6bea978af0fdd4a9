# Formal specification of mini-lakehouse

TLA+ modules, TLC configurations and TLAPS proofs for the stateful parts of
mini-lakehouse: the `t0-trading` service, the ingestion jobs of the lake and the OCR
command. Every definition that stands for code is listed with its source lines in `PROJECT.json` under
`map`; every property of a passing run has a mutant there, a plausible bug of the same
code that the property catches.

## 1. The system

mini-lakehouse is a small data platform. Ingestion commands and EMR jobs feed an Iceberg
lake (`lakehouse/`), Airflow schedules them (`automation/`), dbt models and dashboards read
it (`analytics/`), an OCR engine and a reader application work on papers (`ocr-engine/`,
`arxiv-lens/`), and `t0-trading/` captures a market stream, decides on it, alerts, and
trades on paper.

| Component | State | Operations | Hard behaviour |
|---|---|---|---|
| Paper ledger and order reduction (`execution/ledger.py`, `engine.py`, `model.py`) | cash, inventory, reservations, orders with fills, replayed operation log | reserve/settle entry and exit, accept/fill/cancel/expire/reject, replay | long sequences of legal operations; fees that do not divide evenly; partial fills and exits |
| Paper session commands (`execution/runtime.py`, `matching.py`) | session checkpoint: ledger, orders, log, consumed liquidity, market cursor | `submit_entry`, `submit_exit`, `process_quote`, `advance_clock`, `cancel_order` | repeated or reconnected books, expiry against late quotes, competing orders |
| Paper persistence and workers (`execution/postgres.py`) | `paper_sessions`, `paper_operations` | initialize, load (two SELECTs), commit (compare-and-swap) | several processes, crashes, lost commit answers, stale plans |
| Shadow delivery (`notifications/*`) | `shadow_deliveries`, `shadow_delivery_control`, requests in flight | enqueue, invalidate, claim, may_send, finish, dispatch | Telegram has no idempotency key; leases, timeouts, rate limits, disconnect fences |
| Realtime handoff (`realtime.py`) | bounded queue, failure state, disconnect watermark | offer, disconnected, close; the worker thread's loop | two threads, failing database calls, overflow, shutdown |
| Stream capture (`capture/stream.py`, `spool.py`, `store.py`) | receiver queue, buffer, spool directory, S3 objects | callbacks, drain/flush, stage, deliver, reconnect | callback thread, S3 outages, full spool, crash and restart |
| Market state (`market/`) | per-symbol trade and quote state, open bars, provider intervals | decode, apply, roll a bar, replay, reconcile, certify | lost and repeated trades, out-of-order times, reconnects |
| Features, context, baselines (`features/`, `context/`, `strategy/baselines.py`) | windows of one market session, status, index and breadth history | observe, snapshot, build context, score | resets, warm-up, point-in-time reads, missed halts |
| Arbitration and journal (`arbitration/`) | cooldowns; pending rows, gaps, records; immutable journal objects | ingest, advance, disconnected, close, publish, audit, rebuild | watermark delay, late callbacks, stale streams, crash between objects |
| Promotion and readiness (`promotion/`, `execution/readiness.py`) | one audit, report and gate per date in S3 | publish evidence, evaluate folds, recompute, readiness | killed and repeated days, late manifests, policy changes |
| REST capture and EMR job (`capture/rest.py`, `emr_jobs/market_data/rest_*`) | request and run manifests; landing and curated tables | capture, land, publish each table | provider revisions, retries, runs repeated days later |
| Stream EMR job (`emr_jobs/market_data/stream_*`, `emr_jobs/t0_trading/*`) | landing, curated, certification and fact tables | land, certify, publish facts | killed between two commits, late manifests, index revisions |
| arXiv and GitHub Archive (`lakehouse_ingest/*`, `emr_jobs/arxiv`, `emr_jobs/github_archive`) | immutable day captures; landing partitions; current tables | capture a day, land, merge | days in any order, providers that change while they are read |
| OCR engine and arXiv Lens (`ocr-engine/`, `arxiv-lens/`) | spawned calls; outputs on the worker's volume; immutable artifacts; one `ocr_documents` row per paper | run or reuse, collect, put each file, upsert the row; resolve it | a kill between two uploads, a model that is not deterministic, metadata, PDF and configuration changing meanwhile |

How they interact:

```
SDK callback --queue--> stream capture --spool--> S3 (batches, session manifests)
     |                       |                          |
     |   connected/ingest/advance/disconnected          +--> certification, replay, facts (EMR)
     |                       v                          +--> journal audit or rebuild
     |     journal: market state -> features ->              |
     |     context -> baselines -> arbitration               v
     |                       | offer, disconnected     promotion evidence and gate
     |                       v                               |
     |              realtime handoff --> shadow_deliveries   v
     |                                     ^ claim/finish  readiness: PAPER or OBSERVE_ONLY
     |                                  notifiers --> Telegram
     +--quotes--> paper workers --commit--> paper_sessions, paper_operations

SSI REST, arXiv OAI, GitHub Archive --capture--> S3 manifests --EMR--> landing, curated
```

What makes each part correct. The paper side never spends cash or shares twice, loses a
committed operation, or leaves an order open for ever. The delivery side never sends an
alert twice or lies about what was sent. Capture never publishes a manifest whose batches
are missing or loses staged evidence. A decision uses exactly what had been received by its
clock, on the connection in use, with the exchange known to be open. A certified day lost no
trade. A journal is whole and is what the replay of its capture computes. Paper trading is
switched on only by evidence that still supports it. The lake's tables agree with each
other after every commit, kill and retry, in whatever order days arrive. The artifacts of a
current OCR row are whole and come from one run of the model.

The components that are not modelled, with reasons, and the hazards, each at its line,
are in `PROJECT.json`.

## 2. Modules

```
PaperLedger ---- PaperReplay ---- MCPaperReplay          PaperReplayProofs ---- SumTheorems
     |
     +------ PaperSession ---- PaperExecution ---- MCPaperExecution   PaperSessionProofs ---- SumTheorems
                  |                 | INSTANCE AtomicSession
                  +------ PaperRuntime ---- MCPaperRuntime      PaperSessionProofs
                             | INSTANCE AtomicSession (refinement)
ShadowDelivery ---- MCShadowDelivery                     DeliveryProofs
     |
     +------ RealtimeWorker ---- MCRealtimeWorker        DeliveryProofs
CaptureStream                                            CaptureStreamProofs
Numeric, MarketState ---- FeatureEngine ---- DecisionContext --+-- Baselines ---- Arbitration --+
                                                               +-- Reconciliation --------------+-- TradingDay ---- MCTradingDay
                                                         TradingDayProofs ---- SumTheorems
ShadowJournal ---- MCShadowJournal                       ShadowJournalProofs
Lake ---- RestLake, StreamLake, Promotion, ArxivLake, GithubLake, DocumentOcr ---- Lakehouse ---- MCLakehouse
                                                                           LakehouseProofs ---- SumTheorems
```

### Paper trading

**PaperLedger** holds the constant-level operators shared by the paper modules: money in
units of 1/10000 so that basis-point fees are exact integers, reservation and settlement
(`ledger.py`), and the order reducer (`engine.py`).

**PaperReplay** is `PaperSession.reconcile`: an arbitrary log of intents and events, each
step taken exactly when the replay does not raise. Its invariants therefore hold of every
session the code accepts, whatever produced the log. Intents may carry a `reserved_cash`
smaller than the planner's amount (`Shortfalls`), since only `ledger.py` decides what is
enough.

**PaperSession** gives the commands as functions from a session to a session, with the
planner and the top-of-book matcher; a command that raises returns a session whose `ok`
is FALSE. **PaperExecution** drives one session by commands one at a time.

**AtomicSession** is the abstract specification: one session, changed by one whole
command at a time. **PaperRuntime** is the concrete one: worker processes that issue a
command, read the checkpoint row, read the log rows in a second statement, compute the
transition, and commit with a compare-and-swap on revision and hash. A commit may take
effect and lose its answer, and a process may crash and restart between any two
statements, with paper execution switched on or off. `Serial` is the refinement mapping:
the session is the row that exists, or the empty session.

### Delivery, handoff and capture

**ShadowDelivery** has one action per repository transaction and per step of
`dispatch_one`. A lease's uuid token is modelled by the record's attempt number, which no
two claims of a record share. A request handed to the network stays in `wire` until Telegram
answers it, however long its sender has been gone. Time is the database clock.

**RealtimeWorker** extends it with the capture thread and the worker thread of
`realtime.py`; a step is what one thread does under one hold of the lock, or one database
call. Database calls may fail before or after they took effect.

**CaptureStream** is the receiver's callback thread, the capture loop with its exits in the
code's order, the spool (batches are delivered before manifests) and S3, inside the
reconnect loop. Messages are their receive sequence numbers, so the queue and the buffer
are intervals. An S3 put that reports unavailability may have taken effect; a crash loses
everything but the spool and S3.

### Decisions

**Numeric** is `numeric.py`: decimals are integer numbers of quanta, rounded half up as the
code quantizes them. **MarketState** decodes an envelope, checks it against the order of its
stream session and folds it into hot state and bars. **FeatureEngine** keeps the events of
one market session within the longest window and computes every window value.
**DecisionContext** builds zones, index confirmation, exchange status, breadth and regime
from what was received before the clock. **Baselines** scores the three strategies,
**Arbitration** selects. **Reconciliation** validates session manifests, assembles the day,
replays it through MarketState, compares bars with the provider's intervals, and certifies
or refuses. All of these are functions of state and input, as in the code.

**TradingDay** composes them over a day of two connections: the provider sends batches of a
menu and loses, repeats, delays or cuts messages; the decision loop of
`arbitration/journal.py` takes every clock; after the close the captured sessions are
certified.

**ShadowJournal** is the journal around that loop. The pipeline is deterministic, so a
record is represented by what it is a function of: its clock, the rows applied before it,
and whether it is marked `CAPTURE_GAP`. Its actions are the callback that stamps and then
queues a message, the capture loop, the ends of a session (each of which may find S3
unavailable), the close, the publication through the spool, a crash, and
`ensure-shadow-journal`, which audits or rebuilds and may itself be killed.

### The lake

A task of a DAG is a sequence of commits; `Kill` ends it between any two of them and a later
attempt starts from the beginning, as Airflow's retries and cleared runs do.

- **RestLake**: request manifests, run manifest, landing and the curated tables of one trade
  date, with a provider that revises its data at any time.
- **StreamLake**: the replay job over the session manifests present in S3 when it starts:
  eight market tables per session, the certification, then seven fact tables, each checked
  for compatibility before the insert-only merges (module **Lake**).
- **Promotion**: audit, report and gate of each date as immutable objects; the gate's folds,
  coverage, hit rate and averages in integer quanta; readiness recomputes the preceding
  session's gate from the stored evidence before it trusts it.
- **ArxivLake**: an OAI day harvested page by page while papers change; five commits that
  rewrite authors, categories and papers.
- **GithubLake**: hour files published at any time, captured in parallel, landed and merged
  into events and current actors.
- **DocumentOcr**: one document from the operator's command through the Modal worker, which
  answers from its volume, reuses the published output of an unchanged PDF or runs the model,
  to the artifacts and the row that arXiv Lens checks when it opens the document, its read limits
  included (`WithinLens`). What the model returns is a nondeterministic choice; a file is
  represented by the run it came from.
- **Lakehouse**: the five DAGs and the OCR command write no key and no table in common, so one
  of them is chosen initially and explored apart.

## 3. Runs

| Run | Bounds | Shows |
|---|---|---|
| `replay` | one symbol, two arbitrations, three intents, two prices and quantities, two clocks | any accepted log conserves cash, inventory and cycles (`LedgerConserved`), keeps reservations in step with orders, respects limits on average, and never changes a terminal order |
| `session` | two cycles competing for one symbol, six quotes, three intents | no fill outside an order's life and exits only of what was bought (`OrdersKeepTheirLives`), cash reserve held, a book is not filled twice, priority order |
| `runtime` | two workers, one account, two candidates, one crash | log and checkpoint agree and loads never look torn (`LogIsWhole`), an acknowledged commit is durable, the refinement of `AtomicSession` (`Serializable`), an entry planned on an older ledger is refused |
| `runtime_live` | two workers with different account snapshots | one budget per trade date; every order ends |
| `delivery` | three selections (two conflicting, one corrupt), two notifiers with different attempt budgets, seven ticks | at most once, honest status, finality; a notifier within the window `may_send` reserved for it holds its lease, alone, from the check to the end of its send, and begins no send inside a committed rate limit; every record ends |
| `handoff` | three selections, capacity one, two attempts, a failing database | the persisted watermark is durable; writes are in decision order; a disconnect is persisted or the worker is disabled |
| `capture` | two sessions of two messages, a spool of three objects, one crash | a manifest commits its batches and a clean one covers every queued message (`ManifestsAreComplete`); staged objects survive |
| `decisions` | eighteen seconds, two symbols, one index, one market, two connections; an irregular menu (lost, repeated, late, auction trades) and a regular one (trends and a halt), with and without a regime policy | features are exactly the accepted events of their window; bars are their trades; selections are authorised on the connection in use; cooldown and capacity; a certified day lost no trade |
| `journal` | two clocks, two sessions of one row, two processes, five ticks | a manifest commits one whole journal and, when the service published it, names every session its process ended (`CommittedJournalIsWhole`); a published journal of a certified day is the replay of its capture |
| `lake` | REST: two runs, five attempts over two days, one of them killed, one revision. Stream: four sessions, two clocks, two attempts of the job, two index revisions. Promotion: five dates, two targets, two policy histories, one repeated run, one late manifest. arXiv: two papers of two versions, two days, five attempts. GitHub: three days of two hours, seven attempts. OCR: one command at a time, two configurations, two metadata records, a PDF of one page and then of two, three invocations | PAPER only on evidence that supports it now; reports have their audit; REST tables agree after every commit, and are in order until an older run overtakes a newer one; facts have their parents and one evidence, but for sessions after the last outcome; children match papers or are still pending; papers move forward; current rows are the latest; a current OCR row is whole, and read by arXiv Lens unless above its limits |
| `handoff_close`, `journal_stale` | as `handoff` and `journal` | the two findings of section 6 that a run shows |

Why the bounds suffice for the interesting cases. Three intents allow a cycle with a
partial exit and a second exit, or two competing cycles; prices and quantities of one and
two allow partial fills, better-than-limit fills and reservations that are one unit short.
The quotes of `session` contain a repeated price with a larger and with the same quantity,
a reconnect and a closed market. Two workers are what a compare-and-swap can tell apart. In
`delivery` seven ticks with a lease of two and a lifetime of four allow a claim, a sweep by
the other notifier, a rate limit, a retry and a late answer, and a stall between `may_send` and
the request. The spool of three is filled by
two outages; two sessions let a restart find another session's objects. In `decisions` the
windows of two to four seconds are shorter and longer than the cadence of two, a cooldown of
three spans one clock but not two, and the capacity of one makes the two symbols compete. In
`journal` the watermark of one tick lets a stamped row be queued after its clock is decided.
In `lake`, five trading dates are development, purge and two holdout folds, so that a gate can
pass, fail and change when a date between them is published late; five REST attempts, the last
three on the next day, are a run captured and published on the trade date, and a second one that
is captured the day after with a changed security, killed between the commit that closes the old
row and the one that inserts the new, and published again; the first run may be cleared and
published after it. Of the stream sessions one begins between the clocks, one after the last clock
and one after the last outcome, and the last two carry index values. The archive has an event in two
days, a tie in time and a late day of older events; three OCR invocations are one that is
killed between two files, one that meets its files and one more after a change; the model's
outputs include one that is published though arXiv Lens refuses it and one that the worker keeps
though the CLI refuses it.

`MaxIntents`, `MaxCrashes`, `MaxTime`, `MaxMessages`, `MaxSessions`, `MaxRows`,
`MaxProcesses`, `MaxRevisions`, `MaxKills`, `MaxIndexRevisions`, `MaxVersions`, `MaxReruns`,
`LateManifests`, `MaxRecords`, `FirstBatch`/`LastBatch` and the `...Attempts` are the caps on unbounded
behaviour. `Clis` is one process, since the
documentation has the operator invoke one local command (section 6 says what two can do). The
runs switch deadlock checking off
because these capped systems really stop: a session ends, a window closes, attempts run out.

## 4. Fairness

- `PaperExecution`, `PaperRuntime`: a process that started a command goes on
  (`WF Step`), and clock commands are issued again and again (`SF IssueClock`, since other
  commands keep a process busy). Nothing in the repository wires the paper runtime to a
  scheduler yet; the documentation demands it of the caller ("a separate clock call expires
  orders even without quotes"), so it is an assumption on the caller. A lost commit answer or
  a crash is never required and never prevented, up to its bound.
- `ShadowDelivery`: the clock runs and every notifier polls and goes on with what it started
  (its service restarts on failure and its loop polls). Nothing is assumed of Telegram or of
  the capture process.
- `SendsHoldTheirLease` and `RateLimitSilencesAll` speak of a notifier within the window of one
  timeout that `may_send` reserved for it (`InTime`). The request starts in a step of its own
  (`Send`), however long after the check, and a process that stalls beyond the window is late
  whatever the protocol: section 6 says what it may then do. `AtMostOnce` and `HonestStatus` hold
  for late processes too.
- `RealtimeWorker`: the thread is scheduled, and a database that is asked again and again
  sometimes answers (`SF Database`). Nothing is assumed of the capture thread.
- The decision, journal and lake modules state safety only.

## 5. Proofs

TLAPS checks these for every value of the constants that satisfies the named assumptions
(TLC evaluates each of them on the runs): `PaperLedgerAssumption`, `PaperReplayAssumption`,
`PaperSessionAssumption`, `DeliveryConstants`, `WorkerConstants`, `CaptureConstants`,
`JournalAssumption`, for the decisions `MarketAssumption`, `FeatureAssumption`,
`ContextAssumption`, `BaselineAssumption`, `ArbitrationAssumption` and `DayAssumption`, and for
the lake `RestAssumption`, `StreamAssumption`,
`PromotionAssumption` with `StoredIsPresent`, `ArxivAssumption`, `GithubAssumption` and
`OcrAssumption`. They say what kind of value a
constant is: which numbers are positive, which sets are finite, that the absent value `None`
is none of the stored ones. `Readable` of the lake and `Priority` name a hypothesis of their own,
given below.

**PaperReplayProofs**: `TypeCorrect`, `Matching`, `Average`, `Finality`, `Conservation`
(`LedgerConserved`). `TypeOK` is not
inductive alone: a settlement credits what its reservation holds, so the reservation must be
known to belong to that order. The inductive invariant is

    ReplayInv == TypeOK /\ ReservationsMatchOrders /\ FillsWithinReservations

where the last part says that no order is filled beyond its quantity and that a live entry's
reservation holds exactly its quantity. Every replay step is one lemma per kind of operation.
`TypeOK` has content beyond types: `Nat` for cash and positions says that no accepted log
overdraws them.

Conservation needs two facts more, in `ConserveInv`: the entry an exit names is settled, so no
settlement of an entry meets an exit already sold from it; and a settled entry reserves no
cash, so a reservation that disappears when its last share is sold takes none with it. Each
kind of step then changes at most one term of each sum, and the amounts that move cancel. The
lemmas about sums are in **SumTheorems**: what `SumFunctionOnSet` is on the empty set and what
adding, removing or replacing a term does to it, how it bounds, joins and renames, and what the
sum over a union of disjoint sets is. `SumFunctionOnSet` is a fold that takes terms
in an order `CHOOSE` gives, so the lemmas rest on two facts proved there: the recursive function
under the fold exists, and any term may be taken first. Both are proved by a smallest set on
which they would fail, which replaces induction.

**PaperSessionProofs** has the theorems of PaperExecution (`SessionSpec => ...`) and of
PaperRuntime (`Spec => ...`), which share the lemmas about sessions.
Of PaperExecution: `CashReserved` (`CashReserveHeld`), `OrderLives`
(`OrdersKeepTheirLives`), `LiquidityShared` (`LiquidityNotReused`), `Priority`
(`PriorityRespected`, assuming `SessionsApart`), for every set of
arbitrations, symbols and quotes that satisfies `PaperSessionAssumption`, which states the types
and bounds that the fields of `PaperMarketSnapshot` and `PaperExecutionVersion` declare. A
command is a whole function of the session, so the induction is over sessions: `Good(s)` says
that the order table and the reservation table run side by side; that every order is within
its life; that a reservation being held or sold is that of a settled entry and holds no more
than the entry bought; that a live exit is the one its parent waits for, which is why a cycle
has at most one; and that the reserve is held. There is one lemma for each operator a command
is composed of, from a settlement to an appended event to a turn of a loop. An entry can take
cash only when the planner left the reserve standing, and a settlement returns at least what it
spends, because `CanSettleEntry` bounds the cost by the reservation.
Liquidity needs what a turn of `process_quote` has spent (`Spent`): what the orders of a leg
were filled since the quote began plus what is left of the leg's budget is the budget at the
start, so the fills of a quote add up to at most what `Budget` allows. The matcher's queue is
defined by ranks, and `EveryRankIsTaken` shows by the pigeonhole principle that in a finite
strict order every rank is someone's, without which the queue would list unspecified values.
The loops are functions of the number of turns taken; that they exist, and what they keep, is
shown by `UpTo`, a count from a smallest counterexample.

Priority needs three facts more. Orders are filled in whole lots (`InLots`: quantities, fills
and held reservations are multiples of the lot, and a live order is not full), so an order that
a turn leaves live, though the quote may fill it, has left less than a lot of the leg's budget
(`FillLeavesLess`), and from less than a lot every later turn fills nothing (`NothingToFill`);
`Served` carries this through the loop, turn by turn. The queue lists every eligible intent
once, those ahead of it first (`QueueInOrder`). And no order has already seen the quote:
`SeenIn` says that the positions an order has seen are those of quotes no later than its
symbol's cursor, and a quote the cursor accepts is later than all of them. The last step is
where `SessionsApart` is used: a position of a symbol's stream has one receipt time, and the
quotes of a symbol received at one instant came in one session of the stream. An envelope has
one sequence number and one receipt time (`capture/stream.py:143`), and between two sessions
lies a reconnect; `MCPaperExecution` has TLC evaluate it on the quotes of the run.
`process_quote` does not enforce it: of two quotes with the same times and different sessions
it accepts the first once more after the second, and then passes over the intents it has filled
before.

Of PaperRuntime: `OneBudget`, `Refinement` (`Spec => Serializable`), `FreshAdmission`,
`Whole` (`LogIsWhole`), `Durable` (`AcknowledgedIsDurable`). `RuntimeInv` says that at most one
row exists and that a worker about to commit holds a well-formed command, the row it loaded,
and the transition of that row by that command. A commit then maps to one `Execute` of the
abstract session and every other step to a stutter, whatever the transition function computes.
`LogInv` adds what the two tables need: the log is the row's operations; what a worker loaded
is what the log of its account began with, so that other workers' commits may append to it
without tearing the second SELECT; what it is about to commit extends what it loaded; and
nothing is acknowledged before it returns. The splice of new operations onto the log is only
meaningful for sequences, so one lemma per command shows that the session it returns keeps its
operations a sequence, through the loops over orders of `advance_clock` and `process_quote`.
Those loops are recursive functions, and facts about them (also that they exist) are shown by
a smallest index at which they would fail (`FirstOf`), which stands in for induction.

**DeliveryProofs** covers ShadowDelivery and RealtimeWorker: `TypeCorrect`, `Once`, `Honest`,
`Finality`, `FencedOut`, `Leasing`
(`SendsHoldTheirLease`), `Silence` (`RateLimitSilencesAll`). The
invariant `DeliveryInv` follows one attempt. A busy notifier owns the latest attempt of a
record that is SENDING or UNKNOWN, alone: the record can become PENDING, and so be claimed
again, only through that notifier's own finish, because the sweep turns a lost lease into
UNKNOWN. A request on the wire carries the latest attempt's token and nothing of its record
was delivered before. What a notifier is about to record agrees with the chat, and unless
it is UNKNOWN its request is no longer on the wire. `FencedOut` (`NothingFencedPending`)
says that nothing decided before a committed disconnect is waiting to be sent; no run repeats
it. These use no timing, so they hold for every lease, timeout, pause and number of notifiers.
`Leasing` needs a second invariant, `LeaseInv`: one record at a time is SENDING, and a notifier
still within the window of its check, whether its request has left or not, has a lease and an
alert's deadline beyond that window, which is what `may_send` checked; and the shared cooldown is
over (`Quiet`): the check found it so, and a limit is committed only by a finish under a lease,
which nobody else holds within the window. `Silence` needs `RateInv` besides: a record is scheduled
beyond the clock only as far as the shared cooldown reaches, because a notifier delays a record
only when Telegram limited it.
Of the worker it proves `WatermarkDurable` (`PersistedIsDurable`) and `OrderlyWrites`
(`WritesInOrder`). `WorkerInv` has one part per promise: the disconnect the thread is about to
record as persisted has reached the database; the selection being delivered is the last one
admitted for its symbol and no row of that symbol is later, although `_admit` ran long before
the insert and the insert may have happened without its answer arriving.

**CaptureStreamProofs**: `Complete` (`ManifestsAreComplete`), `Survival` (`StagedSurvives`).
`CaptureInv` ties the capture thread's place in the code to its data: the batches of the running
session are staged and consecutive, and cover what was drained once the final flush has run; a
running drain's work list is the whole spool; every manifest, staged or stored, lists batches
that are staged or stored. That a stored manifest's batches are in S3, and no longer only
staged, is the order of `CaptureSpool.drain`, which puts batches first.

**ShadowJournalProofs**: `Whole` (`CommittedJournalIsWhole`) and `Replayable`
(`PublishedIsReplay`), from `JournalAssumption`.

For `Whole`, half of the proof is about the journal object: whatever is called on it, live or
in a rebuild, its records are those of the clocks before the next one, a clock is decided only
when time has reached it, and only `close` makes a manifest. The other half is `JournalInv`:

- `Seen`: the journal of a process that captures has the ids of exactly the sessions the
  process connected, so a close that accepts the manifest URIs names all of them;
- `Spooled`: the spool holds the first objects of one manifest. A second process cannot add
  another's: the first journal was closed after the last clock, so the second connects after the
  first clock, which fails its journal for good. This needs a day of at least two clocks, as
  `JournalAssumption` states: sessions last hours and a cadence at most a minute;
- `Stored`: the manifest is in the store only beside its own two bodies. A delivery brings
  object n only after the ones before it were found equal, and `IfNoneMatch` lets a rebuild
  continue a half-delivered spool only with the same bodies;
- `Rebuilding`: a rebuild runs when no session can change the day, so each of its puts is of the
  same journal.

`Replayable` compares a history with a function of the whole day, in four steps:

- `Faithful`, of the journal object and the set R of rows it was given: every row of R is applied
  or waiting in order, or came after the last clock; and every record holds the rows of R up to
  its clock and the gap mark the journal would give that clock now. Each call keeps it under the
  condition its callers meet: a connection, the end of a session or a batch comes after the
  last decided clock (`ConnectedFaithful`, `DisconnectedFaithful`, `IngestFaithful`), and then no
  recorded mark changes (`MarkKept`). A closed journal is then a report of R and of the gaps the
  journal knows (`CloseFaithful`). A row or an end exactly on a clock breaks it, hence `Coincides`.
- `FaithInv`, of the running system: `TimeInv` says that rows are queued in the order received
  while their session is connected, and that sessions follow each other; `Hearing` says that,
  unless one of the excepted cases has happened, the journal of a process that captures is
  faithful to the rows of that process's sessions and knows exactly the gaps between them; and
  `Truthful` that a manifest the service closed, staged or stored is the report of consecutive
  sessions of the day, and any other one in the store the rebuild of a day that is over.
- `RebuiltIsReplay`: the rebuild reads the certified sessions row by row, all rows of an instant
  before the clock moves past it (`ReplayRowFails` otherwise), so it is the same report of them
  unless a clean stop inside the day opens no gap (`StoppedEarly`).
- `AuditIs`: the audit's replay over the certified sessions (`Certificate`: some of the day's, in
  order, connected before the close, the last one covering it) is the report of the sessions the
  manifest names. The certified and the named sessions may differ only beyond the close, where
  neither rows nor gaps reach a clock (`LiveIsReplay`), which is what `LineageMatches` demands.

That a gap ends with a warm-up is used once: `Warmup` is at least 1, as `configuration.py:213`
has it. The loops over clocks, rows and sessions are recursive functions again; one lemma
(`Counting`) gives each of them what a loop invariant would.

**TradingDayProofs**: `Cooldown` (`CooldownHolds`), `CertifiedVolume`
(`CertifiedVolumeComplete`), `Bars` (`BarsAreTheirTrades`), `Selections`
(`SelectionsAreAuthorised`), `PointInTimeSnapshots` (`SnapshotsArePointInTime`), for every feed, schedule, set of symbols and policy the assumptions
allow, over any number of seconds, sessions and clocks. Of the code outside `src/` they assume
what `DayAssumption` says of a message: its quantity is a natural number, its price and times
are integers; the provider may lose, repeat, delay or invent any of them. The folds over a
batch, a capture and a day are those of the community modules; `FoldRounds` shows that such a
fold is a loop, turn by turn, and one lemma per fold (`BatchLoop`, `RowsLoop`, `ReplayLoop`, ...)
makes a loop invariant available.

- `Cooldown`: `CooldownInv` says that the recorded selections of a symbol are never later than
  the arbitrator's last one of it and that no clock is recorded twice (`ChosenInv`), and that
  no record is of a clock after the arbitrator's (`ClocksInv`). The arbitration of one clock needs that a clock has at most one candidate of
  each strategy and symbol, and that priority, symbol rank and strategy give a strict order, so
  that the winners of each symbol are one and their ranks distinct.
- `CertifiedVolume`: `CaptureInv` says that session n has identifier n and holds rows numbered
  1, 2, ... of that session; a passed day is then replayed as it was captured
  (`SessionsRecorded`, `OrderedDay`, `DayPlaces`: a row of session n is found at n's offset). Along
  the replay `MarketApply` keeps, for every symbol, that the trades accepted since the session
  began add up to the difference of the provider's cumulative volume (`SumsUp`), or an issue has
  been recorded, and an issue refuses the day.
- `Bars`: the loop invariant of the replay (`BarInv`) says that every bar, open or finalized,
  holds exactly the accepted trades of its interval so far (`Filled`), that no accepted trade of
  a session is of a later interval than the symbol's open bar (`OpenBar`), and that a finalized
  bar is of an earlier interval or of a session that is over (`ClosedBar`). Nothing is then added
  to a finalized bar: a trade of an older interval is out of order and not accepted.
- `Selections`: three facts meet. `EngineFits`: what the feature engine keeps of a symbol's last
  trade and quote is what the market state keeps, whatever a reset or a session switch dropped,
  so that a snapshot without reasons is fresh (`SnapshotReady`). `ContextFits`: the last status
  kept of a market is the last one received, under a regime policy one of the session in use,
  because `Forgets` clears the status when the session changes. And a recorded decision speaks of
  the rows before its clock: rows that come later carry the later time (`Extends`), so neither
  the status nor the session a selection rests on can change afterwards.
- `PointInTimeSnapshots`: the events a symbol's queues should hold are the live ones (`Live`):
  accepted, and followed by none of another stream or market session. `Lists` says what the
  queues hold of them: their trades, and their changes from one complete quote to the next, in
  order, with none missing that was received within the longest window of a clock still to
  come. `AllSeen` says it at every clock the engine may still be asked for. An event is added
  (`ListsTaken`), a queue is pruned up to the clock (`ListsPruned`), or the session changes and
  both the queues and the live events start again (`LiveAfter`, `FreshLists`, `LiveOver`); this
  needs that events happen no later than they are received, and that market sessions do not
  recur. A window over the queue is then a bijection, in order, with the events received in it
  (`Pairs`), so the counts, the sums (`SumCarried` of SumTheorems) and the first and last prices
  agree (`WindowIs`); later rows do not change what was visible at a recorded clock
  (`PointInTimeMore`).

**LakehouseProofs** has one section per DAG, each with an inductive invariant that says how far
the running task has come and what of its work is therefore visible:

- `Proven` (`EvidenceIsProven`): `PromotionInv` holds what an attempt stored before each step.
- `Earned` (`PaperIsEarned`): `Sourced` adds that a stored report is the one of some evidence of
  its own day under the policies in force that day. The rest is about one state, for every
  number of days, every cohort, every fold length and every set of selections: the folds of the
  gate are the complete blocks of the cohort (`HoldoutsAreBlocks`); selections and outcomes
  counted session by session, then fold by fold, are those of all the tested days (`CountsIn`,
  `TotalIs`); each of the three roundings adds at most half a quantum per outcome
  (`SessionRowIs`, `FoldRowIs`, `TotalIs`, `RateAbove`), which is where the `- 1` and `- 3` of
  the property come from. SumTheorems has what this needs of sums over a family of sets.
- `Readable` (`DocumentsAreReadable`), assuming `OneOperator`: `OcrInv` says that the current row
  is whole (`RowIsWhole`), that the files of a run below its position are stored from its own
  output, that a call's job is that of the run waiting for it, and that a reference to reuse is
  the current row's. A whole row is read by arXiv Lens unless a file is above Lens's limits. With
  two operator processes it is not invariant (section 6).
- `Repairable` (`ChildrenMatchPapers`), `Forward` (`PapersMoveForward`): `ArxivInv` says that
  records captured later are of later versions, that a landed day is its manifest, and that the
  papers being rewritten are exactly the day's pending ones.
- `Latest` (`CurrentIsLatest`): `GithubInv` adds that every row of a merged day gives way to the
  current one, and that the day being published has its events settled before its actors.
- `WholeMatrix` (`ResearchMatrixWhole`), for every choice of starts: one selection of sessions
  explains every visible row, those of the running job included, as far as the rows can tell
  selections apart: two that differ in sessions beginning after the last outcome give the same
  features and labels (`Read`), and the property leaves exactly those sessions of an evaluation's
  evidence open (section 6).
- `Consistent` (`RestTablesConsistent`), without a hypothesis on what operators clear: `BaseInv`
  has what holds in any order of runs, which gives the dense revisions and the reconciled daily
  bars. While no older run has been captured or published after a newer one (`~overtaken`, a
  history variable that no action reads), `OrderInv` says that the running task is that of the
  newest run, and that the requests of an earlier run were all received before those of a later
  one; what a publication finds is then older than what it brings, which is what makes revision
  numbers follow availability and closes a security before its successor opens. Once a run is
  overtaken, neither is claimed (section 6).

Only model-checked: liveness (`OrdersEnd`, `EveryRecordEnds`, `DisconnectPersisted`), since
fairness is outside the prover. Every other property that a passing run lists is the statement
of a theorem.

## 6. Findings

Shown by a run:

- `handoff_close` (`realtime.py:96`): a disconnect reported just after the worker thread found
  nothing to persist, followed by `close`, never reaches PostgreSQL although the database
  works. A test of the repository asserts that exactly this sequence persists it.
- `journal_stale` (`capture/stream.py:400`): a stale stream is noticed after the journal has
  decided clocks past the last heartbeat. The gap is dated back to the heartbeat, the journal's
  records are not, and the audit refuses the journal for good.

Shown by checking a definition that no run lists:

- `realtime.py:139`: a transient error of a thread still inside its call overwrites the
  `QUEUE_OVERFLOW` failure, and its recovery clears it; the worker then reports being disabled
  without a reason. Add `INVARIANT DisabledReportsFailure` to `MCRealtimeWorker.cfg`.
- `capture/stream.py:373`: a message that cannot be queued between the loop's last health check
  and the SDK's disconnect is missing from a session that ends as completed. Add
  `INVARIANT CleanIsComplete` to `MCCaptureStream.cfg`.
- `telegram.py:95-102`: a notifier that passes `may_send` and stalls beyond its lease before the
  request sends whatever was committed meanwhile. Its record is swept to UNKNOWN, another notifier
  is rate limited and commits the cooldown, and the first request starts inside it, although
  `docs/content/docs/capabilities/t0-trading.mdx:546-547` says that other pending messages observe
  the same cooldown. In the same way the request may start after the alert's deadline, and, stalled
  or not, after a disconnect committed since the check. Add `PROPERTY EverySendObservesLimits` to
  `MCShadowDelivery.cfg`.
- REST: clearing the capture of a run after a newer one has begun, or its publication after a
  newer one's, leaves two open rows of one security and revisions out of availability order
  (published rows). Neither the DAG (`max_active_runs = 1` orders tasks, not runs) nor the code
  refuses it, and `docs/content/docs/operations/incident-response.mdx:24` tells operators to retry
  a complete bounded source window. `RestTablesConsistent` excepts it by `overtaken`. Add
  `INVARIANTS OneCurrentSecurity RevisionsFollowAvailability` to `MCLakehouse.cfg`.
- Stream: a session that begins after the last outcome is decided (a reconnect late in the
  closing auction) and is delivered after a complete day changes neither features nor labels. If
  it is the first to carry index values, the next job publishes a second, LIVE evaluation beside
  the HISTORICAL_PROXY one, of other evidence (published rows). `ResearchMatrixWhole` excepts it by
  `Read`. Add `INVARIANT EvaluationsShareEvidence` to `MCLakehouse.cfg`.
- OCR: the worker and the CLI allow an output of 1 GiB (`ocr-engine/config.yaml:7`), arXiv Lens
  reads at most 2 MiB of a manifest, 32 MiB of a page's picture, 64 MiB of the pages and 128 MiB of
  the elements, unpacked (`artifacts.py:23-26`). An output in between is published as the current
  row, and Lens refuses to show it. `DocumentsAreReadable` excepts it by `WithinLens`. Add
  `INVARIANT LensReadsEveryRow` to `MCLakehouse.cfg`.

Met while modelling the journal, and excepted by name in `PublishedIsReplay` or refused by
the audit:

- A clean stop inside the day and a restart: `recovery.py:94-98` opens no gap for a clean
  session, while the audit's gaps come from the manifests, so a rebuilt journal differs
  (`StoppedEarly`).
- `journal.py:264`: once the last clock is decided, rows are dropped by `ingest`; a row stamped
  before that clock but queued later is in the capture and not in the journal (`missed`).
- A row or a session's end that falls exactly on a clock (`Coincides`).
- A connection that fails before the first clock: the journal's sessions and the certified
  capture's differ, and `audit.py:205-216` refuses the lineage.

Met while modelling the lake. All of them fail closed: a task is refused, and no wrong row is
published, except where said.

- REST: a provider that goes from A to B and back to A leaves B as the latest revision
  (published): A's row exists already.
- REST: `securities` is committed before `_validate_market_data`
  (`rest_curated.py:826-829`), so a capture that is refused has already changed that table.
- REST: a capture torn by a kill and completed after a revision keeps its run's identity; the
  run is then refused at every retry and a new run is needed.
- Stream: windows merged, job killed, a late manifest delivered: every retry is refused by
  `require_compatible`, although the comment at `t0_trading/features.py:159-161` says that a
  retry completes both merges. The same happens to decision contexts when the REST job revises
  index bars in between.
- Stream: a late manifest after a complete day updates the certification and is then refused by
  the facts, which stay those of the older evidence.
- arXiv: a paper changed during a harvest can be listed twice; the immutable day is then
  refused for good. GitHub: an event in two hour files of a day likewise.
- Promotion: a date published after a later gate makes that gate irreproducible: it cannot be
  put again, and readiness stays OBSERVE_ONLY for the day after it. A late manifest after the
  audit was put does the same to that date's evidence.
- OCR: a command killed between two uploads, then a metadata-only revision of the paper, makes
  a new job of the same PDF; the model answers differently and every later attempt ends in
  "Immutable OCR artifact collision", although `docs/content/docs/operations/incident-response.mdx:28-29`
  says that running the command again converges on immutable artifacts and one current row.
- OCR: going from configuration A to B and back to A after a metadata-only revision: the output
  kept for the job is marked reused, the row no longer offers that reuse, and the command refuses
  it ("Reused OCR lineage does not match its job").
- OCR: the CLI limits the pages as they are unpacked (`output.py:208-217`), the worker only the
  files as they are stored. An output between the two stays committed on the volume, answers
  every later attempt of its job and is refused by each.
- OCR, with two processes in `Clis`: `_publish_file` looks for the object and then uploads
  unconditionally, so two commands for one paper can leave files of two runs under one row, and
  TLC finds `DocumentsAreReadable` violated (published; arXiv Lens refuses to open it).

## 7. Not modelled

Message wording, digests and identities of immutable records (a digest is the value it is
taken of), configuration parsing, option parsing, logging and health counters; the capture
variant without a spool; the price arithmetic of outcomes and the simulator, which are pure
functions over large numeric inputs and touch no shared state; the baseline research reports;
column normalisation in Spark (a row is the version of the data it was read from); Iceberg
maintenance, which calls the engine's own procedures; catalog and contracts, which are
declarative; Airflow's operators and callbacks; arXiv Lens's search and pages, and the start
and stop of the model server; analytics and infrastructure. In `StreamLake` certification is a constant function of the manifests found
(module Reconciliation models it), and in `Promotion` a date's evidence is a value of its
certified capture.

## 8. Plan

Compare the simulator's order lifecycle with PaperSession's matcher, and the outcome labels'
quote tape with the features' windows.
