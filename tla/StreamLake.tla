----------------------------- MODULE StreamLake -----------------------------
(***************************************************************************)
(* One trade date of the SSI stream replay job (stream_job.py): it reads   *)
(* every session manifest found in S3, lands each session, certifies the   *)
(* day, and publishes the certified features, outcomes and research facts, *)
(* one Iceberg commit after the other.  It may be killed between any two   *)
(* commits, is attempted again any number of times, and finds manifests    *)
(* that were delivered late.                                               *)
(*                                                                         *)
(* A fact is a row [key, body]: the primary key of its table and what its  *)
(* fingerprint depends on.  A feature snapshot depends on the selected     *)
(* sessions that had begun by its clock.                                   *)
(***************************************************************************)
EXTENDS Lake, Naturals, Sequences, FiniteSets, SequencesExt

CONSTANTS Sessions,      \* stream sessions of the day
          Starts,        \* first clock whose features a session influences
          Clocks,        \* number of decision clocks
          Selects,       \* certify_market_day: manifests |-> selected sessions, {} if failed
          LiveIndex,     \* sessions that carry index values
          Malformed,     \* sessions whose messages the curated views may refuse
          JobAttempts,   \* bound: attempts of the job
          MaxIndexRevisions \* bound: revisions of the REST index bars

ASSUME StreamAssumption ==
    /\ Clocks \in Nat \ {0} /\ IsFiniteSet(Sessions)
    /\ Starts \in [Sessions -> Nat \ {0}]
    /\ \A found \in SUBSET Sessions :
          /\ Selects[found] \subseteq found
          /\ Selects[found] # {} => \E s \in Selects[found] : Starts[s] = 1

VARIABLES delivered,     \* sessions whose manifest is in S3
          indexRevision, \* revisions of index_bars_1m published by the REST job
          malformed,     \* sessions whose messages they do refuse
          job,           \* the running job, or NoJob
          attempts,
          landed,        \* <<table, session>> pairs of the landing and curated market tables
          certification, \* the row of market_day_certifications, or None
          facts          \* the T0 fact tables

streamVars == <<delivered, indexRevision, malformed, job, attempts, landed, certification, facts>>

NoJob == [found |-> <<>>, step |-> 0]

\* The merges of one session, in the order of stream_landing.publish and
\* stream_curated.publish.
SESSION_TABLES ==
    <<"messages", "sessions", "trade_ticks", "quote_snapshots", "quote_levels",
      "market_status_events", "index_membership_snapshots", "constituent_bars_1m">>

\* Mutant: the parent table is merged before its children.
SNAPSHOTS_FIRST ==
    <<"feature_snapshots", "feature_windows", "outcome_labels", "decision_contexts",
      "strategy_candidates", "candidate_arbitrations", "strategy_evaluations">>

\* The merges of the certified facts: children before parents.
FACT_TABLES ==
    <<"feature_windows", "feature_snapshots", "outcome_labels", "decision_contexts",
      "strategy_candidates", "candidate_arbitrations", "strategy_evaluations">>

StreamInit ==
    /\ malformed \in {{}, Malformed}
    /\ delivered = {} /\ indexRevision = 0 /\ job = NoJob /\ attempts = 0
    /\ landed = {} /\ certification = None
    /\ facts = [table \in ToSet(FACT_TABLES) |-> {}]

\* The capture process delivers a session's manifest, possibly long after the session.
DeliverManifest(s) ==
    /\ s \notin delivered
    /\ delivered' = delivered \cup {s}
    /\ UNCHANGED <<indexRevision, malformed, job, attempts, landed, certification, facts>>

\* The REST task precedes this job in the same DAG run and never overlaps it.
PublishIndexBars ==
    /\ job = NoJob /\ indexRevision < MaxIndexRevisions
    /\ indexRevision' = indexRevision + 1
    /\ UNCHANGED <<delivered, malformed, job, attempts, landed, certification, facts>>

\* discover_captures and load_capture; without a manifest the job ends at once.
StartJob ==
    /\ job = NoJob /\ attempts < JobAttempts /\ delivered # {}
    /\ attempts' = attempts + 1
    /\ job' = [found |-> SetToSeq(delivered), step |-> 1]
    /\ UNCHANGED <<delivered, indexRevision, malformed, landed, certification, facts>>

KillJob ==
    /\ job # NoJob
    /\ job' = NoJob
    /\ UNCHANGED <<delivered, indexRevision, malformed, attempts, landed, certification, facts>>

(***************************************************************************)
(* Landing: every session is merged into every market table.  Its rows     *)
(* carry its session id and come from immutable objects, so they never     *)
(* conflict.  The curated views of a session are validated before its      *)
(* first curated merge.                                                    *)
(***************************************************************************)
LandingSteps == Len(job.found) * Len(SESSION_TABLES)

Refused(table, s) == table = "trade_ticks" /\ s \in malformed

LandSession ==
    LET n == Len(SESSION_TABLES)
        s == job.found[((job.step - 1) \div n) + 1]
        table == SESSION_TABLES[((job.step - 1) % n) + 1]
    IN  /\ job # NoJob /\ job.step <= LandingSteps
        /\ IF Refused(table, s) THEN landed' = landed /\ job' = NoJob
           ELSE landed' = landed \cup {<<table, s>>} /\ job' = [job EXCEPT !.step = @ + 1]
        /\ UNCHANGED <<delivered, indexRevision, malformed, attempts, certification, facts>>

\* The certification row follows the growing set of manifests.
Assessed == [evidence |-> ToSet(job.found), selected |-> Selects[ToSet(job.found)]]

Conflicting(new) ==
    /\ certification # None
    /\ \/ Cardinality(new.evidence) < Cardinality(certification.evidence)
       \/ /\ Cardinality(new.evidence) = Cardinality(certification.evidence)
          /\ new.evidence # certification.evidence

Supersedes(new) ==
    IF certification = None THEN TRUE
    ELSE Cardinality(new.evidence) > Cardinality(certification.evidence)

Certify ==
    /\ job # NoJob /\ job.step = LandingSteps + 1
    /\ certification' = IF ~Conflicting(Assessed) /\ Supersedes(Assessed) THEN Assessed
                        ELSE certification
    /\ job' = IF Conflicting(Assessed) \/ Assessed.selected = {} THEN NoJob
              ELSE [job EXCEPT !.step = @ + 1]
    /\ UNCHANGED <<delivered, indexRevision, malformed, attempts, landed, facts>>

(***************************************************************************)
(* The certified facts.                                                    *)
(***************************************************************************)
Selected == Assessed.selected

\* landing.envelopes: the selected sessions' rows of the landing table.
Envelopes(c) == {s \in Selected : <<"messages", s>> \in landed /\ Starts[s] <= c}

Row(key, body) == [key |-> key, body |-> body]

\* _contexts: the live stream's indices, or the newest revision of the REST index bars
\* when no selected session carries one.
DataMode ==
    IF Selected \cap LiveIndex # {} \/ indexRevision = 0 THEN "LIVE" ELSE "HISTORICAL_PROXY"
Context(c) ==
    <<Envelopes(c), IF DataMode = "LIVE" THEN 0 ELSE indexRevision>>

Candidate(c) == <<c, Context(c)>>

SnapshotRows == {Row(c, Envelopes(c)) : c \in 1..Clocks}
LabelRows == {Row(<<c, Envelopes(c)>>, Envelopes(c + 1)) : c \in 1..Clocks}
ContextRows == {Row(<<c, DataMode>>, Context(c)) : c \in 1..Clocks}
CandidateRows == {Row(<<c, DataMode, Context(c)>>, Candidate(c)) : c \in 1..Clocks}
ArbitrationRows == {Row(Candidate(c), [d \in 1..c |-> Candidate(d)]) : c \in 1..Clocks}
EvaluationRows == {Row(DataMode, [evidence |-> Selected, index |-> Context(1)[2]])}

Rows(table) ==
    CASE table \in {"feature_windows", "feature_snapshots"} -> SnapshotRows
      [] table = "outcome_labels" -> LabelRows
      [] table = "decision_contexts" -> ContextRows
      [] table = "strategy_candidates" -> CandidateRows
      [] table = "candidate_arbitrations" -> ArbitrationRows
      [] table = "strategy_evaluations" -> EvaluationRows

\* require_compatible: no row of these tables has the key of a new row and another body.
Compatible(tables) == \A table \in tables : Agree(facts[table], Rows(table))

\* Each publish checks all of its targets before its first merge.
PREFLIGHT ==
    [table \in ToSet(FACT_TABLES) |->
        CASE table = "feature_windows" -> {"feature_snapshots", "feature_windows"}
          [] table = "outcome_labels" -> {"outcome_labels"}
          [] table = "decision_contexts" ->
                {"decision_contexts", "strategy_candidates", "candidate_arbitrations",
                 "strategy_evaluations"}
          [] OTHER -> {}]

PublishFacts ==
    LET n == job.step - LandingSteps - 1
        table == FACT_TABLES[n]
    IN  /\ job # NoJob /\ n \in DOMAIN FACT_TABLES
        /\ IF Compatible(PREFLIGHT[table])
           THEN /\ facts' = [facts EXCEPT ![table] = InsertMissing(@, Rows(table))]
                /\ job' = IF n = Len(FACT_TABLES) THEN NoJob ELSE [job EXCEPT !.step = @ + 1]
           ELSE facts' = facts /\ job' = NoJob
        /\ UNCHANGED <<delivered, indexRevision, malformed, attempts, landed, certification>>

StreamNext ==
    \/ \E s \in Sessions : DeliverManifest(s)
    \/ PublishIndexBars \/ StartJob \/ KillJob
    \/ LandSession \/ Certify \/ PublishFacts

-----------------------------------------------------------------------------
\* Whoever reads a parent row finds everything it refers to: a snapshot its windows and
\* the landed messages of its sessions, a label its snapshot, an evaluation the contexts,
\* candidates and arbitrations of every clock, whatever was killed, retried or delivered
\* late (features.publish: "never a visible snapshot without all of its window facts";
\* research.publish: the evaluation "is the completion boundary").
ParentsHaveChildren ==
    /\ \A row \in facts["feature_snapshots"] :
          /\ row \in facts["feature_windows"]
          /\ \A s \in row.body : <<"sessions", s>> \in landed
    /\ \A row \in facts["outcome_labels"] :
          Row(row.key[1], row.key[2]) \in facts["feature_snapshots"]
    /\ \A row \in facts["strategy_evaluations"] : \A c \in 1..Clocks :
          \E context \in facts["decision_contexts"] :
             LET candidate == <<c, context.body>>
             IN  /\ context.key = <<c, row.key>> /\ context.body[2] = row.body.index
                 /\ Row(<<c, row.key, context.body>>, candidate)
                       \in facts["strategy_candidates"]
                 /\ \E x \in facts["candidate_arbitrations"] : x.key = candidate

\* The sessions of a selection that begin by a boundary, and those that some feature or
\* outcome of the day reads: the outcomes of the last clock are decided at the next boundary.
Begun(selection, c) == {s \in selection : Starts[s] <= c}
Read(selection) == Begun(selection, Clocks + 1)

\* The published matrix of a day comes from one selection of sessions: a manifest that is
\* delivered after some facts are visible never mixes its evidence into them.  Except for
\* the sessions that begin after the last outcome is decided: they are evidence of the
\* evaluations and of no feature or label, so no compatibility check compares them, and an
\* evaluation of the other data mode may be published beside one that lacks them.
OneEvidencePerDay ==
    \E found \in SUBSET Sessions :
        /\ \A row \in facts["feature_snapshots"] :
              row.body = Begun(Selects[found], row.key)
        /\ \A row \in facts["outcome_labels"] :
              row.body = Begun(Selects[found], row.key[1] + 1)
        /\ \A row \in facts["strategy_evaluations"] :
              Read(row.body.evidence) = Read(Selects[found])

\* Without that exception.  No run lists it: a session that begins after the last outcome
\* and is the first to carry index values breaks it.
EvaluationsShareEvidence ==
    \A x, y \in facts["strategy_evaluations"] : x.body.evidence = y.body.evidence

\* The two together: what is published of a day is whole, and comes from one evidence.
ResearchMatrixWhole == ParentsHaveChildren /\ OneEvidencePerDay
=============================================================================
