----------------------------- MODULE Promotion -----------------------------
(***************************************************************************)
(* Shadow-to-paper promotion: the market DAG's last task publishes a day's *)
(* shadow audit, its arbitrated session report and the gate as of that     *)
(* day as immutable objects (promotion/evidence.py, publication.py);       *)
(* promotion/engine.py evaluates the gate over expanding walk-forward      *)
(* folds; execution/readiness.py decides from the preceding session's gate *)
(* whether a trading day may run in PAPER mode.                            *)
(*                                                                         *)
(* Days are scheduled in order; an attempt may be killed between any two   *)
(* writes and a day be run again, at once or days later.  A stream         *)
(* manifest delivered late changes a day's certified capture between two   *)
(* attempts.  A day's evidence is its capture's gap count and its selected *)
(* candidates with the net return of their outcome, None if that is not    *)
(* eligible: the audit and the outcomes are functions of the certified     *)
(* capture, and a digest is the value it is taken of.  A research lineage  *)
(* (the digests of every effective policy) is a model value.               *)
(***************************************************************************)
EXTENDS Lake, Integers, Sequences, FiniteSets, Functions

CONSTANTS TradeDates,        \* number of trading days with a capture
          Targets,           \* (strategy, symbol, horizon) of the gate
          Evidence,          \* day |-> what its capture may amount to
          Configurations,    \* the policies in force: day |-> lineage, or None
          Gate,              \* PromotionGateVersion
          Development, Purge, Holdout,  \* BaselineEvaluationVersion
          RateQuanta,        \* quanta in 1: RATE_QUANTUM
          MaxReruns,         \* bound: retries and cleared runs
          LateManifests      \* bound: late manifests

ASSUME PromotionAssumption ==
    /\ TradeDates \in Nat /\ RateQuanta \in Nat \ {0} /\ Targets # {}
    /\ Development \in Nat /\ Purge \in Nat /\ Holdout \in Nat
    /\ Development >= 2 /\ Purge >= 1 /\ Holdout >= 1
    /\ Gate.selected \in Nat /\ Gate.gaps \in Nat
    /\ Gate.coverage \in Int /\ Gate.positive \in Int /\ Gate.average \in Int /\ Gate.worst \in Int
    /\ Gate.selected >= 1 /\ Gate.worst <= Gate.average
    /\ \A d \in 1..TradeDates : \A e \in Evidence[d] :
          /\ e.gaps \in Nat /\ IsFiniteSet(e.selections)
          /\ \A x \in e.selections : x.target \in Targets /\ x.net \in Int \cup {None}

VARIABLES configuration, certified,   \* day |-> evidence of its certified capture
          late, promotionTask, scheduled, reruns,
          audits, reports, gates      \* day |-> the stored object, or None

promotionVars == <<configuration, certified, late, promotionTask, scheduled, reruns,
                   audits, reports, gates>>

TradingDays == 1..TradeDates

PromotionInit ==
    /\ configuration \in Configurations
    /\ certified \in {c \in [TradingDays -> UNION {Evidence[d] : d \in TradingDays}] :
                        \A d \in TradingDays : c[d] \in Evidence[d]}
    /\ late = 0
    /\ promotionTask = None /\ scheduled = 0 /\ reruns = 0
    /\ audits = [d \in TradingDays |-> None]
    /\ reports = [d \in TradingDays |-> None]
    /\ gates = [d \in TradingDays |-> None]

-----------------------------------------------------------------------------
(***************************************************************************)
(* promotion/engine.py.  A row counts what became of a target's            *)
(* selections; average means nothing while eligible = 0.                   *)
(***************************************************************************)
Decimals == INSTANCE Numeric WITH One <- RateQuanta, Bps <- RateQuanta

rate(numerator, denominator) ==
    IF denominator = 0 THEN 0 ELSE Decimals!ratio(numerator, denominator)

Count(rows, field) == SumFunction([k \in DOMAIN rows |-> rows[k][field]])

\* evidence.py: what became of one target's selections of the day.
SessionRow(day, t) ==
    LET selected == {x \in day.selections : x.target = t}
        eligible == {x \in selected : x.net # None}
    IN  [selected |-> Cardinality(selected), eligible |-> Cardinality(eligible),
         positive |-> Cardinality({x \in eligible : x.net > 0}),
         average  |-> IF eligible = {} THEN 0
                      ELSE Decimals!HalfUp(SumFunction([x \in eligible |-> x.net]),
                                           Cardinality(eligible))]

_weighted_average(rows) ==
    LET eligible == Count(rows, "eligible")
        net == SumFunction([k \in DOMAIN rows |-> rows[k].average * rows[k].eligible])
    IN  IF eligible = 0 THEN 0 ELSE Decimals!HalfUp(net, eligible)

_combine(rows) ==
    [selected |-> Count(rows, "selected"),
     eligible |-> Count(rows, "eligible"),
     positive |-> Count(rows, "positive"),
     average  |-> _weighted_average(rows)]

Required == Development + Purge + Holdout

\* The holdout days of each fold: consecutive blocks after development and purge,
\* by a session's place in the order of dates.
Holdouts(dates) ==
    LET start == Development + Purge
        Place(d) == Cardinality({e \in dates : e < d})
    IN  [k \in 1..((Cardinality(dates) - start) \div Holdout) |->
           {d \in dates : Place(d) \in (start + (k - 1) * Holdout)..(start + k * Holdout - 1)}]

\* evaluate_arbitrated_walk_forward: the holdout row of one target in each fold.
FoldRows(sessions, t) ==
    LET folds == Holdouts(DOMAIN sessions)
    IN  [k \in DOMAIN folds |-> _combine([d \in folds[k] |-> sessions[d].rows[t]])]

WalkForwardRefused(sessions) ==
    /\ Cardinality(DOMAIN sessions) >= Required
    /\ \E d, e \in DOMAIN sessions : sessions[d].lineage # sessions[e].lineage

_target_result(folds) ==
    LET total   == _combine(folds)
        missing == \E k \in DOMAIN folds : folds[k].eligible = 0
        failed  == \/ rate(total.eligible, total.selected) < Gate.coverage
                   \/ total.eligible > 0 /\ rate(total.positive, total.eligible) < Gate.positive
                   \/ total.eligible > 0 /\ total.average < Gate.average
                   \/ ~missing /\ \E k \in DOMAIN folds : folds[k].average < Gate.worst
    IN  IF total.selected < Gate.selected THEN "PENDING"
        ELSE IF failed THEN "FAIL" ELSE IF missing THEN "PENDING" ELSE "PASS"

GateStatus(sessions) ==
    LET holdouts == UNION {Holdouts(DOMAIN sessions)[k] : k \in DOMAIN Holdouts(DOMAIN sessions)}
        gaps     == SumFunction([d \in holdouts |-> sessions[d].day.gaps])
        results  == {_target_result(FoldRows(sessions, t)) : t \in Targets}
    IN  IF gaps > Gate.gaps \/ "FAIL" \in results THEN "FAIL"
        ELSE IF "PENDING" \in results THEN "PENDING" ELSE "PASS"

\* The report binds every session of the cohort once there are enough of them.
evaluate_promotion_gate(sessions) ==
    IF Cardinality(DOMAIN sessions) < Required
    THEN [observed |-> Cardinality(DOMAIN sessions), status |-> "PENDING", walk |-> None]
    ELSE [observed |-> Cardinality(DOMAIN sessions), status |-> GateStatus(sessions),
          walk |-> sessions]

-----------------------------------------------------------------------------
\* publication.py: the sessions up to a day that share the reference's lineage.
load_session_evidence(asOf, reference) ==
    [d \in {x \in 1..asOf : /\ configuration[x] # None /\ reports[x] # None
                            /\ reports[x].lineage = reference.lineage} |-> reports[d]]

BeginPromotion(d) ==
    /\ promotionTask = None /\ configuration[d] # None
    /\ \/ d = scheduled + 1 /\ scheduled' = d /\ UNCHANGED reruns
       \/ d <= scheduled /\ reruns + 1 <= MaxReruns /\ reruns' = reruns + 1 /\ UNCHANGED scheduled
    /\ promotionTask' = [date |-> d, step |-> 0, day |-> certified[d]]
    /\ UNCHANGED <<configuration, certified, late, audits, reports, gates>>

KillPromotion ==
    /\ promotionTask # None
    /\ promotionTask' = None
    /\ UNCHANGED <<configuration, certified, late, scheduled, reruns, audits, reports, gates>>

LateManifest(d, e) ==
    /\ late + 1 <= LateManifests /\ e # certified[d]
    /\ late' = late + 1 /\ certified' = [certified EXCEPT ![d] = e]
    /\ UNCHANGED <<configuration, promotionTask, scheduled, reruns, audits, reports, gates>>

\* evaluate_arbitrated_session reads the capture again and compares it with
\* the one the audit has proven; the task ends if they differ.
EvaluateSession ==
    /\ promotionTask # None /\ promotionTask.step = 0
    /\ promotionTask' = IF certified[promotionTask.date] = promotionTask.day
                        THEN [promotionTask EXCEPT !.step = 1] ELSE None
    /\ UNCHANGED <<configuration, certified, late, scheduled, reruns, audits, reports, gates>>

\* Mutant: the session report is published before its shadow audit.
REPORT_FIRST == <<"report", "audit", "gate">>

\* publish_session_evidence, then publish_gate_evidence.
EVIDENCE == <<"audit", "report", "gate">>

\* evaluate_arbitrated_session's report.
SessionReport(lineage, day) ==
    [lineage |-> lineage, day |-> day, rows |-> [t \in Targets |-> SessionRow(day, t)]]

Report == SessionReport(configuration[promotionTask.date], promotionTask.day)

\* The absent object is neither an audit nor a report.
ASSUME StoredIsPresent ==
    \A d \in TradingDays : \A e \in Evidence[d] :
       e # None /\ \A c \in Configurations : SessionReport(c[d], e) # None

\* put_json: a conditional put that accepts the same body and refuses another.
Accepts(objects, d, body) == objects[d] = None \/ objects[d] = body

\* One put; a conflict, or a cohort the gate refuses, ends the task.
PutEvidence ==
    /\ promotionTask # None /\ promotionTask.step \in DOMAIN EVIDENCE
    /\ LET d        == promotionTask.date
           sessions == load_session_evidence(d, Report)
           Put(objects, name, body) ==
              IF /\ EVIDENCE[promotionTask.step] = name /\ Accepts(objects, d, body)
                 /\ name = "gate" => ~WalkForwardRefused(sessions)
              THEN [objects EXCEPT ![d] = body] ELSE objects
           Step(objects, body) ==
              IF Accepts(objects, d, body) /\ promotionTask.step < Len(EVIDENCE)
              THEN [promotionTask EXCEPT !.step = @ + 1] ELSE None
       IN  /\ audits' = Put(audits, "audit", promotionTask.day)
           /\ reports' = Put(reports, "report", Report)
           /\ gates' = Put(gates, "gate", evaluate_promotion_gate(sessions))
           /\ promotionTask' =
                 CASE EVIDENCE[promotionTask.step] = "audit"  -> Step(audits, promotionTask.day)
                   [] EVIDENCE[promotionTask.step] = "report" -> Step(reports, Report)
                   [] OTHER                                   -> None
    /\ UNCHANGED <<configuration, certified, late, scheduled, reruns>>

PromotionNext ==
    \/ \E d \in TradingDays : BeginPromotion(d)
    \/ \E d \in TradingDays : \E e \in Evidence[d] : LateManifest(d, e)
    \/ EvaluateSession
    \/ PutEvidence
    \/ KillPromotion

-----------------------------------------------------------------------------
(***************************************************************************)
(* execution/readiness.py, with paper execution enabled: the gate of the   *)
(* exact preceding session, recomputed from every stored session.          *)
(***************************************************************************)
\* Mutant: the published gate is believed.
Believed(report, expected) == TRUE

Recomputed(report, expected) == report = expected

PaperMode(t) ==
    LET p == t - 1
    IN  /\ p \in TradingDays
        /\ configuration[t] # None /\ gates[p] # None /\ reports[p] # None
        /\ gates[p].status = "PASS" /\ reports[p].lineage = configuration[t]
        /\ LET sessions == load_session_evidence(p, reports[p])
           IN  /\ p \in DOMAIN sessions
               /\ \A d \in DOMAIN sessions : audits[d] = sessions[d].day
               /\ ~WalkForwardRefused(sessions)
               /\ Recomputed(gates[p], evaluate_promotion_gate(sessions))

-----------------------------------------------------------------------------
\* What is stored is proven: a report's audit, and the audit of the very same
\* capture, is stored before it, and a gate after its own day's report,
\* whatever attempt wrote them (publish_session_evidence).
EvidenceIsProven ==
    \A d \in TradingDays :
       /\ reports[d] # None => audits[d] = reports[d].day
       /\ gates[d] # None => reports[d] # None

\* PAPER is earned under the day's own policies: of all the sessions stored up
\* to the day before that share its lineage, the complete blocks after
\* development and purge, and only those, have few enough gaps, selections
\* enough for every target and outcomes in every block; the rates and net
\* returns of the selections themselves, in all and in every block, meet the
\* gate but for half a quantum per rounding (of a rate, of the day's, the
\* block's and the overall average), whatever was published before
\* (load_paper_readiness).
PaperIsEarned ==
    \A t \in 2..(TradeDates + 1) : PaperMode(t) =>
       LET cohort  == {d \in 1..(t - 1) : /\ reports[d] # None
                                          /\ reports[d].lineage = configuration[t]}
           Rank(d) == Cardinality({c \in cohort : c < d}) - Development - Purge
           blocks  == (Cardinality(cohort) - Development - Purge) \div Holdout
           tested  == {d \in cohort : Rank(d) >= 0 /\ Rank(d) \div Holdout < blocks}
           Block(b) == {d \in tested : Rank(d) \div Holdout = b}
       IN  /\ tested # {}
           /\ SumFunction([d \in tested |-> reports[d].day.gaps]) <= Gate.gaps
           /\ \A g \in Targets :
                LET Chosen(D)   == UNION {{<<d, x>> : x \in {y \in reports[d].day.selections :
                                                            y.target = g}} : d \in D}
                    Eligible(D) == {c \in Chosen(D) : c[2].net # None}
                    Positive(D) == {c \in Eligible(D) : c[2].net > 0}
                    N(S)        == Cardinality(S)
                    Net(D)      == SumFunction([c \in Eligible(D) |-> c[2].net])
                IN  /\ N(Chosen(tested)) >= Gate.selected
                    /\ 2 * RateQuanta * N(Eligible(tested))
                          >= (2 * Gate.coverage - 1) * N(Chosen(tested))
                    /\ 2 * RateQuanta * N(Positive(tested))
                          >= (2 * Gate.positive - 1) * N(Eligible(tested))
                    /\ 2 * Net(tested) >= (2 * Gate.average - 3) * N(Eligible(tested))
                    /\ \A b \in 0..(blocks - 1) :
                          /\ Eligible(Block(b)) # {}
                          /\ Net(Block(b)) >= (Gate.worst - 1) * N(Eligible(Block(b)))
=============================================================================
