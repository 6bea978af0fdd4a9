--------------------------- MODULE LakehouseProofs ---------------------------
(***************************************************************************)
(* What the lakehouse's tables and objects promise their readers, for any  *)
(* number of days, papers, sessions, attempts and kills.  Every pipeline   *)
(* has its own inductive invariant, over its own variables: a step of the  *)
(* lakehouse is a step of the pipeline or leaves its variables alone.      *)
(***************************************************************************)
EXTENDS Lakehouse, SumTheorems, FiniteSetTheorems, WellFoundedInduction, TLAPS

-----------------------------------------------------------------------------
(***************************************************************************)
(* Promotion evidence.                                                     *)
(***************************************************************************)
LEMMA PromotionPart ==
    Spec => PromotionInit /\ [][PromotionNext]_promotionVars
<1>1. Init => PromotionInit
  BY DEF Init
<1>2. [Next]_lakeVars => [PromotionNext]_promotionVars
  BY DEF Next, lakeVars, RunRest, RunStream, RunPromotion, RunArxiv, RunGithub, RunOcr
<1> QED
  BY <1>1, <1>2, PTL DEF Spec

PromotionTypes ==
    /\ configuration \in Configurations
    /\ certified = [d \in TradingDays |-> certified[d]]
    /\ \A d \in TradingDays : certified[d] \in Evidence[d]
    /\ audits = [d \in TradingDays |-> audits[d]]
    /\ reports = [d \in TradingDays |-> reports[d]]
    /\ gates = [d \in TradingDays |-> gates[d]]
    /\ \A d \in TradingDays : reports[d] # None => audits[d] # None

\* What the running attempt has stored before it reaches a step.
AttemptProven ==
    promotionTask # None =>
       /\ promotionTask = [date |-> promotionTask.date, step |-> promotionTask.step,
                           day |-> promotionTask.day]
       /\ promotionTask.date \in TradingDays
       /\ promotionTask.day \in Evidence[promotionTask.date]
       /\ promotionTask.step = 2 => audits[promotionTask.date] = promotionTask.day
       /\ promotionTask.step = 3 => reports[promotionTask.date] # None

PromotionInv == PromotionTypes /\ AttemptProven /\ EvidenceIsProven

LEMMA PromotionInitInv == PromotionInit => PromotionInv
BY DEF PromotionInit, PromotionInv, PromotionTypes, AttemptProven, EvidenceIsProven

LEMMA EvidenceSteps ==
    /\ DOMAIN EVIDENCE = 1..3 /\ Len(EVIDENCE) = 3
    /\ EVIDENCE[1] = "audit" /\ EVIDENCE[2] = "report" /\ EVIDENCE[3] = "gate"
BY DEF EVIDENCE

\* Steps that store nothing.
LEMMA QuietPromotion ==
    ASSUME PromotionInv, UNCHANGED <<configuration, audits, reports, gates>>,
           certified' = [d \in TradingDays |-> certified'[d]],
           \A d \in TradingDays : certified'[d] \in Evidence[d],
           AttemptProven'
    PROVE  PromotionInv'
BY DEF PromotionInv, PromotionTypes, EvidenceIsProven

\* An object is stored once: a put keeps what is there or fills the empty place.
LEMMA PutStep ==
    ASSUME PromotionInv, PutEvidence
    PROVE  PromotionInv'
<1> PICK d : d = promotionTask.date
  OBVIOUS
<1> PICK proven : proven = promotionTask.day
  OBVIOUS
<1> PICK report : report = Report
  OBVIOUS
<1>0. /\ d \in TradingDays /\ proven \in Evidence[d] /\ promotionTask # None
      /\ promotionTask = [date |-> d, step |-> promotionTask.step, day |-> proven]
      /\ PromotionTypes /\ EvidenceIsProven /\ AttemptProven
  BY DEF PromotionInv, AttemptProven, PutEvidence
<1>1. proven # None /\ report # None /\ report.day = proven
  <2>1. SessionReport(configuration[d], proven) # None
    BY <1>0, StoredIsPresent DEF PromotionTypes
  <2> QED
    BY <1>0, <2>1, StoredIsPresent DEF Report, SessionReport
<1>2. UNCHANGED <<configuration, certified>>
  BY DEF PutEvidence
<1>3. CASE promotionTask.step = 1
  <2>1. UNCHANGED <<reports, gates>>
    BY <1>3, EvidenceSteps DEF PutEvidence
  <2>2. CASE Accepts(audits, d, proven)
    <3>1. /\ audits' = [audits EXCEPT ![d] = proven]
          /\ promotionTask' = [promotionTask EXCEPT !.step = promotionTask.step + 1]
      BY <1>3, <2>2, EvidenceSteps DEF PutEvidence
    <3>2. /\ audits'[d] = proven /\ \A e \in TradingDays : e # d => audits'[e] = audits[e]
          /\ audits' = [e \in TradingDays |-> audits'[e]]
      BY <1>0, <3>1 DEF PromotionTypes
    <3>3. promotionTask' = [date |-> d, step |-> 2, day |-> proven]
      BY <1>0, <1>3, <3>1
    <3>4. AttemptProven'
      BY <1>0, <3>2, <3>3 DEF AttemptProven
    <3>5. EvidenceIsProven'
      <4>1. reports[d] # None => audits[d] = proven
        BY <1>0, <2>2 DEF Accepts, PromotionTypes
      <4> QED
        BY <1>0, <2>1, <3>2, <4>1 DEF EvidenceIsProven
    <3> QED
      BY <1>0, <1>1, <1>2, <2>1, <3>2, <3>4, <3>5 DEF PromotionInv, PromotionTypes
  <2>3. CASE ~Accepts(audits, d, proven)
    <3>1. UNCHANGED audits /\ promotionTask' = None
      BY <1>3, <2>3, EvidenceSteps DEF PutEvidence
    <3> QED
      BY <1>0, <1>2, <2>1, <3>1 DEF PromotionInv, PromotionTypes, AttemptProven, EvidenceIsProven
  <2> QED
    BY <2>2, <2>3
<1>4. CASE promotionTask.step = 2
  <2>1. UNCHANGED <<audits, gates>>
    BY <1>4, EvidenceSteps DEF PutEvidence
  <2>2. CASE Accepts(reports, d, report)
    <3>1. /\ reports' = [reports EXCEPT ![d] = report]
          /\ promotionTask' = [promotionTask EXCEPT !.step = promotionTask.step + 1]
      BY <1>4, <2>2, EvidenceSteps DEF PutEvidence
    <3>2. /\ reports'[d] = report /\ \A e \in TradingDays : e # d => reports'[e] = reports[e]
          /\ reports' = [e \in TradingDays |-> reports'[e]]
      BY <1>0, <3>1 DEF PromotionTypes
    <3>3. promotionTask' = [date |-> d, step |-> 3, day |-> proven]
      BY <1>0, <1>4, <3>1
    <3>4. AttemptProven'
      BY <1>0, <1>1, <3>2, <3>3 DEF AttemptProven
    <3>5. audits[d] = proven
      BY <1>0, <1>4 DEF AttemptProven
    <3>6. EvidenceIsProven'
      BY <1>0, <1>1, <2>1, <3>2, <3>5 DEF EvidenceIsProven
    <3> QED
      BY <1>0, <1>1, <1>2, <2>1, <3>2, <3>4, <3>5, <3>6 DEF PromotionInv, PromotionTypes
  <2>3. CASE ~Accepts(reports, d, report)
    <3>1. UNCHANGED reports /\ promotionTask' = None
      BY <1>4, <2>3, EvidenceSteps DEF PutEvidence
    <3> QED
      BY <1>0, <1>2, <2>1, <3>1 DEF PromotionInv, PromotionTypes, AttemptProven, EvidenceIsProven
  <2> QED
    BY <2>2, <2>3
<1>5. CASE promotionTask.step = 3
  <2>1. UNCHANGED <<audits, reports>> /\ promotionTask' = None
    BY <1>5, EvidenceSteps DEF PutEvidence
  <2>2. \E body : gates' \in {gates, [gates EXCEPT ![d] = body]}
    BY <1>5, EvidenceSteps DEF PutEvidence
  <2>3. /\ gates' = [e \in TradingDays |-> gates'[e]]
        /\ \A e \in TradingDays : e # d => gates'[e] = gates[e]
    BY <1>0, <2>2 DEF PromotionTypes
  <2>4. reports[d] # None
    BY <1>0, <1>5 DEF AttemptProven
  <2> QED
    BY <1>0, <1>2, <2>1, <2>3, <2>4
       DEF PromotionInv, PromotionTypes, AttemptProven, EvidenceIsProven
<1> QED
  BY <1>3, <1>4, <1>5, EvidenceSteps DEF PutEvidence

LEMMA PromotionStep == PromotionInv /\ [PromotionNext]_promotionVars => PromotionInv'
<1> SUFFICES ASSUME PromotionInv, [PromotionNext]_promotionVars PROVE PromotionInv'
  OBVIOUS
<1>0. PromotionTypes /\ AttemptProven
  BY DEF PromotionInv
<1>1. ASSUME NEW d \in TradingDays, BeginPromotion(d) PROVE PromotionInv'
  <2>1. promotionTask' = [date |-> d, step |-> 0, day |-> certified[d]]
    BY <1>1 DEF BeginPromotion
  <2>2. AttemptProven'
    BY <1>0, <2>1 DEF AttemptProven, PromotionTypes
  <2> QED
    BY <1>0, <1>1, <2>2, QuietPromotion DEF BeginPromotion, PromotionTypes
<1>2. ASSUME NEW d \in TradingDays, NEW e \in Evidence[d], LateManifest(d, e)
      PROVE  PromotionInv'
  <2>1. /\ certified' = [c \in TradingDays |-> certified'[c]]
        /\ \A c \in TradingDays : certified'[c] \in Evidence[c]
    BY <1>0, <1>2 DEF LateManifest, PromotionTypes
  <2>2. AttemptProven'
    BY <1>0, <1>2 DEF LateManifest, AttemptProven
  <2> QED
    BY <1>2, <2>1, <2>2, QuietPromotion DEF LateManifest
<1>3. CASE EvaluateSession
  <2>1. CASE promotionTask' = None
    BY <1>0, <1>3, <2>1, QuietPromotion DEF EvaluateSession, AttemptProven, PromotionTypes
  <2>2. CASE promotionTask' = [promotionTask EXCEPT !.step = 1]
    <3>1. /\ promotionTask # None
          /\ promotionTask' = [date |-> promotionTask.date, step |-> 1, day |-> promotionTask.day]
      BY <1>0, <1>3, <2>2 DEF EvaluateSession, AttemptProven
    <3>2. AttemptProven'
      BY <1>0, <3>1 DEF AttemptProven
    <3> QED
      BY <1>0, <1>3, <3>2, QuietPromotion DEF EvaluateSession, PromotionTypes
  <2> QED
    BY <1>3, <2>1, <2>2 DEF EvaluateSession
<1>4. CASE PutEvidence
  BY <1>4, PutStep
<1>5. CASE KillPromotion
  BY <1>0, <1>5, QuietPromotion DEF KillPromotion, AttemptProven, PromotionTypes
<1>6. CASE UNCHANGED promotionVars
  BY <1>0, <1>6, QuietPromotion DEF promotionVars, AttemptProven, PromotionTypes
<1> QED
  BY <1>1, <1>2, <1>3, <1>4, <1>5, <1>6 DEF PromotionNext

\* A stored session report has the audit of the very same capture stored before
\* it and a stored gate its day's report, for any number of days, reruns, kills
\* and late manifests (publish_session_evidence's order of conditional puts).
THEOREM Proven == Spec => []EvidenceIsProven
BY PromotionPart, PromotionInitInv, PromotionStep, PTL DEF PromotionInv

-----------------------------------------------------------------------------
(***************************************************************************)
(* Paper trading is earned: what the gate's roundings and folds say of the *)
(* selections themselves.                                                  *)
(***************************************************************************)
\* Rounding adds at most half a quantum.
LEMMA HalfUpAbove ==
    ASSUME NEW n \in Int, NEW d \in Nat, d # 0
    PROVE  /\ Decimals!HalfUp(n, d) \in Int
           /\ 2 * (Decimals!HalfUp(n, d) * d) <= 2 * n + d
<1>1. ASSUME NEW a \in Int, NEW b \in Nat, b # 0
      PROVE  a \div b \in Int /\ b * (a \div b) <= a /\ a < b * (a \div b) + b
  BY <1>1
<1>2. PICK b \in Nat : b = 2 * d /\ b # 0
  OBVIOUS
<1>3. CASE n >= 0
  <2>1. PICK q \in Int : q = (2 * n + d) \div b /\ b * q <= 2 * n + d
    BY <1>1, <1>2
  <2>2. Decimals!HalfUp(n, d) = q
    BY <1>2, <1>3, <2>1 DEF Decimals!HalfUp
  <2>3. 2 * (q * d) = b * q
    BY <1>2
  <2> QED
    BY <2>1, <2>2, <2>3
<1>4. CASE ~(n >= 0)
  <2>1. PICK q \in Int : q = (d - 2 * n) \div b /\ d - 2 * n < b * q + b
    BY <1>1, <1>2
  <2>2. Decimals!HalfUp(n, d) = -q
    BY <1>2, <1>4, <2>1 DEF Decimals!HalfUp
  <2>3. 2 * ((-q) * d) = -(b * q)
    BY <1>2
  <2>4. b * q \in Int
    BY <2>1
  <2> QED
    BY <1>2, <2>1, <2>2, <2>3, <2>4
<1> QED
  BY <1>3, <1>4

Sel(seen, g) == {x \in seen.selections : x.target = g}
Elig(seen, g) == {x \in Sel(seen, g) : x.net # None}
Pos(seen, g) == {x \in Elig(seen, g) : x.net > 0}
NetOf(seen, g) == SumFunction([x \in Elig(seen, g) |-> x.net])

LEMMA EvidenceIs ==
    ASSUME NEW d \in TradingDays, NEW seen \in Evidence[d], NEW g
    PROVE  /\ IsFiniteSet(Sel(seen, g)) /\ IsFiniteSet(Elig(seen, g)) /\ IsFiniteSet(Pos(seen, g))
           /\ Cardinality(Sel(seen, g)) \in Nat /\ Cardinality(Elig(seen, g)) \in Nat
           /\ Cardinality(Pos(seen, g)) \in Nat
           /\ \A x \in Elig(seen, g) : x.net \in Int
           /\ NetOf(seen, g) \in Int /\ seen.gaps \in Nat
<1>1. /\ IsFiniteSet(seen.selections) /\ seen.gaps \in Nat
      /\ \A x \in seen.selections : x.net \in Int \cup {None}
  BY PromotionAssumption DEF TradingDays
<1>2. /\ Sel(seen, g) \in SUBSET seen.selections /\ Elig(seen, g) \in SUBSET seen.selections
      /\ Pos(seen, g) \in SUBSET seen.selections
  BY DEF Sel, Elig, Pos
<1>3. IsFiniteSet(Sel(seen, g)) /\ IsFiniteSet(Elig(seen, g)) /\ IsFiniteSet(Pos(seen, g))
  BY <1>1, <1>2, FS_Subset
<1>4. \A x \in Elig(seen, g) : x.net \in Int
  BY <1>1, <1>2 DEF Elig
<1>5. NetOf(seen, g) \in Int
  <2>1. PICK f, E : E = Elig(seen, g) /\ f = [x \in E |-> x.net]
    OBVIOUS
  <2>2. SumFunctionOnSet(f, E) \in Int
    BY <1>3, <1>4, <2>1, SumType
  <2>3. DOMAIN f = E
    BY <2>1
  <2> QED
    BY <2>1, <2>2, <2>3 DEF NetOf, SumFunction
<1> QED
  BY <1>1, <1>3, <1>4, <1>5, FS_CardinalityType

\* A row's average, weighted by its outcomes, is their net return but for the rounding.
LEMMA SessionRowIs ==
    ASSUME NEW d \in TradingDays, NEW seen \in Evidence[d], NEW g
    PROVE  LET r == SessionRow(seen, g) IN
           /\ r.selected = Cardinality(Sel(seen, g)) /\ r.eligible = Cardinality(Elig(seen, g))
           /\ r.positive = Cardinality(Pos(seen, g)) /\ r.average \in Int
           /\ 2 * (r.average * r.eligible) <= 2 * NetOf(seen, g) + r.eligible
<1>1. PICK S, E, P, r : /\ S = Sel(seen, g) /\ E = Elig(seen, g) /\ P = Pos(seen, g)
                        /\ r = SessionRow(seen, g)
  OBVIOUS
<1>2. r = [selected |-> Cardinality(S), eligible |-> Cardinality(E), positive |-> Cardinality(P),
           average |-> IF E = {} THEN 0 ELSE Decimals!HalfUp(NetOf(seen, g), Cardinality(E))]
  BY <1>1 DEF SessionRow, Sel, Elig, Pos, NetOf
<1>3. IsFiniteSet(E) /\ Cardinality(E) \in Nat /\ NetOf(seen, g) \in Int
  BY <1>1, EvidenceIs
<1>4. /\ r.selected = Cardinality(S) /\ r.eligible = Cardinality(E) /\ r.positive = Cardinality(P)
      /\ r.average = IF E = {} THEN 0 ELSE Decimals!HalfUp(NetOf(seen, g), Cardinality(E))
  BY <1>2
<1>5. CASE E = {}
  <2>1. Cardinality(E) = 0 /\ NetOf(seen, g) = 0
    <3>1. PICK f : f = [x \in E |-> x.net]
      OBVIOUS
    <3>2. DOMAIN f = {} /\ NetOf(seen, g) = SumFunctionOnSet(f, DOMAIN f)
      BY <1>1, <1>5, <3>1 DEF NetOf, SumFunction
    <3> QED
      BY <1>5, <3>2, SumEmpty, FS_EmptySet
  <2> QED
    BY <1>1, <1>4, <1>5, <2>1
<1>6. CASE E # {}
  <2>1. Cardinality(E) # 0
    BY <1>3, <1>6, FS_EmptySet
  <2>2. PICK n \in Int, c \in Nat : n = NetOf(seen, g) /\ c = Cardinality(E) /\ c # 0
    BY <1>3, <2>1
  <2>3. PICK h : h = Decimals!HalfUp(n, c)
    OBVIOUS
  <2>4. h \in Int /\ 2 * (h * c) <= 2 * n + c
    BY <2>2, <2>3, HalfUpAbove
  <2>5. r.average = h /\ r.eligible = c
    BY <1>4, <1>6, <2>2, <2>3
  <2> QED
    BY <1>1, <1>4, <2>2, <2>4, <2>5
<1> QED
  BY <1>5, <1>6

\* rows counts s, e and p, and its averages, weighted, are n but for the rounding u.
RowsAre(K, rows, s, e, p, n, u) ==
    /\ rows = [k \in K |-> rows[k]]
    /\ \A k \in K : /\ s[k] \in Nat /\ e[k] \in Nat /\ p[k] \in Nat /\ n[k] \in Int /\ u[k] \in Int
                    /\ rows[k].selected = s[k] /\ rows[k].eligible = e[k]
                    /\ rows[k].positive = p[k] /\ rows[k].average \in Int
                    /\ 2 * (rows[k].average * e[k]) <= 2 * n[k] + u[k]

\* Combined rows add up; combining rounds once more.
LEMMA Combining ==
    ASSUME NEW K, IsFiniteSet(K), NEW rows, NEW s, NEW e, NEW p, NEW n, NEW u,
           RowsAre(K, rows, s, e, p, n, u)
    PROVE  LET r == _combine(rows) IN
           /\ r.selected = SumFunctionOnSet(s, K) /\ r.eligible = SumFunctionOnSet(e, K)
           /\ r.positive = SumFunctionOnSet(p, K) /\ r.average \in Int
           /\ r.eligible # 0 =>
                 2 * (r.average * r.eligible)
                    <= 2 * SumFunctionOnSet(n, K) + SumFunctionOnSet(u, K) + r.eligible
<1> USE DEF RowsAre
<1>1. DOMAIN rows = K
  OBVIOUS
<1>2. Count(rows, "selected") = SumFunctionOnSet(s, K)
  <2>1. PICK f : f = [k \in K |-> rows[k]["selected"]]
    OBVIOUS
  <2>2. DOMAIN f = K /\ \A k \in K : f[k] = s[k]
    BY <2>1
  <2> QED
    BY <1>1, <2>1, <2>2, SumSame DEF Count, SumFunction
<1>3. Count(rows, "eligible") = SumFunctionOnSet(e, K)
  <2>1. PICK f : f = [k \in K |-> rows[k]["eligible"]]
    OBVIOUS
  <2>2. DOMAIN f = K /\ \A k \in K : f[k] = e[k]
    BY <2>1
  <2> QED
    BY <1>1, <2>1, <2>2, SumSame DEF Count, SumFunction
<1>4. Count(rows, "positive") = SumFunctionOnSet(p, K)
  <2>1. PICK f : f = [k \in K |-> rows[k]["positive"]]
    OBVIOUS
  <2>2. DOMAIN f = K /\ \A k \in K : f[k] = p[k]
    BY <2>1
  <2> QED
    BY <1>1, <2>1, <2>2, SumSame DEF Count, SumFunction
<1>5. PICK w : w = [k \in K |-> rows[k].average * rows[k].eligible]
  OBVIOUS
<1>6. DOMAIN w = K /\ \A k \in K : w[k] \in Int /\ 2 * w[k] <= 2 * n[k] + u[k]
  <2>1. \A k \in K : w[k] = rows[k].average * e[k] /\ rows[k].average \in Int /\ e[k] \in Int
    BY <1>5
  <2>2. \A k \in K : w[k] \in Int
    BY <2>1
  <2> QED
    BY <1>5, <2>1, <2>2
<1>7. PICK W \in Int, N \in Int, V \in Int :
         /\ W = SumFunctionOnSet(w, K) /\ N = SumFunctionOnSet(n, K) /\ V = SumFunctionOnSet(u, K)
  BY <1>6, SumType
<1>8. 2 * W <= 2 * N + V
  BY <1>6, <1>7, SumBounds
<1>9. PICK E \in Nat : E = SumFunctionOnSet(e, K)
  BY SumNat
<1>10. _weighted_average(rows) = IF E = 0 THEN 0 ELSE Decimals!HalfUp(W, E)
  BY <1>1, <1>3, <1>5, <1>6, <1>7, <1>9 DEF _weighted_average, SumFunction
<1>11. PICK r : r = _combine(rows)
  OBVIOUS
<1>12. /\ r.selected = SumFunctionOnSet(s, K) /\ r.eligible = E
       /\ r.positive = SumFunctionOnSet(p, K) /\ r.average = IF E = 0 THEN 0 ELSE Decimals!HalfUp(W, E)
  BY <1>2, <1>3, <1>4, <1>9, <1>10, <1>11 DEF _combine
<1>13. CASE E = 0
  BY <1>9, <1>11, <1>12, <1>13
<1>14. CASE E # 0
  <2>1. PICK h : h = Decimals!HalfUp(W, E)
    OBVIOUS
  <2>2. h \in Int /\ 2 * (h * E) <= 2 * W + E
    BY <1>14, <2>1, HalfUpAbove
  <2>3. r.average = h
    BY <1>12, <1>14, <2>1
  <2>4. h * E \in Int
    BY <2>2
  <2>5. 2 * (h * E) <= 2 * N + V + E
    BY <1>8, <2>2, <2>4
  <2> QED
    BY <1>7, <1>9, <1>11, <1>12, <2>2, <2>3, <2>5
<1> QED
  BY <1>13, <1>14

\* A report is that of its day's capture, under the day's policies.
ReportsOfDays ==
    \A d \in TradingDays : reports[d] # None =>
       /\ configuration[d] # None
       /\ \E e \in Evidence[d] : reports[d] = SessionReport(configuration[d], e)

Reported(D) == D \in SUBSET TradingDays /\ \A d \in D : reports[d] # None

SelCount(g) == [d \in TradingDays |-> Cardinality(Sel(reports[d].day, g))]
EligCount(g) == [d \in TradingDays |-> Cardinality(Elig(reports[d].day, g))]
PosCount(g) == [d \in TradingDays |-> Cardinality(Pos(reports[d].day, g))]
NetSum(g) == [d \in TradingDays |-> NetOf(reports[d].day, g)]

LEMMA ReportIs ==
    ASSUME ReportsOfDays, NEW D, Reported(D), NEW d \in D, NEW g
    PROVE  /\ d \in TradingDays /\ reports[d].day \in Evidence[d]
           /\ reports[d].lineage = configuration[d] /\ configuration[d] # None
           /\ g \in Targets => reports[d].rows[g] = SessionRow(reports[d].day, g)
           /\ SelCount(g)[d] = Cardinality(Sel(reports[d].day, g)) /\ SelCount(g)[d] \in Nat
           /\ EligCount(g)[d] = Cardinality(Elig(reports[d].day, g)) /\ EligCount(g)[d] \in Nat
           /\ PosCount(g)[d] = Cardinality(Pos(reports[d].day, g)) /\ PosCount(g)[d] \in Nat
           /\ NetSum(g)[d] = NetOf(reports[d].day, g) /\ NetSum(g)[d] \in Int
<1>1. d \in TradingDays /\ reports[d] # None
  BY DEF Reported
<1>2. PICK e \in Evidence[d] : reports[d] = SessionReport(configuration[d], e)
  BY <1>1 DEF ReportsOfDays
<1>3. reports[d] = [lineage |-> configuration[d], day |-> e, rows |-> [t \in Targets |-> SessionRow(e, t)]]
  BY <1>2 DEF SessionReport
<1>4. /\ reports[d].day = e /\ reports[d].lineage = configuration[d]
      /\ g \in Targets => reports[d].rows[g] = SessionRow(e, g)
  BY <1>3
<1>5. configuration[d] # None
  BY <1>1 DEF ReportsOfDays
<1>6. /\ SelCount(g)[d] = Cardinality(Sel(reports[d].day, g))
      /\ EligCount(g)[d] = Cardinality(Elig(reports[d].day, g))
      /\ PosCount(g)[d] = Cardinality(Pos(reports[d].day, g))
      /\ NetSum(g)[d] = NetOf(reports[d].day, g)
  BY <1>1 DEF SelCount, EligCount, PosCount, NetSum
<1>7. /\ Cardinality(Sel(e, g)) \in Nat /\ Cardinality(Elig(e, g)) \in Nat
      /\ Cardinality(Pos(e, g)) \in Nat /\ NetOf(e, g) \in Int
  BY <1>1, EvidenceIs
<1> QED
  BY <1>1, <1>4, <1>5, <1>6, <1>7

\* The holdout row of a fold.
LEMMA FoldRowIs ==
    ASSUME ReportsOfDays, NEW D, Reported(D), IsFiniteSet(D), NEW g \in Targets,
           NEW sessions, \A d \in D : sessions[d] = reports[d]
    PROVE  LET r == _combine([d \in D |-> sessions[d].rows[g]]) IN
           /\ r.selected = SumFunctionOnSet(SelCount(g), D) /\ r.selected \in Nat
           /\ r.eligible = SumFunctionOnSet(EligCount(g), D) /\ r.eligible \in Nat
           /\ r.positive = SumFunctionOnSet(PosCount(g), D) /\ r.positive \in Nat
           /\ r.average \in Int
           /\ r.eligible # 0 =>
                 2 * (r.average * r.eligible)
                    <= 2 * SumFunctionOnSet(NetSum(g), D) + (r.eligible + r.eligible)
<1>1. PICK s, e, p, n, rows :
         /\ s = SelCount(g) /\ e = EligCount(g) /\ p = PosCount(g) /\ n = NetSum(g)
         /\ rows = [d \in D |-> sessions[d].rows[g]]
  OBVIOUS
<1>2. ASSUME NEW k \in D
      PROVE  /\ s[k] \in Nat /\ e[k] \in Nat /\ p[k] \in Nat /\ n[k] \in Int /\ e[k] \in Int
             /\ rows[k].selected = s[k] /\ rows[k].eligible = e[k]
             /\ rows[k].positive = p[k] /\ rows[k].average \in Int
             /\ 2 * (rows[k].average * e[k]) <= 2 * n[k] + e[k]
  <2>1. PICK seen, r : seen = reports[k].day /\ r = SessionRow(seen, g)
    OBVIOUS
  <2>2. rows[k] = r /\ k \in TradingDays /\ seen \in Evidence[k]
    BY <1>1, <2>1, ReportIs
  <2>3. /\ s[k] = Cardinality(Sel(seen, g)) /\ s[k] \in Nat
        /\ e[k] = Cardinality(Elig(seen, g)) /\ e[k] \in Nat
        /\ p[k] = Cardinality(Pos(seen, g)) /\ p[k] \in Nat
        /\ n[k] = NetOf(seen, g) /\ n[k] \in Int
    BY <1>1, <2>1, ReportIs
  <2>4. /\ r.selected = Cardinality(Sel(seen, g)) /\ r.eligible = Cardinality(Elig(seen, g))
        /\ r.positive = Cardinality(Pos(seen, g)) /\ r.average \in Int
        /\ 2 * (r.average * r.eligible) <= 2 * NetOf(seen, g) + r.eligible
    BY <2>1, <2>2, SessionRowIs
  <2> QED
    BY <2>2, <2>3, <2>4
<1>3. RowsAre(D, rows, s, e, p, n, e)
  BY <1>1, <1>2 DEF RowsAre
<1>4. PICK r : r = _combine(rows)
  OBVIOUS
<1>5. /\ r.selected = SumFunctionOnSet(s, D) /\ r.eligible = SumFunctionOnSet(e, D)
      /\ r.positive = SumFunctionOnSet(p, D) /\ r.average \in Int
      /\ r.eligible # 0 =>
            2 * (r.average * r.eligible)
               <= 2 * SumFunctionOnSet(n, D) + SumFunctionOnSet(e, D) + r.eligible
  BY <1>3, <1>4, Combining
<1>6. PICK S \in Nat, E \in Nat, P \in Nat, N \in Int :
         /\ S = SumFunctionOnSet(s, D) /\ E = SumFunctionOnSet(e, D) /\ P = SumFunctionOnSet(p, D)
         /\ N = SumFunctionOnSet(n, D)
  <2>1. SumFunctionOnSet(s, D) \in Nat /\ SumFunctionOnSet(e, D) \in Nat /\ SumFunctionOnSet(p, D) \in Nat
    BY <1>2, SumNat
  <2>2. SumFunctionOnSet(n, D) \in Int
    BY <1>2, SumType
  <2> QED
    BY <2>1, <2>2
<1>7. E # 0 => 2 * (r.average * E) <= 2 * N + E + E
  BY <1>5, <1>6
<1>8. E # 0 => 2 * (r.average * E) <= 2 * N + (E + E)
  BY <1>7, <1>5
<1> QED
  BY <1>1, <1>4, <1>5, <1>6, <1>8

\* The rows of a target's folds F[k], each with an outcome, which together are T.
FoldsOf(K, F, T, g, sessions, folds) ==
    /\ T = UNION {F[k] : k \in K}
    /\ \A k \in K : Reported(F[k]) /\ IsFiniteSet(F[k])
    /\ \A i, k \in K : i # k => F[i] \cap F[k] = {}
    /\ \A d \in T : sessions[d] = reports[d]
    /\ folds = [k \in K |-> _combine([d \in F[k] |-> sessions[d].rows[g]])]
    /\ \A k \in K : folds[k].eligible # 0

\* All the folds of a target together.
LEMMA TotalIs ==
    ASSUME ReportsOfDays, NEW K, IsFiniteSet(K), NEW F, NEW T, NEW g \in Targets,
           NEW sessions, NEW folds, FoldsOf(K, F, T, g, sessions, folds)
    PROVE  LET r == _combine(folds) IN
           /\ r.selected = SumFunctionOnSet(SelCount(g), T) /\ r.selected \in Nat
           /\ r.eligible = SumFunctionOnSet(EligCount(g), T) /\ r.eligible \in Nat
           /\ r.positive = SumFunctionOnSet(PosCount(g), T) /\ r.positive \in Nat
           /\ r.average \in Int /\ SumFunctionOnSet(NetSum(g), T) \in Int
           /\ r.eligible # 0 =>
                 2 * (r.average * r.eligible)
                    <= 2 * SumFunctionOnSet(NetSum(g), T) + 3 * r.eligible
<1> USE DEF FoldsOf
<1>1. PICK s, e, p, n, u :
         /\ s = [k \in K |-> SumFunctionOnSet(SelCount(g), F[k])]
         /\ e = [k \in K |-> SumFunctionOnSet(EligCount(g), F[k])]
         /\ p = [k \in K |-> SumFunctionOnSet(PosCount(g), F[k])]
         /\ n = [k \in K |-> SumFunctionOnSet(NetSum(g), F[k])]
         /\ u = [k \in K |-> e[k] + e[k]]
  OBVIOUS
<1>2. ASSUME NEW k \in K
      PROVE  /\ s[k] \in Nat /\ e[k] \in Nat /\ p[k] \in Nat /\ n[k] \in Int /\ u[k] \in Int
             /\ folds[k].selected = s[k] /\ folds[k].eligible = e[k]
             /\ folds[k].positive = p[k] /\ folds[k].average \in Int
             /\ 2 * (folds[k].average * e[k]) <= 2 * n[k] + u[k]
  <2>1. PICK D, r : D = F[k] /\ r = _combine([d \in D |-> sessions[d].rows[g]])
    OBVIOUS
  <2>2. Reported(D) /\ IsFiniteSet(D) /\ (\A d \in D : sessions[d] = reports[d]) /\ folds[k] = r
    BY <2>1
  <2>3. /\ r.selected = SumFunctionOnSet(SelCount(g), D) /\ r.selected \in Nat
        /\ r.eligible = SumFunctionOnSet(EligCount(g), D) /\ r.eligible \in Nat
        /\ r.positive = SumFunctionOnSet(PosCount(g), D) /\ r.positive \in Nat
        /\ r.average \in Int
        /\ r.eligible # 0 =>
              2 * (r.average * r.eligible)
                 <= 2 * SumFunctionOnSet(NetSum(g), D) + (r.eligible + r.eligible)
    BY <2>1, <2>2, FoldRowIs
  <2>4. /\ s[k] = r.selected /\ e[k] = r.eligible /\ p[k] = r.positive
        /\ n[k] = SumFunctionOnSet(NetSum(g), D) /\ u[k] = e[k] + e[k]
    BY <1>1, <2>1, <2>3
  <2>5. n[k] \in Int
    <3>1. \A d \in D : NetSum(g)[d] \in Int
      BY <2>2, ReportIs
    <3> QED
      BY <2>2, <2>4, <3>1, SumType
  <2>6. r.eligible # 0
    BY <2>2
  <2> QED
    BY <2>2, <2>3, <2>4, <2>5, <2>6
<1>3. RowsAre(K, folds, s, e, p, n, u)
  BY <1>2 DEF RowsAre
<1>4. PICK r : r = _combine(folds)
  OBVIOUS
<1>5. /\ r.selected = SumFunctionOnSet(s, K) /\ r.eligible = SumFunctionOnSet(e, K)
      /\ r.positive = SumFunctionOnSet(p, K) /\ r.average \in Int
      /\ r.eligible # 0 =>
            2 * (r.average * r.eligible)
               <= 2 * SumFunctionOnSet(n, K) + SumFunctionOnSet(u, K) + r.eligible
  BY <1>3, <1>4, Combining
<1>6. \A k \in K : \A d \in F[k] : /\ SelCount(g)[d] \in Int /\ EligCount(g)[d] \in Int
                                  /\ PosCount(g)[d] \in Int /\ NetSum(g)[d] \in Int
  <2>1. ASSUME NEW k \in K, NEW d \in F[k]
        PROVE  /\ SelCount(g)[d] \in Int /\ EligCount(g)[d] \in Int
               /\ PosCount(g)[d] \in Int /\ NetSum(g)[d] \in Int
    <3>1. PICK D : D = F[k]
      OBVIOUS
    <3>2. Reported(D) /\ d \in D
      BY <3>1
    <3>3. SelCount(g)[d] \in Nat /\ EligCount(g)[d] \in Nat /\ PosCount(g)[d] \in Nat /\ NetSum(g)[d] \in Int
      BY <3>2, ReportIs
    <3> QED
      BY <3>3
  <2> QED
    BY <2>1
<1>7. PICK a, b, c, m : a = SelCount(g) /\ b = EligCount(g) /\ c = PosCount(g) /\ m = NetSum(g)
  OBVIOUS
<1>8. SumsOf(K, F, a, s) /\ SumsOf(K, F, b, e) /\ SumsOf(K, F, c, p) /\ SumsOf(K, F, m, n)
  BY <1>1, <1>6, <1>7 DEF SumsOf
<1>9. SumFunctionOnSet(a, T) = SumFunctionOnSet(s, K) /\ SumFunctionOnSet(b, T) = SumFunctionOnSet(e, K)
  BY <1>8, SumFamily
<1>10. SumFunctionOnSet(c, T) = SumFunctionOnSet(p, K) /\ SumFunctionOnSet(m, T) = SumFunctionOnSet(n, K)
  BY <1>8, SumFamily
<1>11. SumFunctionOnSet(u, K) = SumFunctionOnSet(e, K) + SumFunctionOnSet(e, K)
  <2>1. \A k \in K : u[k] = e[k] + e[k]
    BY <1>1
  <2>2. ASSUME NEW k \in K PROVE e[k] \in Int
    <3>1. e[k] \in Nat
      BY <1>2, Zenon
    <3> QED
      BY <3>1
  <2>3. Twice(K, e, u)
    BY <2>1, <2>2 DEF Twice
  <2> QED
    BY <2>3, SumTwice
<1>12. PICK S \in Nat, E \in Nat, P \in Nat, N \in Int :
         /\ S = SumFunctionOnSet(s, K) /\ E = SumFunctionOnSet(e, K) /\ P = SumFunctionOnSet(p, K)
         /\ N = SumFunctionOnSet(n, K)
  <2>1. SumFunctionOnSet(s, K) \in Nat /\ SumFunctionOnSet(e, K) \in Nat /\ SumFunctionOnSet(p, K) \in Nat
    BY <1>2, SumNat
  <2>2. SumFunctionOnSet(n, K) \in Int
    BY <1>2, SumType
  <2> QED
    BY <2>1, <2>2
<1>13. E # 0 => 2 * (r.average * E) <= 2 * N + (E + E) + E
  BY <1>5, <1>11, <1>12
<1>14. E # 0 => 2 * (r.average * E) <= 2 * N + 3 * E
  BY <1>13, <1>5
<1> QED
  BY <1>4, <1>5, <1>7, <1>9, <1>10, <1>12, <1>14


\* The selections, outcomes, gains and net return of a target on a set of days.
ChosenIn(D, g) == UNION {{<<d, x>> : x \in {y \in reports[d].day.selections : y.target = g}} : d \in D}
EligibleIn(D, g) == {c \in ChosenIn(D, g) : c[2].net # None}
PositiveIn(D, g) == {c \in EligibleIn(D, g) : c[2].net > 0}
NetIn(D, g) == SumFunction([c \in EligibleIn(D, g) |-> c[2].net])

\* They are counted and added up day by day.
LEMMA CountsIn ==
    ASSUME ReportsOfDays, NEW D, Reported(D), IsFiniteSet(D), NEW g
    PROVE  /\ IsFiniteSet(EligibleIn(D, g))
           /\ Cardinality(ChosenIn(D, g)) = SumFunctionOnSet(SelCount(g), D)
           /\ Cardinality(EligibleIn(D, g)) = SumFunctionOnSet(EligCount(g), D)
           /\ Cardinality(PositiveIn(D, g)) = SumFunctionOnSet(PosCount(g), D)
           /\ NetIn(D, g) = SumFunctionOnSet(NetSum(g), D)
<1>1. PICK S : S = [d \in D |-> Sel(reports[d].day, g)]
  OBVIOUS
<1>2. PICK E : E = [d \in D |-> Elig(reports[d].day, g)]
  OBVIOUS
<1>3. PICK P : P = [d \in D |-> Pos(reports[d].day, g)]
  OBVIOUS
<1>4. ChosenIn(D, g) = Tagged(D, S)
  BY <1>1 DEF ChosenIn, Tagged, Tag, Sel
<1>5. EligibleIn(D, g) = Tagged(D, E)
  <2>1. \A d \in D : E[d] = {x \in S[d] : x.net # None}
    BY <1>1, <1>2 DEF Elig
  <2>2. \A c : c \in Tagged(D, S) <=> \E d \in D : \E x \in S[d] : c = <<d, x>>
    BY DEF Tagged, Tag
  <2>3. \A c : c \in Tagged(D, E) <=> \E d \in D : \E x \in E[d] : c = <<d, x>>
    BY DEF Tagged, Tag
  <2>4. \A d, x : <<d, x>>[2] = x
    OBVIOUS
  <2> QED
    BY <1>4, <2>1, <2>2, <2>3, <2>4 DEF EligibleIn
<1>6. PositiveIn(D, g) = Tagged(D, P)
  <2>1. \A d \in D : P[d] = {x \in E[d] : x.net > 0}
    BY <1>2, <1>3 DEF Pos
  <2>2. \A c : c \in Tagged(D, E) <=> \E d \in D : \E x \in E[d] : c = <<d, x>>
    BY DEF Tagged, Tag
  <2>3. \A c : c \in Tagged(D, P) <=> \E d \in D : \E x \in P[d] : c = <<d, x>>
    BY DEF Tagged, Tag
  <2>4. \A d, x : <<d, x>>[2] = x
    OBVIOUS
  <2> QED
    BY <1>5, <2>1, <2>2, <2>3, <2>4 DEF PositiveIn
<1>7. ASSUME NEW d \in D
      PROVE  /\ IsFiniteSet(S[d]) /\ SelCount(g)[d] = Cardinality(S[d])
             /\ IsFiniteSet(E[d]) /\ EligCount(g)[d] = Cardinality(E[d])
             /\ IsFiniteSet(P[d]) /\ PosCount(g)[d] = Cardinality(P[d])
             /\ NetSum(g)[d] = NetOf(reports[d].day, g) /\ E[d] = Elig(reports[d].day, g)
             /\ \A x \in E[d] : x.net \in Int
  <2>1. PICK seen : seen = reports[d].day
    OBVIOUS
  <2>2. d \in TradingDays /\ seen \in Evidence[d]
    BY <2>1, ReportIs
  <2>3. /\ IsFiniteSet(Sel(seen, g)) /\ IsFiniteSet(Elig(seen, g)) /\ IsFiniteSet(Pos(seen, g))
        /\ \A x \in Elig(seen, g) : x.net \in Int
    BY <2>2, EvidenceIs
  <2>4. S[d] = Sel(seen, g) /\ E[d] = Elig(seen, g) /\ P[d] = Pos(seen, g)
    BY <1>1, <1>2, <1>3, <2>1
  <2>5. /\ SelCount(g)[d] = Cardinality(Sel(seen, g)) /\ EligCount(g)[d] = Cardinality(Elig(seen, g))
        /\ PosCount(g)[d] = Cardinality(Pos(seen, g)) /\ NetSum(g)[d] = NetOf(seen, g)
    BY <2>1, ReportIs
  <2> QED
    BY <2>1, <2>3, <2>4, <2>5
<1>8. PICK a, b, c, m : a = SelCount(g) /\ b = EligCount(g) /\ c = PosCount(g) /\ m = NetSum(g)
  OBVIOUS
<1>9. Cardinality(Tagged(D, S)) = SumFunctionOnSet(a, D)
  <2>1. \A d \in D : IsFiniteSet(S[d]) /\ a[d] = Cardinality(S[d])
    BY <1>7, <1>8, Zenon
  <2> QED
    BY <2>1, CountPairs
<1>10. IsFiniteSet(Tagged(D, E)) /\ Cardinality(Tagged(D, E)) = SumFunctionOnSet(b, D)
  <2>1. \A d \in D : IsFiniteSet(E[d]) /\ b[d] = Cardinality(E[d])
    BY <1>7, <1>8, Zenon
  <2> QED
    BY <2>1, CountPairs
<1>11. Cardinality(Tagged(D, P)) = SumFunctionOnSet(c, D)
  <2>1. \A d \in D : IsFiniteSet(P[d]) /\ c[d] = Cardinality(P[d])
    BY <1>7, <1>8, Zenon
  <2> QED
    BY <2>1, CountPairs
<1>12. NetIn(D, g) = SumFunctionOnSet(m, D)
  <2>1. PICK f : f = [p \in EligibleIn(D, g) |-> p[2].net]
    OBVIOUS
  <2>2. PICK v : v = [d \in D |-> [x \in E[d] |-> x.net]]
    OBVIOUS
  <2>3. ASSUME NEW d \in D
        PROVE  /\ IsFiniteSet(E[d]) /\ m[d] = SumFunctionOnSet(v[d], E[d])
               /\ Renames(d, E[d], v[d], f)
    <3>1. PICK X, w : X = E[d] /\ w = v[d]
      OBVIOUS
    <3>2. IsFiniteSet(X) /\ m[d] = NetOf(reports[d].day, g) /\ X = Elig(reports[d].day, g)
      BY <1>7, <1>8, <3>1, Zenon
    <3>3. w = [x \in X |-> x.net] /\ \A x \in X : x.net \in Int
      BY <1>7, <2>2, <3>1
    <3>4. m[d] = SumFunctionOnSet(w, X)
      <4>1. DOMAIN w = X /\ m[d] = SumFunction(w)
        BY <3>2, <3>3 DEF NetOf
      <4> QED
        BY <4>1 DEF SumFunction
    <3>5. \A x \in X : <<d, x>> \in EligibleIn(D, g)
      BY <1>5, <3>1 DEF Tagged, Tag
    <3>6. \A x \in X : f[<<d, x>>] = x.net
      BY <2>1, <3>5
    <3>7. Renames(d, X, w, f)
      BY <3>3, <3>6 DEF Renames
    <3> QED
      BY <3>1, <3>2, <3>4, <3>7
  <2>4. PairsOf(D, E, f, v, m)
    BY <2>3 DEF PairsOf
  <2>5. SumFunctionOnSet(f, Tagged(D, E)) = SumFunctionOnSet(m, D)
    BY <2>4, SumPairs
  <2>6. DOMAIN f = Tagged(D, E) /\ NetIn(D, g) = SumFunction(f)
    BY <1>5, <2>1 DEF NetIn
  <2> QED
    BY <2>5, <2>6 DEF SumFunction
<1> QED
  BY <1>4, <1>5, <1>6, <1>8, <1>9, <1>10, <1>11, <1>12

\* The places of a cohort's days, its complete holdout blocks, and their days.
RankIn(C, d) == Cardinality({c \in C : c < d}) - Development - Purge
BlocksOf(C) == (Cardinality(C) - Development - Purge) \div Holdout
TestedOf(C) == {d \in C : RankIn(C, d) >= 0 /\ RankIn(C, d) \div Holdout < BlocksOf(C)}
BlockOf(C, b) == {d \in TestedOf(C) : RankIn(C, d) \div Holdout = b}

LEMMA BlockOfRank ==
    ASSUME NEW r \in Int, NEW H \in Nat, H # 0, NEW k \in Int
    PROVE  /\ r \div H \in Int
           /\ r \div H = k <=> H * k <= r /\ r <= H * k + H - 1
           /\ k >= 0 /\ r \div H = k => r >= 0
<1>1. PICK q \in Int : q = r \div H /\ H * q <= r /\ r < H * q + H
  OBVIOUS
<1>2. ASSUME NEW x \in Int, NEW y \in Int, x + 1 <= y PROVE H * x + H <= H * y
  <2>1. PICK z \in Nat : y = x + 1 + z
    <3>1. y - x - 1 \in Nat /\ y = x + 1 + (y - x - 1)
      BY <1>2
    <3> QED
      BY <3>1
  <2>2. H * z \in Nat /\ H * (x + 1 + z) = H * x + H + H * z
    OBVIOUS
  <2> QED
    BY <2>1, <2>2
<1>3. H * q \in Int /\ H * k \in Int
  OBVIOUS
<1>4. CASE q = k
  <2>1. k >= 0 => H * k >= 0
    OBVIOUS
  <2> QED
    BY <1>1, <1>3, <1>4, <2>1
<1>5. CASE q + 1 <= k
  <2>1. H * q + H <= H * k
    BY <1>2, <1>5
  <2> QED
    BY <1>1, <1>3, <1>5, <2>1
<1>6. CASE k + 1 <= q
  <2>1. H * k + H <= H * q
    BY <1>2, <1>6
  <2> QED
    BY <1>1, <1>3, <1>6, <2>1
<1> QED
  BY <1>4, <1>5, <1>6

\* The folds of the gate are the complete blocks of its cohort.
LEMMA HoldoutsAreBlocks ==
    ASSUME NEW C \in SUBSET TradingDays
    PROVE  /\ IsFiniteSet(C) /\ BlocksOf(C) \in Int
           /\ Cardinality(C) >= Required => BlocksOf(C) >= 1
           /\ DOMAIN Holdouts(C) = 1..BlocksOf(C)
           /\ \A k \in 1..BlocksOf(C) : Holdouts(C)[k] = BlockOf(C, k - 1)
           /\ TestedOf(C) = UNION {Holdouts(C)[k] : k \in 1..BlocksOf(C)}
<1>1. /\ TradeDates \in Nat /\ Development \in Nat /\ Purge \in Nat /\ Holdout \in Nat /\ Holdout # 0
  BY PromotionAssumption
<1>2. IsFiniteSet(C) /\ \A d : IsFiniteSet({c \in C : c < d})
  <2>1. IsFiniteSet(TradingDays)
    BY <1>1, FS_Interval DEF TradingDays
  <2> QED
    BY <2>1, FS_Subset
<1>3. PICK n \in Nat : n = Cardinality(C)
  BY <1>2, FS_CardinalityType
<1>4. PICK B \in Int : B = BlocksOf(C)
  <2>1. n - Development - Purge \in Int
    BY <1>1
  <2>2. BlocksOf(C) \in Int
    BY <1>1, <1>3, <2>1, BlockOfRank DEF BlocksOf
  <2> QED
    BY <2>2
<1>5. n >= Required => B >= 1
  <2>1. PICK r \in Int : r = n - Development - Purge
    BY <1>1
  <2>2. PICK q \in Int : q = r \div Holdout /\ Holdout * q <= r /\ r < Holdout * q + Holdout
    BY <1>1
  <2>3. q <= 0 => Holdout * q + Holdout <= Holdout
    BY <1>1
  <2>4. n >= Required => r >= Holdout
    BY <1>1, <2>1 DEF Required
  <2>5. B = q
    BY <1>3, <1>4, <2>1, <2>2 DEF BlocksOf
  <2> QED
    BY <1>1, <2>2, <2>3, <2>4, <2>5
<1>6. n - (Development + Purge) = n - Development - Purge
  BY <1>1
<1>7. /\ DOMAIN Holdouts(C) = 1..B
      /\ \A k \in 1..B : Holdouts(C)[k] =
            {d \in C : Cardinality({c \in C : c < d}) \in
                          ((Development + Purge) + (k - 1) * Holdout)..((Development + Purge) + k * Holdout - 1)}
  BY <1>3, <1>4, <1>6 DEF Holdouts, BlocksOf
<1>8. ASSUME NEW d \in C
      PROVE  RankIn(C, d) \in Int /\ RankIn(C, d) = Cardinality({c \in C : c < d}) - Development - Purge
  <2>1. Cardinality({c \in C : c < d}) \in Nat
    BY <1>2, FS_CardinalityType
  <2> QED
    BY <1>1, <2>1 DEF RankIn
<1>9. ASSUME NEW d \in C, NEW k \in 1..B
      PROVE  d \in Holdouts(C)[k] <=> RankIn(C, d) \div Holdout = k - 1
  <2>0. PICK w \in Nat : w = Cardinality({c \in C : c < d})
    BY <1>2, FS_CardinalityType
  <2>1. PICK r \in Int : r = RankIn(C, d)
    BY <1>8
  <2>2. r = w - Development - Purge
    BY <2>0, <2>1 DEF RankIn
  <2>3. PICK j \in Int : j = k - 1
    OBVIOUS
  <2>4. r \div Holdout = j <=> Holdout * j <= r /\ r <= Holdout * j + Holdout - 1
    BY <1>1, BlockOfRank
  <2>5. d \in Holdouts(C)[k] <=>
           w \in ((Development + Purge) + (k - 1) * Holdout)..((Development + Purge) + k * Holdout - 1)
    BY <1>7, <2>0
  <2>6. (k - 1) * Holdout = Holdout * j /\ k * Holdout = Holdout * j + Holdout /\ Holdout * j \in Int
    BY <1>1, <2>3
  <2>7. d \in Holdouts(C)[k] <=> Holdout * j <= r /\ r <= Holdout * j + Holdout - 1
    BY <1>1, <2>2, <2>5, <2>6
  <2> QED
    BY <2>1, <2>3, <2>4, <2>7
<1>10. ASSUME NEW d \in C
       PROVE  d \in TestedOf(C) <=> \E k \in 1..B : RankIn(C, d) \div Holdout = k - 1
  <2>1. PICK r \in Int : r = RankIn(C, d)
    BY <1>8
  <2>2. PICK q \in Int : q = r \div Holdout
    BY <1>1, BlockOfRank
  <2>3. q >= 0 => r >= 0
    BY <1>1, <2>2, BlockOfRank
  <2>4. r >= 0 => q >= 0
    BY <1>1, <2>2
  <2>5. d \in TestedOf(C) <=> r >= 0 /\ q < B
    BY <1>4, <2>1, <2>2 DEF TestedOf
  <2>6. (\E k \in 1..B : q = k - 1) <=> q >= 0 /\ q < B
    <3>1. q >= 0 /\ q < B => q + 1 \in 1..B /\ q = (q + 1) - 1
      OBVIOUS
    <3> QED
      BY <3>1
  <2> QED
    BY <2>1, <2>2, <2>3, <2>4, <2>5, <2>6
<1>11. \A k \in 1..B : Holdouts(C)[k] \in SUBSET C
  BY <1>7
<1>12. \A k \in 1..B : Holdouts(C)[k] = BlockOf(C, k - 1)
  <2> SUFFICES ASSUME NEW k \in 1..B PROVE Holdouts(C)[k] = BlockOf(C, k - 1)
    OBVIOUS
  <2>1. PICK W, j : W = Holdouts(C)[k] /\ j = k - 1
    OBVIOUS
  <2>2. \A d \in C : d \in W <=> RankIn(C, d) \div Holdout = j
    BY <1>9, <2>1
  <2>3. \A d \in C : RankIn(C, d) \div Holdout = j => d \in TestedOf(C)
    BY <1>10, <2>1
  <2>4. W \in SUBSET C /\ TestedOf(C) \in SUBSET C
    BY <1>11, <2>1 DEF TestedOf
  <2>5. W = BlockOf(C, j)
    BY <2>2, <2>3, <2>4 DEF BlockOf
  <2> QED
    BY <2>1, <2>5
<1>13. TestedOf(C) = UNION {Holdouts(C)[k] : k \in 1..B}
  <2>1. \A d \in C : d \in TestedOf(C) <=> \E k \in 1..B : d \in Holdouts(C)[k]
    BY <1>9, <1>10
  <2>2. TestedOf(C) \in SUBSET C
    BY DEF TestedOf
  <2> QED
    BY <1>11, <2>1, <2>2
<1> QED
  BY <1>2, <1>3, <1>4, <1>5, <1>7, <1>12, <1>13

LEMMA AtLeastTimes ==
    ASSUME NEW a \in Int, NEW b \in Int, a >= b, NEW m \in Nat PROVE a * m >= b * m
<1>1. PICK z \in Nat : a = b + z
  <2>1. a - b \in Nat /\ a = b + (a - b)
    OBVIOUS
  <2> QED
    BY <2>1
<1>2. (b + z) * m = b * m + z * m /\ z * m >= 0 /\ b * m \in Int /\ z * m \in Int
  OBVIOUS
<1> QED
  BY <1>1, <1>2

LEMMA RateType == ASSUME NEW n \in Nat, NEW m \in Nat PROVE rate(n, m) \in Int
<1>1. PICK w \in Int : w = n * RateQuanta
  BY PromotionAssumption
<1>2. m # 0 => rate(n, m) = Decimals!HalfUp(w, m)
  BY <1>1 DEF rate, Decimals!ratio, Decimals!HalfUp
<1> QED
  BY <1>2, HalfUpAbove DEF rate

\* Dividing what rounding gave by what it was divided by.
LEMMA RateAbove ==
    ASSUME NEW n \in Nat, NEW m \in Nat, m # 0, NEW least \in Int, rate(n, m) >= least
    PROVE  2 * RateQuanta * n >= (2 * least - 1) * m
<1>0. RateQuanta \in Nat
  BY PromotionAssumption
<1>1. PICK w \in Nat : w = n * RateQuanta
  BY <1>0
<1>2. rate(n, m) = Decimals!HalfUp(w, m)
  <2>1. rate(n, m) = Decimals!ratio(n, m)
    BY DEF rate
  <2>2. Decimals!ratio(n, m) = Decimals!HalfUp(w, m)
    BY <1>1 DEF Decimals!ratio, Decimals!HalfUp
  <2> QED
    BY <2>1, <2>2
<1>3. PICK h \in Int : h = rate(n, m) /\ 2 * (h * m) <= 2 * w + m
  <2>1. PICK h : h = Decimals!HalfUp(w, m)
    OBVIOUS
  <2>2. h \in Int /\ 2 * (h * m) <= 2 * w + m
    BY <2>1, HalfUpAbove
  <2> QED
    BY <1>2, <2>1, <2>2
<1>4. h * m >= least * m
  BY <1>3, AtLeastTimes
<1>5. least * m \in Int /\ h * m \in Int /\ (2 * least - 1) * m = 2 * (least * m) - m
  BY <1>3
<1>6. 2 * RateQuanta * n = 2 * w
  BY <1>0, <1>1
<1> QED
  BY <1>3, <1>4, <1>5, <1>6

\* What a target that passes has in all the blocks and in each of them.
LEMMA TargetPasses ==
    ASSUME ReportsOfDays, NEW C \in SUBSET TradingDays, Reported(C), Cardinality(C) >= Required,
           NEW sessions, sessions = [d \in C |-> reports[d]], NEW g \in Targets,
           _target_result(FoldRows(sessions, g)) = "PASS",
           NEW T, T = TestedOf(C)
    PROVE  /\ Cardinality(ChosenIn(T, g)) >= Gate.selected
           /\ 2 * RateQuanta * Cardinality(EligibleIn(T, g))
                 >= (2 * Gate.coverage - 1) * Cardinality(ChosenIn(T, g))
           /\ 2 * RateQuanta * Cardinality(PositiveIn(T, g))
                 >= (2 * Gate.positive - 1) * Cardinality(EligibleIn(T, g))
           /\ 2 * NetIn(T, g) >= (2 * Gate.average - 3) * Cardinality(EligibleIn(T, g))
           /\ \A b \in 0..(BlocksOf(C) - 1) :
                 /\ EligibleIn(BlockOf(C, b), g) # {}
                 /\ NetIn(BlockOf(C, b), g)
                       >= (Gate.worst - 1) * Cardinality(EligibleIn(BlockOf(C, b), g))
<1>0. /\ Gate.selected \in Nat /\ Gate.selected >= 1 /\ Gate.coverage \in Int
      /\ Gate.positive \in Int /\ Gate.average \in Int /\ Gate.worst \in Int
  BY PromotionAssumption
<1>1. PICK B \in Int : B = BlocksOf(C) /\ B >= 1
  BY HoldoutsAreBlocks
<1>2. PICK F : F = Holdouts(C)
  OBVIOUS
<1>3. /\ DOMAIN F = 1..B /\ T = UNION {F[k] : k \in 1..B} /\ IsFiniteSet(C)
      /\ \A k \in 1..B : F[k] = BlockOf(C, k - 1)
  BY <1>1, <1>2, HoldoutsAreBlocks
<1>4. T \in SUBSET C /\ \A k \in 1..B : F[k] \in SUBSET C
  BY <1>3 DEF TestedOf, BlockOf
<1>5. \A k \in 1..B : Reported(F[k]) /\ IsFiniteSet(F[k])
  BY <1>3, <1>4, FS_Subset DEF Reported
<1>6. \A i, k \in 1..B : i # k => F[i] \cap F[k] = {}
  BY <1>3 DEF BlockOf
<1>7. Reported(T) /\ IsFiniteSet(T) /\ \A d \in T : sessions[d] = reports[d]
  BY <1>3, <1>4, FS_Subset DEF Reported
<1>8. PICK folds : folds = FoldRows(sessions, g)
  OBVIOUS
<1>9. folds = [k \in 1..B |-> _combine([d \in F[k] |-> sessions[d].rows[g]])]
  <2>1. DOMAIN sessions = C
    OBVIOUS
  <2> QED
    BY <1>2, <1>3, <1>8, <2>1 DEF FoldRows
<1>10. PICK total : total = _combine(folds)
  OBVIOUS
<1>11. /\ ~(total.selected < Gate.selected)
       /\ ~(rate(total.eligible, total.selected) < Gate.coverage)
       /\ ~(total.eligible > 0 /\ rate(total.positive, total.eligible) < Gate.positive)
       /\ ~(total.eligible > 0 /\ total.average < Gate.average)
       /\ ~(\E k \in DOMAIN folds : folds[k].eligible = 0)
       /\ ~(\E k \in DOMAIN folds : folds[k].average < Gate.worst)
  BY <1>8, <1>10 DEF _target_result
<1>12. DOMAIN folds = 1..B
  BY <1>9
<1>13. \A k \in 1..B : folds[k].eligible # 0
  BY <1>11, <1>12
<1>14. PICK S \in Nat, E \in Nat, P \in Nat, N \in Int :
          /\ S = SumFunctionOnSet(SelCount(g), T) /\ S = total.selected
          /\ E = SumFunctionOnSet(EligCount(g), T) /\ E = total.eligible
          /\ P = SumFunctionOnSet(PosCount(g), T) /\ P = total.positive
          /\ N = SumFunctionOnSet(NetSum(g), T)
          /\ total.average \in Int
          /\ E # 0 => 2 * (total.average * E) <= 2 * N + 3 * E
  <2>1. FoldsOf(1..B, F, T, g, sessions, folds)
    BY <1>3, <1>5, <1>6, <1>7, <1>9, <1>13 DEF FoldsOf
  <2>2. IsFiniteSet(1..B)
    BY FS_Interval
  <2>3. PICK K : K = 1..B
    OBVIOUS
  <2>4. /\ total.selected = SumFunctionOnSet(SelCount(g), T) /\ total.selected \in Nat
        /\ total.eligible = SumFunctionOnSet(EligCount(g), T) /\ total.eligible \in Nat
        /\ total.positive = SumFunctionOnSet(PosCount(g), T) /\ total.positive \in Nat
        /\ total.average \in Int /\ SumFunctionOnSet(NetSum(g), T) \in Int
        /\ total.eligible # 0 =>
              2 * (total.average * total.eligible)
                 <= 2 * SumFunctionOnSet(NetSum(g), T) + 3 * total.eligible
    <3>1. FoldsOf(K, F, T, g, sessions, folds) /\ IsFiniteSet(K)
      BY <2>1, <2>2, <2>3
    <3> QED
      BY <1>10, <3>1, TotalIs
  <2> QED
    BY <2>4
<1>15. /\ S = Cardinality(ChosenIn(T, g)) /\ E = Cardinality(EligibleIn(T, g))
       /\ P = Cardinality(PositiveIn(T, g)) /\ N = NetIn(T, g)
  BY <1>7, <1>14, CountsIn
<1>16. ASSUME NEW b \in 0..(B - 1)
       PROVE  /\ EligibleIn(BlockOf(C, b), g) # {}
              /\ NetIn(BlockOf(C, b), g) >= (Gate.worst - 1) * Cardinality(EligibleIn(BlockOf(C, b), g))
  <2>1. PICK k \in 1..B : k = b + 1 /\ b = k - 1
    OBVIOUS
  <2>2. PICK D : D = F[k]
    OBVIOUS
  <2>3. PICK r : r = _combine([d \in D |-> sessions[d].rows[g]])
    OBVIOUS
  <2>4. /\ folds[k] = r /\ Reported(D) /\ IsFiniteSet(D) /\ D = BlockOf(C, b)
        /\ \A d \in D : sessions[d] = reports[d]
    BY <1>3, <1>4, <1>5, <1>9, <2>1, <2>2, <2>3
  <2>5. r.eligible # 0 /\ ~(r.average < Gate.worst)
    BY <1>11, <1>12, <2>4
  <2>0. PICK n : n = SumFunctionOnSet(NetSum(g), D)
    OBVIOUS
  <2>6. PICK e \in Nat : /\ e = r.eligible /\ r.average \in Int
                         /\ e = SumFunctionOnSet(EligCount(g), D)
                         /\ 2 * (r.average * e) <= 2 * n + (e + e)
    <3>1. /\ r.eligible = SumFunctionOnSet(EligCount(g), D) /\ r.eligible \in Nat
          /\ r.average \in Int
          /\ r.eligible # 0 =>
                2 * (r.average * r.eligible)
                   <= 2 * SumFunctionOnSet(NetSum(g), D) + (r.eligible + r.eligible)
      BY <2>3, <2>4, FoldRowIs
    <3> QED
      BY <2>0, <2>5, <3>1
  <2>7. IsFiniteSet(EligibleIn(D, g)) /\ e = Cardinality(EligibleIn(D, g)) /\ n = NetIn(D, g)
    BY <2>0, <2>4, <2>6, CountsIn
  <2>8. EligibleIn(D, g) # {}
    BY <2>5, <2>6, <2>7, FS_EmptySet
  <2>9. n \in Int
    <3>1. PICK m : m = NetSum(g)
      OBVIOUS
    <3>2. \A d \in D : m[d] \in Int
      BY <2>4, <3>1, ReportIs
    <3> QED
      BY <2>0, <2>4, <3>1, <3>2, SumType
  <2>10. PICK a \in Int : a = r.average /\ a >= Gate.worst
    BY <1>0, <2>5, <2>6
  <2>11. a * e >= Gate.worst * e
    BY <1>0, <2>10, AtLeastTimes
  <2>12. PICK w \in Int, x \in Int : w = Gate.worst * e /\ x = a * e /\ (Gate.worst - 1) * e = w - e
    BY <1>0
  <2>13. 2 * x <= 2 * n + (e + e) /\ x >= w
    BY <2>6, <2>10, <2>11, <2>12
  <2>14. n >= w - e
    BY <2>9, <2>12, <2>13
  <2> QED
    BY <2>4, <2>7, <2>8, <2>12, <2>14
<1>17. E # 0
  <2>1. PICK D : D = BlockOf(C, 0)
    OBVIOUS
  <2>2. EligibleIn(D, g) # {}
    BY <1>1, <1>16, <2>1
  <2>3. EligibleIn(D, g) \in SUBSET EligibleIn(T, g)
    BY <2>1 DEF BlockOf, EligibleIn, ChosenIn
  <2>4. IsFiniteSet(EligibleIn(T, g)) /\ EligibleIn(T, g) # {}
    BY <1>7, <2>2, <2>3, CountsIn
  <2> QED
    BY <1>15, <2>4, FS_EmptySet
<1>18. S >= Gate.selected /\ S # 0
  BY <1>0, <1>11, <1>14
<1>19. 2 * RateQuanta * E >= (2 * Gate.coverage - 1) * S
  <2>1. rate(E, S) >= Gate.coverage
    BY <1>0, <1>11, <1>14, <1>18, RateType
  <2> QED
    BY <1>0, <1>18, <2>1, RateAbove
<1>20. 2 * RateQuanta * P >= (2 * Gate.positive - 1) * E
  <2>1. rate(P, E) >= Gate.positive
    BY <1>0, <1>11, <1>14, <1>17, RateType
  <2> QED
    BY <1>0, <1>17, <2>1, RateAbove
<1>21. 2 * N >= (2 * Gate.average - 3) * E
  <2>1. PICK a \in Int : a = total.average /\ a >= Gate.average
    BY <1>0, <1>11, <1>14, <1>17
  <2>2. a * E >= Gate.average * E
    BY <1>0, <2>1, AtLeastTimes
  <2>3. PICK w \in Int, x \in Int :
           w = Gate.average * E /\ x = a * E /\ (2 * Gate.average - 3) * E = 2 * w - 3 * E
    BY <1>0
  <2>4. 2 * x <= 2 * N + 3 * E /\ x >= w
    BY <1>14, <1>17, <2>1, <2>2, <2>3
  <2> QED
    BY <2>3, <2>4
<1> QED
  BY <1>1, <1>15, <1>16, <1>18, <1>19, <1>20, <1>21

\* A gate that passes has few enough gaps and every target's result.
LEMMA GatePasses ==
    ASSUME ReportsOfDays, NEW C \in SUBSET TradingDays, Reported(C),
           NEW sessions, sessions = [d \in C |-> reports[d]],
           evaluate_promotion_gate(sessions).status = "PASS"
    PROVE  /\ Cardinality(C) >= Required
           /\ \A g \in Targets : _target_result(FoldRows(sessions, g)) = "PASS"
           /\ SumFunction([d \in TestedOf(C) |-> reports[d].day.gaps]) <= Gate.gaps
<1>1. DOMAIN sessions = C
  OBVIOUS
<1>2. IsFiniteSet(C) /\ Cardinality(C) \in Nat /\ Required \in Nat
  BY PromotionAssumption, HoldoutsAreBlocks, FS_CardinalityType DEF Required
<1>3. Cardinality(C) >= Required /\ GateStatus(sessions) = "PASS"
  <2>1. ~(Cardinality(C) < Required)
    BY <1>1 DEF evaluate_promotion_gate
  <2>2. GateStatus(sessions) = "PASS"
    BY <1>1, <2>1 DEF evaluate_promotion_gate
  <2> QED
    BY <1>2, <2>1, <2>2
<1>4. PICK results : results = {_target_result(FoldRows(sessions, t)) : t \in Targets}
  OBVIOUS
<1>5. PICK T : T = TestedOf(C)
  OBVIOUS
<1>6. T = UNION {Holdouts(DOMAIN sessions)[k] : k \in DOMAIN Holdouts(DOMAIN sessions)}
  BY <1>1, <1>5, HoldoutsAreBlocks
<1>7. PICK gaps : gaps = SumFunction([d \in T |-> sessions[d].day.gaps])
  OBVIOUS
<1>8. ~(gaps > Gate.gaps) /\ "FAIL" \notin results /\ "PENDING" \notin results
  BY <1>3, <1>4, <1>6, <1>7 DEF GateStatus
<1>9. ASSUME NEW g \in Targets PROVE _target_result(FoldRows(sessions, g)) = "PASS"
  <2>1. PICK r : r = _target_result(FoldRows(sessions, g))
    OBVIOUS
  <2>2. r \in {"PENDING", "FAIL", "PASS"}
    BY <2>1 DEF _target_result
  <2>3. r \in results
    BY <1>4, <2>1
  <2> QED
    BY <1>8, <2>1, <2>2, <2>3
<1>10. gaps = SumFunction([d \in T |-> reports[d].day.gaps]) /\ gaps <= Gate.gaps
  <2>1. T \in SUBSET C
    BY <1>5 DEF TestedOf
  <2>2. [d \in T |-> sessions[d].day.gaps] = [d \in T |-> reports[d].day.gaps]
    BY <2>1
  <2>3. PICK f : f = [d \in T |-> reports[d].day.gaps]
    OBVIOUS
  <2>4. \A d \in T : f[d] \in Int
    <3> SUFFICES ASSUME NEW d \in T PROVE f[d] \in Int
      OBVIOUS
    <3>1. d \in TradingDays /\ reports[d].day \in Evidence[d]
      BY <2>1, ReportIs
    <3>2. reports[d].day.gaps \in Int
      BY <3>1, EvidenceIs
    <3> QED
      BY <2>3, <3>2
  <2>5. DOMAIN f = T /\ IsFiniteSet(T)
    BY <1>2, <2>1, <2>3, FS_Subset
  <2>6. gaps = SumFunctionOnSet(f, T)
    BY <1>7, <2>2, <2>3, <2>5 DEF SumFunction
  <2>7. gaps \in Int /\ Gate.gaps \in Int
    BY <2>4, <2>5, <2>6, SumType, PromotionAssumption
  <2>8. gaps = SumFunction(f)
    BY <1>7, <2>2, <2>3
  <2>9. gaps <= Gate.gaps
    BY <1>8, <2>7
  <2> QED
    BY <2>3, <2>8, <2>9
<1> QED
  BY <1>3, <1>5, <1>9, <1>10

\* The property for one day, by the names above.
LEMMA EarnedOn ==
    ASSUME ReportsOfDays, NEW t \in 2..(TradeDates + 1), PaperMode(t),
           NEW C, C = {d \in 1..(t - 1) : reports[d] # None /\ reports[d].lineage = configuration[t]}
    PROVE  /\ TestedOf(C) # {}
           /\ SumFunction([d \in TestedOf(C) |-> reports[d].day.gaps]) <= Gate.gaps
           /\ \A g \in Targets :
                 /\ Cardinality(ChosenIn(TestedOf(C), g)) >= Gate.selected
                 /\ 2 * RateQuanta * Cardinality(EligibleIn(TestedOf(C), g))
                       >= (2 * Gate.coverage - 1) * Cardinality(ChosenIn(TestedOf(C), g))
                 /\ 2 * RateQuanta * Cardinality(PositiveIn(TestedOf(C), g))
                       >= (2 * Gate.positive - 1) * Cardinality(EligibleIn(TestedOf(C), g))
                 /\ 2 * NetIn(TestedOf(C), g)
                       >= (2 * Gate.average - 3) * Cardinality(EligibleIn(TestedOf(C), g))
                 /\ \A b \in 0..(BlocksOf(C) - 1) :
                       /\ EligibleIn(BlockOf(C, b), g) # {}
                       /\ NetIn(BlockOf(C, b), g)
                             >= (Gate.worst - 1) * Cardinality(EligibleIn(BlockOf(C, b), g))
<1>1. PICK p : p = t - 1 /\ p \in TradingDays
  BY DEF PaperMode
<1>2. PICK sessions : sessions = load_session_evidence(p, reports[p])
  OBVIOUS
<1>3. /\ gates[p].status = "PASS" /\ reports[p].lineage = configuration[t]
      /\ gates[p] = evaluate_promotion_gate(sessions)
  BY <1>1, <1>2 DEF PaperMode, Recomputed
<1>4. C \in SUBSET TradingDays /\ Reported(C)
  <2>1. TradeDates \in Nat
    BY PromotionAssumption
  <2>2. \A d \in 1..(t - 1) : d \in TradingDays
    BY <1>1, <2>1 DEF TradingDays
  <2> QED
    BY <2>2 DEF Reported
<1>5. \A x \in TradingDays : reports[x] # None => configuration[x] # None
  BY DEF ReportsOfDays
<1>6. C = {x \in 1..p : /\ configuration[x] # None /\ reports[x] # None
                        /\ reports[x].lineage = reports[p].lineage}
  BY <1>1, <1>3, <1>4, <1>5 DEF TradingDays
<1>7. sessions = [d \in C |-> reports[d]]
  BY <1>2, <1>6 DEF load_session_evidence
<1>8. evaluate_promotion_gate(sessions).status = "PASS"
  BY <1>3
<1>9. /\ Cardinality(C) >= Required
      /\ \A g \in Targets : _target_result(FoldRows(sessions, g)) = "PASS"
      /\ SumFunction([d \in TestedOf(C) |-> reports[d].day.gaps]) <= Gate.gaps
  BY <1>4, <1>7, <1>8, GatePasses
<1>10. PICK T : T = TestedOf(C)
  OBVIOUS
<1>11. ASSUME NEW g \in Targets
       PROVE  /\ Cardinality(ChosenIn(T, g)) >= Gate.selected
              /\ 2 * RateQuanta * Cardinality(EligibleIn(T, g))
                    >= (2 * Gate.coverage - 1) * Cardinality(ChosenIn(T, g))
              /\ 2 * RateQuanta * Cardinality(PositiveIn(T, g))
                    >= (2 * Gate.positive - 1) * Cardinality(EligibleIn(T, g))
              /\ 2 * NetIn(T, g) >= (2 * Gate.average - 3) * Cardinality(EligibleIn(T, g))
              /\ \A b \in 0..(BlocksOf(C) - 1) :
                    /\ EligibleIn(BlockOf(C, b), g) # {}
                    /\ NetIn(BlockOf(C, b), g)
                          >= (Gate.worst - 1) * Cardinality(EligibleIn(BlockOf(C, b), g))
  BY <1>4, <1>7, <1>9, <1>10, TargetPasses
<1>12. T # {}
  <2>1. PICK g \in Targets : TRUE
    BY PromotionAssumption
  <2>2. BlocksOf(C) \in Int /\ BlocksOf(C) >= 1
    BY <1>4, <1>9, HoldoutsAreBlocks
  <2>3. EligibleIn(BlockOf(C, 0), g) # {}
    <3>1. 0 \in 0..(BlocksOf(C) - 1)
      BY <2>2
    <3> QED
      BY <1>11, <3>1, Zenon
  <2>4. BlockOf(C, 0) # {}
    BY <2>3 DEF EligibleIn, ChosenIn
  <2> QED
    BY <1>10, <2>4 DEF BlockOf
<1> QED
  BY <1>9, <1>10, <1>11, <1>12, Zenon

LEMMA EarnedNow == ReportsOfDays => PaperIsEarned
<1> SUFFICES ASSUME ReportsOfDays, NEW t \in 2..(TradeDates + 1), PaperMode(t)
             PROVE  LET cohort  == {d \in 1..(t - 1) : /\ reports[d] # None
                                                       /\ reports[d].lineage = configuration[t]}
                    IN  /\ TestedOf(cohort) # {}
                        /\ SumFunction([d \in TestedOf(cohort) |-> reports[d].day.gaps]) <= Gate.gaps
                        /\ \A g \in Targets :
                              /\ Cardinality(ChosenIn(TestedOf(cohort), g)) >= Gate.selected
                              /\ 2 * RateQuanta * Cardinality(EligibleIn(TestedOf(cohort), g))
                                    >= (2 * Gate.coverage - 1) * Cardinality(ChosenIn(TestedOf(cohort), g))
                              /\ 2 * RateQuanta * Cardinality(PositiveIn(TestedOf(cohort), g))
                                    >= (2 * Gate.positive - 1) * Cardinality(EligibleIn(TestedOf(cohort), g))
                              /\ 2 * NetIn(TestedOf(cohort), g)
                                    >= (2 * Gate.average - 3) * Cardinality(EligibleIn(TestedOf(cohort), g))
                              /\ \A b \in 0..(BlocksOf(cohort) - 1) :
                                    /\ EligibleIn(BlockOf(cohort, b), g) # {}
                                    /\ NetIn(BlockOf(cohort, b), g)
                                          >= (Gate.worst - 1)
                                                * Cardinality(EligibleIn(BlockOf(cohort, b), g))
  BY Zenon DEF PaperIsEarned, TestedOf, BlockOf, BlocksOf, RankIn, ChosenIn, EligibleIn, PositiveIn, NetIn
<1> QED
  BY EarnedOn

\* What is reported, and by whom, under policies that are in force.
Sourced ==
    /\ ReportsOfDays
    /\ promotionTask # None => configuration[promotionTask.date] # None

LEMMA SourcedStep ==
    ASSUME PromotionInv, Sourced, [PromotionNext]_promotionVars PROVE Sourced'
<1>0. PromotionTypes /\ AttemptProven
  BY DEF PromotionInv
<1>1. ASSUME NEW d \in TradingDays, BeginPromotion(d) PROVE Sourced'
  <2>1. promotionTask' = [date |-> d, step |-> 0, day |-> certified[d]]
    BY <1>1 DEF BeginPromotion
  <2>2. promotionTask'.date = d /\ configuration'[d] # None
    BY <1>1, <2>1 DEF BeginPromotion
  <2> QED
    BY <1>1, <2>2 DEF BeginPromotion, Sourced, ReportsOfDays
<1>2. ASSUME NEW d \in TradingDays, NEW e \in Evidence[d], LateManifest(d, e) PROVE Sourced'
  BY <1>2 DEF LateManifest, Sourced, ReportsOfDays
<1>3. CASE EvaluateSession
  <2>1. promotionTask' # None => promotionTask'.date = promotionTask.date
    <3>1. PICK t : t = promotionTask
      OBVIOUS
    <3>2. t = [date |-> t.date, step |-> t.step, day |-> t.day]
      BY <1>0, <1>3, <3>1 DEF EvaluateSession, AttemptProven
    <3>3. promotionTask' \in {None, [t EXCEPT !.step = 1]}
      BY <1>3, <3>1 DEF EvaluateSession
    <3> QED
      BY <3>1, <3>2, <3>3
  <2> QED
    BY <1>3, <2>1 DEF EvaluateSession, Sourced, ReportsOfDays
<1>4. CASE PutEvidence
  <2>1. PICK t : t = promotionTask
    OBVIOUS
  <2>2. PICK d, report : d = t.date /\ report = Report
    OBVIOUS
  <2>3. /\ t = [date |-> d, step |-> t.step, day |-> t.day] /\ d \in TradingDays
        /\ t.day \in Evidence[d] /\ configuration[d] # None
        /\ report = SessionReport(configuration[d], t.day)
    BY <1>0, <1>4, <2>1, <2>2 DEF PutEvidence, AttemptProven, Sourced, Report
  <2>4. UNCHANGED configuration
    BY <1>4 DEF PutEvidence
  <2>5. reports' \in {reports, [reports EXCEPT ![d] = report]}
    BY <1>4, <2>1, <2>2 DEF PutEvidence
  <2>6. promotionTask' # None => promotionTask'.date = d
    <3>1. promotionTask' \in {None, [t EXCEPT !.step = t.step + 1]}
      BY <1>4, <2>1, EvidenceSteps DEF PutEvidence
    <3> QED
      BY <2>3, <3>1
  <2>7. \A e \in TradingDays : reports'[e] = reports[e] \/ (e = d /\ reports'[e] = report)
    BY <1>0, <2>5 DEF PromotionTypes
  <2>8. ReportsOfDays'
    BY <2>3, <2>4, <2>7 DEF Sourced, ReportsOfDays
  <2> QED
    BY <2>3, <2>4, <2>6, <2>8 DEF Sourced
<1>5. CASE KillPromotion
  BY <1>5 DEF KillPromotion, Sourced, ReportsOfDays
<1>6. CASE UNCHANGED promotionVars
  BY <1>6 DEF promotionVars, Sourced, ReportsOfDays
<1> QED
  BY <1>1, <1>2, <1>3, <1>4, <1>5, <1>6 DEF PromotionNext

\* A day runs in PAPER only on evidence that really meets the gate: whatever the
\* reruns, kills, late manifests and number of days, the selections and outcomes
\* of every session stored up to the day before under its lineage, in the complete
\* holdout blocks, have the coverage, the positive share and the net returns the
\* gate asks for, within the roundings of ratio, _weighted_average and _combine
\* (promotion/engine.py, load_paper_readiness).
THEOREM Earned == Spec => []PaperIsEarned
<1>1. PromotionInit => Sourced
  BY DEF PromotionInit, Sourced, ReportsOfDays
<1>2. PromotionInv /\ Sourced /\ [PromotionNext]_promotionVars => Sourced'
  BY SourcedStep
<1>3. Sourced => PaperIsEarned
  BY EarnedNow DEF Sourced
<1> QED
  BY PromotionPart, PromotionInitInv, PromotionStep, <1>1, <1>2, <1>3, PTL

-----------------------------------------------------------------------------
(***************************************************************************)
(* OCR documents, with one process of the operator at a time.  A row's     *)
(* files are all stored and never overwritten: the CLI puts a file only    *)
(* where it found none.  What is reused is what the row already names.     *)
(***************************************************************************)
OneOperator == \A p, q \in Clis : p = q

LEMMA OcrPart == Spec => OcrInit /\ [][OcrNext]_ocrVars
<1>1. Init => OcrInit
  BY DEF Init
<1>2. [Next]_lakeVars => [OcrNext]_ocrVars
  BY DEF Next, lakeVars, RunRest, RunStream, RunPromotion, RunArxiv, RunGithub, RunOcr
<1> QED
  BY <1>1, <1>2, PTL DEF Spec

Versions == 1..Len(PageCounts)
OcrKeys == (1..MaxRecords) \X Configs
Places == (Versions \X Configs) \X {FILES[i] : i \in DOMAIN FILES}
References == [pdf : Versions, manifest : SdkOutputs]
OcrJobs == [record : 1..MaxRecords, config : Configs, reuse : References \cup {None}]
AnyOutput == [state : {"succeeded", "reused"}, pdf : Versions, manifest : SdkOutputs]
GoodOutputs == {o \in AnyOutput : o.state = "succeeded" => HasElements(o.manifest)}
OcrSteps == {"wait", "collect", "head", "put", "upsert"}
OcrRuns == [call : Nat, step : OcrSteps, file : 1..4, job : OcrJobs,
            output : GoodOutputs \cup {None}]
OcrRows == [record : 1..MaxRecords, config : Configs, pdf : Versions, manifest : SdkOutputs]

OcrTypes ==
    /\ pdf \in Versions /\ record \in 1..MaxRecords /\ ocrTries \in Nat
    /\ \A call \in calls : call.job \in OcrJobs /\ call.id \in Nat /\ call.id <= ocrTries
    /\ volume \in [OcrKeys -> GoodOutputs \cup {None, Torn}]
    /\ cli \in [Clis -> OcrRuns \cup {None}]
    /\ artifacts = [k \in Places |-> artifacts[k]]
    /\ document # None => document \in OcrRows

Place(output, config, i) == <<processing_id(output.pdf, config), FILES[i]>>
Placed(output, config, n) ==
    \A i \in 1..n : artifacts[Place(output, config, i)] = output.manifest
Legible(output) == PagesPictured(output.manifest, output.pdf) /\ HasElements(output.manifest)

\* The reference a run carries is the row's.
ReuseIsCurrent(run) ==
    run.job.reuse # None =>
       /\ document # None /\ document.config = run.job.config
       /\ document.pdf = run.job.reuse.pdf /\ document.manifest = run.job.reuse.manifest

\* How far a run has come.
Progress(run) ==
    /\ run.step \in {"wait", "collect"} => run.file = 1
    /\ run.step = "collect" => volume[job_id(run.job)] \in GoodOutputs
    /\ run.step \in {"head", "put", "upsert"} => run.output \in GoodOutputs
    /\ run.step \in {"head", "put"} =>
          Legible(run.output) /\ Placed(run.output, run.job.config, run.file - 1)
    /\ run.step = "put" => artifacts[Place(run.output, run.job.config, run.file)] = None
    /\ run.step = "upsert" =>
          \/ run.job.reuse = [pdf |-> run.output.pdf, manifest |-> run.output.manifest]
          \/ Legible(run.output) /\ Placed(run.output, run.job.config, 4)

\* A call that is still spawned has its own id, and its run waits for it, about its job.
CallIdsDiffer == \A c, d \in calls : c.id = d.id => c = d
CallsMatch ==
    /\ CallIdsDiffer
    /\ \A call \in calls, p \in Clis :
          cli[p] # None /\ cli[p].call = call.id =>
             cli[p].job = call.job /\ cli[p].step = "wait"

\* The row's artifacts are whole, whether arXiv Lens reads files of their size or not.
RowIsWhole == document # None => Whole(document)

OcrInv ==
    /\ OcrTypes /\ CallsMatch
    /\ \A p \in Clis : cli[p] # None => ReuseIsCurrent(cli[p]) /\ Progress(cli[p])
    /\ RowIsWhole

LEMMA OcrFiles == DOMAIN FILES = 1..4 /\ Len(FILES) = 4
BY DEF FILES

LEMMA FilesDiffer == \A i, j \in 1..4 : FILES[i] = FILES[j] => i = j
<1>1. FILES[1] = "elements" /\ FILES[2] = "layout_vis" /\ FILES[3] = "manifest" /\ FILES[4] = "pages"
  BY DEF FILES
<1> QED
  BY <1>1

LEMMA OutputsExist ==
    /\ None \notin GoodOutputs /\ Torn \notin GoodOutputs
    /\ None \notin References /\ None \notin SdkOutputs
<1>1. None \notin GoodOutputs
  <2> SUFFICES ASSUME None \in AnyOutput PROVE FALSE
    BY DEF GoodOutputs
  <2>1. None = [state |-> None.state, pdf |-> None.pdf, manifest |-> None.manifest]
    BY DEF AnyOutput
  <2> QED
    BY <2>1, OcrAssumption DEF AnyOutput, Versions
<1>2. None \notin References
  <2> SUFFICES ASSUME None \in References PROVE FALSE
    OBVIOUS
  <2>1. None = [pdf |-> None.pdf, manifest |-> None.manifest]
    BY DEF References
  <2> QED
    BY <2>1, OcrAssumption DEF References, Versions
<1>3. Torn \notin GoodOutputs
  BY DEF Torn, GoodOutputs, AnyOutput
<1> QED
  BY <1>1, <1>2, <1>3, OcrAssumption

\* A row is whole exactly if its files are placed and it is legible.
LEMMA WholeRow ==
    ASSUME NEW row \in OcrRows
    PROVE  Whole(row) <=> Placed(row, row.config, 4) /\ Legible(row)
<1>1. FILES[3] = "manifest"
  BY DEF FILES
<1> QED
  BY <1>1, OcrFiles DEF Whole, Placed, Place, Legible

LEMMA OcrInitInv == OcrInit => OcrInv
<1> SUFFICES ASSUME OcrInit PROVE OcrInv
  OBVIOUS
<1>1. 1 \in Versions /\ 1 \in 1..MaxRecords
  BY OcrAssumption DEF Versions
<1>2. OcrTypes
  BY <1>1 DEF OcrInit, OcrTypes, OcrKeys, Places, Versions
<1> QED
  BY <1>2 DEF OcrInit, OcrInv, CallsMatch, CallIdsDiffer, RowIsWhole

-----------------------------------------------------------------------------
\* Steps that leave row, files and volume alone: what a run has reached, it keeps.
LEMMA OcrKept ==
    ASSUME OcrInv, UNCHANGED <<volume, artifacts, document>>, OcrTypes',
           calls' \subseteq calls, \A p \in Clis : cli'[p] \in {cli[p], None}
    PROVE  OcrInv'
<1>1. ASSUME NEW p \in Clis, cli'[p] # None
      PROVE  ReuseIsCurrent(cli[p])' /\ Progress(cli[p])'
  <2>1. cli'[p] = cli[p] /\ ReuseIsCurrent(cli[p]) /\ Progress(cli[p])
    BY <1>1 DEF OcrInv
  <2> QED
    BY <2>1 DEF ReuseIsCurrent, Progress, Placed
<1>2. RowIsWhole'
  BY DEF OcrInv, RowIsWhole, Whole
<1>3. CallsMatch'
  BY DEF OcrInv, CallsMatch, CallIdsDiffer
<1> QED
  BY <1>1, <1>2, <1>3 DEF OcrInv

\* Steps of the one process that leave row and files alone.
LEMMA OcrMoves ==
    ASSUME OneOperator, OcrInv, NEW p \in Clis, NEW run \in OcrRuns \cup {None},
           cli' = [cli EXCEPT ![p] = run], UNCHANGED <<artifacts, document>>, OcrTypes',
           CallIdsDiffer',
           run # None =>
              /\ ReuseIsCurrent(run) /\ Progress(run)'
              /\ \A call \in calls' :
                    run.call = call.id => run.job = call.job /\ run.step = "wait"
    PROVE  OcrInv'
<1>1. cli'[p] = run /\ \A q \in Clis : q = p
  BY DEF OneOperator, OcrInv, OcrTypes
<1>2. ASSUME NEW q \in Clis, cli'[q] # None
      PROVE  ReuseIsCurrent(cli[q])' /\ Progress(cli[q])'
  <2>1. cli'[q] = run /\ run # None
    BY <1>1, <1>2
  <2> QED
    BY <2>1 DEF ReuseIsCurrent, Progress, Placed
<1>3. RowIsWhole'
  BY DEF OcrInv, RowIsWhole, Whole
<1>4. CallsMatch'
  BY <1>1 DEF CallsMatch
<1> QED
  BY <1>2, <1>3, <1>4 DEF OcrInv

LEMMA WorldStep ==
    ASSUME OcrInv, NewRecord \/ NewPdf \/ (\E config \in Configs : Deploy(config))
    PROVE  OcrInv'
<1>1. UNCHANGED <<calls, volume, cli, ocrTries, artifacts, document>>
  BY DEF NewRecord, NewPdf, Deploy
<1>2. pdf' \in Versions /\ record' \in 1..MaxRecords
  BY OcrAssumption DEF OcrInv, OcrTypes, NewRecord, NewPdf, Deploy, Versions
<1>3. OcrTypes'
  BY <1>1, <1>2 DEF OcrInv, OcrTypes
<1> QED
  BY <1>1, <1>3, OcrKept

LEMMA StartStep ==
    ASSUME OneOperator, OcrInv, NEW p \in Clis, NEW config \in Configs, StartOcr(p, config)
    PROVE  OcrInv'
<1>0. OcrTypes
  BY DEF OcrInv
<1>1. Reuse(config) \in References \cup {None}
  BY <1>0 DEF Reuse, OcrTypes, OcrRows, References
<1> PICK jobs : jobs = Job(config)
  OBVIOUS
<1>2. jobs \in OcrJobs /\ jobs.config = config /\ jobs.reuse = Reuse(config)
  BY <1>0, <1>1 DEF Job, OcrJobs, OcrTypes
<1> PICK run :
       run = [call |-> ocrTries', step |-> "wait", file |-> 1, job |-> jobs, output |-> None]
  OBVIOUS
<1>3. ocrTries' \in Nat
  BY <1>0 DEF OcrTypes, StartOcr
<1>4. run \in OcrRuns
  BY <1>2, <1>3 DEF OcrRuns, OcrSteps
<1>5. ReuseIsCurrent(run)
  BY <1>2 DEF ReuseIsCurrent, Reuse
<1>6. Progress(run)'
  BY DEF Progress
<1>7. /\ cli' = [cli EXCEPT ![p] = run] /\ calls' = calls \cup {[id |-> ocrTries', job |-> jobs]}
      /\ UNCHANGED <<record, pdf, volume, artifacts, document>>
  BY DEF StartOcr
<1>8. OcrTypes'
  <2>1. cli' \in [Clis -> OcrRuns \cup {None}]
    BY <1>0, <1>4, <1>7 DEF OcrTypes
  <2>2. ocrTries' = ocrTries + 1
    BY DEF StartOcr
  <2>3. \A call \in calls' : call.job \in OcrJobs /\ call.id \in Nat /\ call.id <= ocrTries'
    BY <1>0, <1>2, <1>7, <2>2 DEF OcrTypes
  <2> QED
    BY <1>0, <1>3, <1>7, <2>1, <2>3 DEF OcrTypes
<1>9. /\ CallIdsDiffer'
      /\ \A call \in calls' : run.call = call.id => run.job = call.job /\ run.step = "wait"
  <2>1. run.call = ocrTries + 1 /\ run.job = jobs /\ ocrTries \in Nat
    BY <1>0 DEF StartOcr, OcrTypes
  <2>2. \A call \in calls : call.id # ocrTries + 1
    BY <1>0 DEF OcrTypes
  <2>3. CallIdsDiffer
    BY DEF OcrInv, CallsMatch
  <2> QED
    BY <1>7, <2>1, <2>2, <2>3 DEF CallIdsDiffer
<1> QED
  BY <1>4, <1>5, <1>6, <1>7, <1>8, <1>9, OcrMoves

LEMMA KillStep ==
    ASSUME OneOperator, OcrInv, NEW p \in Clis, KillCli(p) \/ Interrupt(p) PROVE OcrInv'
<1>0. OcrTypes
  BY DEF OcrInv
<1>1. /\ cli' = [cli EXCEPT ![p] = None] /\ calls' \subseteq calls
      /\ UNCHANGED <<record, pdf, ocrTries, artifacts, document>>
  BY DEF KillCli, Interrupt
<1>2. volume' \in [OcrKeys -> GoodOutputs \cup {None, Torn}]
  BY <1>0 DEF OcrTypes, KillCli, Interrupt
<1>3. OcrTypes'
  BY <1>0, <1>1, <1>2 DEF OcrTypes
<1>4. CallIdsDiffer'
  BY <1>1 DEF OcrInv, CallsMatch, CallIdsDiffer
<1> QED
  BY <1>1, <1>3, <1>4, OcrMoves

\* The worker's answer: what it commits is good, and a committed output stays.
LEMMA RemoteStep ==
    ASSUME OneOperator, OcrInv, RemoteRun PROVE OcrInv'
<1>0. OcrTypes
  BY DEF OcrInv
<1> PICK call \in calls : LET key == job_id(call.job) IN
       /\ calls' = calls \ {call}
       /\ \/ /\ cli' = Answered(call.id, "failed") /\ UNCHANGED volume
          \/ /\ Committed(key)
             /\ cli' = Answered(call.id, "collect") /\ UNCHANGED volume
          \/ /\ ~Committed(key)
             /\ \E output \in Outputs(call.job) : volume' = [volume EXCEPT ![key] = output]
             /\ cli' = Answered(call.id, "collect")
          \/ /\ ~Committed(key)
             /\ \E left \in {None, Torn} : volume' = [volume EXCEPT ![key] = left]
             /\ cli' = Answered(call.id, "failed")
  BY DEF RemoteRun
<1> PICK key : key = job_id(call.job)
  OBVIOUS
<1>1. call.job \in OcrJobs
  BY <1>0 DEF OcrTypes
<1>2. key \in OcrKeys
  BY <1>1 DEF job_id, OcrJobs, OcrKeys
<1>3. UNCHANGED <<record, pdf, ocrTries, artifacts, document>>
  BY DEF RemoteRun
<1>4. Outputs(call.job) \subseteq GoodOutputs
  <2> SUFFICES ASSUME NEW o \in Outputs(call.job) PROVE o \in GoodOutputs
    OBVIOUS
  <2>1. CASE Unchanged(call.job)
    <3>1. call.job.reuse \in References
      BY <1>1, <2>1 DEF Unchanged, OcrJobs
    <3> QED
      BY <1>0, <2>1, <3>1
         DEF Outputs, CommitOutput, GoodOutputs, AnyOutput, References, OcrTypes
  <2>2. CASE ~Unchanged(call.job)
    <3>1. PICK x \in SdkOutputs : Complete(x, pdf) /\ o = CommitOutput("succeeded", x)
      BY <2>2 DEF Outputs
    <3> QED
      BY <1>0, <3>1 DEF CommitOutput, GoodOutputs, AnyOutput, Complete, OcrTypes
  <2> QED
    BY <2>1, <2>2
<1>5. /\ volume' \in [OcrKeys -> GoodOutputs \cup {None, Torn}]
      /\ \A k \in OcrKeys : volume[k] \in GoodOutputs => volume'[k] \in GoodOutputs
  <2>1. Committed(key) <=> volume[key] \in GoodOutputs
    BY <1>0, <1>2, OutputsExist DEF Committed, Valid, OcrTypes
  <2>2. CASE UNCHANGED volume
    BY <1>0, <2>2 DEF OcrTypes
  <2>3. CASE /\ ~Committed(key)
             /\ \E v \in GoodOutputs \cup {None, Torn} : volume' = [volume EXCEPT ![key] = v]
    BY <1>0, <1>2, <2>1, <2>3 DEF OcrTypes
  <2> QED
    BY <1>4, <2>2, <2>3
<1>6. \/ cli' = Answered(call.id, "failed")
      \/ cli' = Answered(call.id, "collect") /\ volume'[key] \in GoodOutputs
  <2>1. ASSUME Committed(key), UNCHANGED volume PROVE volume'[key] \in GoodOutputs
    BY <1>0, <1>2, <2>1, OutputsExist DEF Committed, Valid, OcrTypes
  <2>2. ASSUME NEW o \in Outputs(call.job), volume' = [volume EXCEPT ![key] = o]
        PROVE  volume'[key] \in GoodOutputs
    BY <1>0, <1>2, <1>4, <2>2 DEF OcrTypes
  <2> QED
    BY <2>1, <2>2
<1>7. OcrTypes'
  <2>1. ASSUME NEW q \in Clis, NEW step \in {"failed", "collect"}, cli' = Answered(call.id, step)
        PROVE  cli'[q] \in OcrRuns \cup {None}
    <3>1. CASE cli'[q] = [cli[q] EXCEPT !.step = "collect"] /\ cli[q] # None
      <4>1. cli[q] \in OcrRuns
        BY <1>0, <3>1 DEF OcrTypes
      <4> QED
        BY <3>1, <4>1 DEF OcrRuns, OcrSteps
    <3> QED
      BY <1>0, <2>1, <3>1 DEF Answered, OcrTypes
  <2>2. cli' = [q \in Clis |-> cli'[q]]
    BY <1>6 DEF Answered
  <2>3. cli' \in [Clis -> OcrRuns \cup {None}]
    BY <1>6, <2>1, <2>2
  <2> QED
    BY <1>0, <1>3, <1>5, <2>3 DEF OcrTypes
<1>8. ASSUME NEW q \in Clis, cli'[q] # None
      PROVE  /\ ReuseIsCurrent(cli[q])' /\ Progress(cli[q])'
             /\ cli[q] # None /\ cli'[q].call = cli[q].call /\ cli'[q].job = cli[q].job
             /\ cli'[q].call # call.id => cli'[q] = cli[q]
  <2>0. cli[q] # None /\ cli[q] \in OcrRuns
    BY <1>0, <1>6, <1>8 DEF Answered, OcrTypes
  <2>1. ReuseIsCurrent(cli[q]) /\ Progress(cli[q])
    BY <2>0 DEF OcrInv
  <2>2. job_id(cli[q].job) \in OcrKeys
    BY <2>0 DEF job_id, OcrRuns, OcrJobs, OcrKeys
  <2>3. CASE cli'[q] = cli[q]
    BY <1>3, <1>5, <2>0, <2>1, <2>2, <2>3 DEF ReuseIsCurrent, Progress, Placed
  <2>4. CASE cli'[q] # cli[q]
    <3>1. /\ cli[q].call = call.id /\ volume'[key] \in GoodOutputs
          /\ cli'[q] = [cli[q] EXCEPT !.step = "collect"]
      BY <1>6, <1>8, <2>0, <2>4 DEF Answered
    <3>2. cli[q].job = call.job /\ cli[q].step = "wait"
      BY <2>0, <3>1 DEF OcrInv, CallsMatch
    <3>3. /\ cli'[q].step = "collect" /\ cli'[q].job = cli[q].job
          /\ cli'[q].call = cli[q].call /\ cli'[q].file = cli[q].file
      BY <2>0, <3>1 DEF OcrRuns
    <3> QED
      BY <1>3, <2>0, <2>1, <3>1, <3>2, <3>3 DEF ReuseIsCurrent, Progress
  <2> QED
    BY <2>3, <2>4
<1>9. CallsMatch'
  <2>1. calls' = calls \ {call}
    OBVIOUS
  <2>2. CallIdsDiffer' /\ \A c \in calls' : c \in calls /\ c.id # call.id
    BY <2>1 DEF OcrInv, CallsMatch, CallIdsDiffer
  <2> QED
    BY <1>8, <2>2 DEF OcrInv, CallsMatch
<1>10. RowIsWhole'
  BY <1>3 DEF OcrInv, RowIsWhole, Whole
<1> QED
  BY <1>7, <1>8, <1>9, <1>10 DEF OcrInv

\* A run's own step: the run changes, nothing else it depends on does.
LEMMA RunMoves ==
    ASSUME OneOperator, OcrInv, NEW p \in Clis, NEW run \in OcrRuns \cup {None},
           cli[p] # None, cli[p].step # "wait", cli' = [cli EXCEPT ![p] = run],
           UNCHANGED <<record, pdf, calls, volume, ocrTries, artifacts, document>>,
           run # None => run.call = cli[p].call /\ run.job = cli[p].job /\ Progress(run)
    PROVE  OcrInv'
<1>0. OcrTypes
  BY DEF OcrInv
<1>1. OcrTypes'
  BY <1>0 DEF OcrTypes
<1>2. ASSUME run # None
      PROVE  /\ ReuseIsCurrent(run) /\ Progress(run)'
             /\ \A call \in calls' :
                   run.call = call.id => run.job = call.job /\ run.step = "wait"
  <2>1. ReuseIsCurrent(run)
    BY <1>2 DEF OcrInv, ReuseIsCurrent
  <2>2. Progress(run)'
    BY <1>2 DEF Progress, Placed
  <2> QED
    BY <1>2, <2>1, <2>2 DEF OcrInv, CallsMatch
<1>3. CallIdsDiffer'
  BY DEF OcrInv, CallsMatch, CallIdsDiffer
<1> QED
  BY <1>1, <1>2, <1>3, OcrMoves

LEMMA CollectStep ==
    ASSUME OneOperator, OcrInv, NEW p \in Clis, Collect(p) PROVE OcrInv'
<1>0. OcrTypes
  BY DEF OcrInv
<1>1. cli[p] # None /\ cli[p].step = "collect" /\ cli[p] \in OcrRuns
  BY <1>0 DEF Collect, Running, OcrTypes
<1> PICK old : old = cli[p]
  OBVIOUS
<1> PICK output : output = volume[job_id(old.job)]
  OBVIOUS
<1>2. output \in GoodOutputs
  BY <1>1 DEF OcrInv, Progress
<1> PICK run :
       run = IF LineageMatches(old.job, output)
             THEN [old EXCEPT !.output = output,
                              !.step = IF output.state = "reused" THEN "upsert" ELSE "head"]
             ELSE None
  OBVIOUS
<1>3. cli' = [cli EXCEPT ![p] = run]
  BY <1>0 DEF Collect, OcrTypes
<1>4. ASSUME run # None
      PROVE  /\ run \in OcrRuns /\ run.call = old.call /\ run.job = old.job
             /\ Progress(run)
  <2>1. /\ LineageMatches(old.job, output)
        /\ run = [old EXCEPT !.output = output,
                              !.step = IF output.state = "reused" THEN "upsert" ELSE "head"]
    BY <1>4
  <2>2. CASE output.state = "reused"
    <3>1. run = [old EXCEPT !.output = output, !.step = "upsert"]
      BY <2>1, <2>2
    <3>2. /\ run \in OcrRuns /\ run.call = old.call /\ run.job = old.job
          /\ run.step = "upsert" /\ run.output = output
      BY <1>1, <1>2, <3>1 DEF OcrRuns, OcrSteps
    <3>3. run.job.reuse = [pdf |-> output.pdf, manifest |-> output.manifest]
      BY <2>1, <2>2, <3>2 DEF LineageMatches
    <3> QED
      BY <1>2, <3>2, <3>3 DEF Progress
  <2>3. CASE output.state # "reused"
    <3>1. run = [old EXCEPT !.output = output, !.step = "head"]
      BY <2>1, <2>3
    <3>2. /\ run \in OcrRuns /\ run.call = old.call /\ run.job = old.job
          /\ run.step = "head" /\ run.output = output /\ run.file = old.file
      BY <1>1, <1>2, <3>1 DEF OcrRuns, OcrSteps
    <3>3. Legible(output)
      BY <1>2, <2>1, <2>3 DEF LineageMatches, DocumentValid, Legible, GoodOutputs, AnyOutput
    <3>4. old.file = 1
      BY <1>1 DEF OcrInv, Progress
    <3>5. Placed(output, run.job.config, run.file - 1)
      BY <3>2, <3>4 DEF Placed
    <3> QED
      BY <1>2, <3>2, <3>3, <3>5 DEF Progress
  <2> QED
    BY <2>2, <2>3
<1>5. UNCHANGED <<record, pdf, calls, volume, ocrTries, artifacts, document>>
  BY DEF Collect
<1> QED
  BY <1>1, <1>3, <1>4, <1>5, RunMoves

LEMMA NextRun ==
    ASSUME NEW old \in OcrRuns
    PROVE  LET run == NextFile(old)
           IN  /\ run \in OcrRuns /\ run.call = old.call /\ run.job = old.job
               /\ run.output = old.output
               /\ \/ run.step = "head" /\ run.file = old.file + 1
                  \/ run.step = "upsert" /\ old.file = 4
<1>1. CASE old.file = 4
  BY <1>1, OcrFiles DEF NextFile, OcrRuns, OcrSteps
<1>2. CASE old.file # 4
  <2>1. NextFile(old) = [old EXCEPT !.step = "head", !.file = old.file + 1]
    BY <1>2, OcrFiles DEF NextFile, OcrRuns
  <2>2. old.file + 1 \in 1..4
    BY <1>2 DEF OcrRuns
  <2> QED
    BY <2>1, <2>2 DEF OcrRuns, OcrSteps
<1> QED
  BY <1>1, <1>2

\* One more file in place.
LEMMA OneMorePlaced ==
    ASSUME NEW output, NEW config, NEW n \in 1..4, Placed(output, config, n - 1),
           artifacts[Place(output, config, n)] = output.manifest
    PROVE  Placed(output, config, n)
<1>1. \A i \in 1..n : i = n \/ i \in 1..(n - 1)
  OBVIOUS
<1> QED
  BY <1>1 DEF Placed

LEMMA HeadStep ==
    ASSUME OneOperator, OcrInv, NEW p \in Clis, HeadObject(p) PROVE OcrInv'
<1>0. OcrTypes
  BY DEF OcrInv
<1>1. cli[p] # None /\ cli[p].step = "head" /\ cli[p] \in OcrRuns
  BY <1>0 DEF HeadObject, Running, OcrTypes
<1> PICK old : old = cli[p]
  OBVIOUS
<1>2. /\ old.output \in GoodOutputs /\ Legible(old.output) /\ old.file \in 1..4
      /\ Placed(old.output, old.job.config, old.file - 1)
  BY <1>1 DEF OcrInv, Progress, OcrRuns
<1>3. Key(old) = Place(old.output, old.job.config, old.file)
  BY DEF Key, Place
<1>3a. LET run == NextFile(old)
      IN  /\ run \in OcrRuns /\ run.call = old.call /\ run.job = old.job
          /\ run.output = old.output
          /\ \/ run.step = "head" /\ run.file = old.file + 1
             \/ run.step = "upsert" /\ old.file = 4
  BY <1>1, NextRun
<1> PICK run : run = IF artifacts[Key(old)] = None THEN [old EXCEPT !.step = "put"]
                     ELSE IF Collides(artifacts[Key(old)], old.output.manifest) THEN None
                     ELSE NextFile(old)
  OBVIOUS
<1>4. cli' = [cli EXCEPT ![p] = run]
  BY <1>0 DEF HeadObject, OcrTypes
<1>5. ASSUME run # None
      PROVE  /\ run \in OcrRuns /\ run.call = old.call /\ run.job = old.job
             /\ Progress(run)
  <2>1. CASE artifacts[Key(old)] = None
    <3>1. /\ run \in OcrRuns /\ run.call = old.call /\ run.job = old.job
          /\ run.output = old.output /\ run.file = old.file /\ run.step = "put"
      BY <1>1, <2>1 DEF OcrRuns, OcrSteps
    <3> QED
      BY <1>2, <1>3, <2>1, <3>1 DEF Progress
  <2>2. CASE artifacts[Key(old)] # None
    <3>1. run = NextFile(old) /\ artifacts[Key(old)] = old.output.manifest
      BY <1>5, <2>2 DEF Collides
    <3>2. Placed(old.output, old.job.config, old.file)
      BY <1>2, <1>3, <3>1, OneMorePlaced
    <3>3. /\ run \in OcrRuns /\ run.call = old.call /\ run.job = old.job
          /\ run.output = old.output
          /\ \/ run.step = "head" /\ run.file = old.file + 1
             \/ run.step = "upsert" /\ old.file = 4
      BY <3>1, <1>3a
    <3>4. CASE run.step = "head" /\ run.file = old.file + 1
      <4>1. run.file - 1 = old.file
        BY <1>2, <3>4
      <4> QED
        BY <1>2, <3>2, <3>3, <3>4, <4>1 DEF Progress
    <3>5. CASE run.step = "upsert" /\ old.file = 4
      BY <1>2, <3>2, <3>3, <3>5 DEF Progress
    <3> QED
      BY <3>3, <3>4, <3>5
  <2> QED
    BY <2>1, <2>2
<1>6. UNCHANGED <<record, pdf, calls, volume, ocrTries, artifacts, document>>
  BY DEF HeadObject
<1> QED
  BY <1>1, <1>4, <1>5, <1>6, RunMoves

\* The place is free, so no file of the row is overwritten.
LEMMA UploadStep ==
    ASSUME OneOperator, OcrInv, NEW p \in Clis, UploadFile(p) PROVE OcrInv'
<1>0. OcrTypes
  BY DEF OcrInv
<1>1. cli[p] # None /\ cli[p].step = "put" /\ cli[p] \in OcrRuns
  BY <1>0 DEF UploadFile, Running, OcrTypes
<1> PICK old : old = cli[p]
  OBVIOUS
<1> PICK place : place = Place(old.output, old.job.config, old.file)
  OBVIOUS
<1>2. /\ old.output \in GoodOutputs /\ Legible(old.output) /\ old.file \in 1..4
      /\ Placed(old.output, old.job.config, old.file - 1)
      /\ artifacts[place] = None
  BY <1>1 DEF OcrInv, Progress, OcrRuns
<1>3. Key(old) = place
  BY DEF Key, Place
<1> PICK run : run = NextFile(old)
  OBVIOUS
<1>4. /\ cli' = [cli EXCEPT ![p] = run]
      /\ artifacts' = [artifacts EXCEPT ![place] = old.output.manifest]
      /\ UNCHANGED <<record, pdf, calls, volume, ocrTries, document>>
  BY <1>0, <1>3 DEF UploadFile, OcrTypes
<1>5. /\ run \in OcrRuns /\ run.call = old.call /\ run.job = old.job
      /\ run.output = old.output
      /\ \/ run.step = "head" /\ run.file = old.file + 1
         \/ run.step = "upsert" /\ old.file = 4
  BY <1>1, NextRun
<1>6. place \in Places
  <2>1. old.output.pdf \in Versions /\ old.job.config \in Configs
    BY <1>1, <1>2 DEF GoodOutputs, AnyOutput, OcrRuns, OcrJobs
  <2>2. FILES[old.file] \in {FILES[i] : i \in DOMAIN FILES}
    BY <1>2, OcrFiles
  <2> QED
    BY <2>1, <2>2 DEF Place, Places, processing_id
<1>7. /\ artifacts'[place] = old.output.manifest
      /\ \A k : k # place => artifacts'[k] = artifacts[k]
      /\ artifacts' = [k \in Places |-> artifacts'[k]]
  <2>1. artifacts = [k \in Places |-> artifacts[k]]
    BY <1>0 DEF OcrTypes
  <2> QED
    BY <1>4, <1>6, <2>1
<1>8. OcrTypes'
  BY <1>0, <1>4, <1>5, <1>7 DEF OcrTypes
<1>9. Placed(old.output, old.job.config, old.file)'
  <2> SUFFICES ASSUME NEW i \in 1..old.file
               PROVE  artifacts'[Place(old.output, old.job.config, i)] = old.output.manifest
    BY DEF Placed
  <2>1. CASE i = old.file
    BY <1>7, <2>1
  <2>2. CASE i # old.file
    <3>1. i \in 1..(old.file - 1) /\ i \in 1..4
      BY <1>2, <2>2
    <3>2. Place(old.output, old.job.config, i) # place
      BY <1>2, <2>2, <3>1, FilesDiffer DEF Place
    <3> QED
      BY <1>2, <1>7, <3>1, <3>2 DEF Placed
  <2> QED
    BY <2>1, <2>2
<1>10. Progress(run)'
  <2>1. CASE run.step = "head" /\ run.file = old.file + 1
    <3>1. run.file - 1 = old.file
      BY <1>2, <2>1
    <3> QED
      BY <1>2, <1>5, <1>9, <2>1, <3>1 DEF Progress
  <2>2. CASE run.step = "upsert" /\ old.file = 4
    BY <1>2, <1>5, <1>9, <2>2 DEF Progress
  <2> QED
    BY <1>5, <2>1, <2>2
<1>11. RowIsWhole'
  <2> SUFFICES ASSUME document # None PROVE Whole(document)'
    BY <1>4 DEF RowIsWhole
  <2>1. document \in OcrRows /\ Whole(document)
    BY <1>0 DEF OcrInv, OcrTypes, RowIsWhole
  <2>2. Placed(document, document.config, 4) /\ Legible(document)
    BY <2>1, WholeRow
  <2>3. document.manifest # None
    BY <2>1, OutputsExist DEF OcrRows
  <2>4. \A i \in 1..4 : artifacts'[Place(document, document.config, i)] = document.manifest
    BY <1>2, <1>7, <2>2, <2>3 DEF Placed
  <2>5. FILES[3] = "manifest"
    BY DEF FILES
  <2> QED
    BY <1>4, <2>2, <2>4, <2>5, OcrFiles DEF Whole, Legible, Place
<1>12. \A q \in Clis : q = p /\ cli'[q] = run
  BY <1>0, <1>4 DEF OneOperator, OcrTypes
<1>13. ReuseIsCurrent(run)'
  <2>1. ReuseIsCurrent(old)
    BY <1>1 DEF OcrInv
  <2> QED
    BY <1>4, <1>5, <2>1 DEF ReuseIsCurrent
<1>14. CallsMatch'
  <2>1. \A call \in calls : call.id # old.call
    BY <1>1 DEF OcrInv, CallsMatch
  <2> QED
    BY <1>4, <1>5, <1>12, <2>1 DEF OcrInv, CallsMatch, CallIdsDiffer
<1>15. \A q \in Clis : cli'[q] # None => ReuseIsCurrent(cli[q])' /\ Progress(cli[q])'
  BY <1>10, <1>12, <1>13 DEF ReuseIsCurrent, Progress, Placed
<1> QED
  BY <1>8, <1>11, <1>14, <1>15 DEF OcrInv

LEMMA UpsertStep ==
    ASSUME OneOperator, OcrInv, NEW p \in Clis, Upsert(p) PROVE OcrInv'
<1>0. OcrTypes
  BY DEF OcrInv
<1>1. cli[p] # None /\ cli[p].step = "upsert" /\ cli[p] \in OcrRuns
  BY <1>0 DEF Upsert, Running, OcrTypes
<1> PICK old : old = cli[p]
  OBVIOUS
<1> PICK row : row = [record |-> old.job.record, config |-> old.job.config,
                      pdf |-> old.output.pdf, manifest |-> old.output.manifest]
  OBVIOUS
<1>2. /\ document' = row /\ cli' = [cli EXCEPT ![p] = None]
      /\ UNCHANGED <<record, pdf, calls, volume, ocrTries, artifacts>>
  BY DEF Upsert
<1>3. old.output \in GoodOutputs
  BY <1>1 DEF OcrInv, Progress
<1>4. row \in OcrRows
  BY <1>1, <1>3 DEF OcrRows, OcrRuns, OcrJobs, GoodOutputs, AnyOutput
<1>5. OcrTypes'
  BY <1>0, <1>2, <1>4 DEF OcrTypes
<1>6. Placed(row, row.config, 4) /\ Legible(row)
  <2>1. CASE old.job.reuse = [pdf |-> old.output.pdf, manifest |-> old.output.manifest]
    <3>1. old.job.reuse \in References
      BY <1>3, <2>1 DEF References, GoodOutputs, AnyOutput
    <3>2. ReuseIsCurrent(old) /\ old.job.reuse # None
      BY <1>1, <3>1, OutputsExist DEF OcrInv
    <3>3. /\ document # None /\ document.config = row.config /\ document.pdf = row.pdf
          /\ document.manifest = row.manifest
      BY <2>1, <3>2 DEF ReuseIsCurrent
    <3>4. document \in OcrRows /\ Whole(document)
      BY <1>0, <3>3 DEF OcrInv, OcrTypes, RowIsWhole
    <3>5. Placed(document, document.config, 4) /\ Legible(document)
      BY <3>4, WholeRow
    <3> QED
      BY <3>3, <3>5 DEF Placed, Legible, Place
  <2>2. CASE Legible(old.output) /\ Placed(old.output, old.job.config, 4)
    <3>1. row.config = old.job.config /\ row.pdf = old.output.pdf
          /\ row.manifest = old.output.manifest
      OBVIOUS
    <3> QED
      BY <2>2, <3>1 DEF Placed, Legible, Place
  <2>3. Progress(old)
    BY <1>1 DEF OcrInv
  <2> QED
    BY <1>1, <2>1, <2>2, <2>3 DEF Progress
<1>7. Whole(row)
  BY <1>4, <1>6, WholeRow
<1>8. RowIsWhole'
  BY <1>2, <1>7 DEF RowIsWhole, Whole
<1>9. \A q \in Clis : cli'[q] = None
  BY <1>0, <1>2 DEF OneOperator, OcrTypes
<1>10. CallsMatch'
  BY <1>2, <1>9 DEF OcrInv, CallsMatch, CallIdsDiffer
<1> QED
  BY <1>5, <1>8, <1>9, <1>10 DEF OcrInv

LEMMA OcrStep == OneOperator /\ OcrInv /\ [OcrNext]_ocrVars => OcrInv'
<1> SUFFICES ASSUME OneOperator, OcrInv, [OcrNext]_ocrVars PROVE OcrInv'
  OBVIOUS
<1>1. CASE UNCHANGED ocrVars
  <2>1. UNCHANGED <<record, pdf, calls, volume, cli, ocrTries, artifacts, document>>
    BY <1>1 DEF ocrVars
  <2>2. OcrTypes'
    BY <2>1 DEF OcrInv, OcrTypes
  <2> QED
    BY <2>1, <2>2, OcrKept
<1>2. CASE OcrNext
  BY <1>2, WorldStep, StartStep, KillStep, RemoteStep, CollectStep, HeadStep, UploadStep,
     UpsertStep DEF OcrNext
<1> QED
  BY <1>1, <1>2

\* While the operator runs one process at a time, the row arXiv Lens resolves has its artifacts
\* whole at every moment: every file it declares is in S3 with the checksum its manifest states,
\* one picture per page (store.py, publish, and Lens's resolver), however many runs were killed
\* between two uploads, whatever the worker left behind on its volume and whatever changed
\* of metadata, PDF and configuration meanwhile.  arXiv Lens reads it, unless one of its files is
\* larger than Lens's own limits (_read_bytes), which the publisher does not know.
THEOREM Readable == ASSUME OneOperator PROVE Spec => []DocumentsAreReadable
<1>1. OcrInv => DocumentsAreReadable
  BY DEF OcrInv, RowIsWhole, DocumentsAreReadable, LensReads
<1>2. OcrInv /\ [OcrNext]_ocrVars => OcrInv'
  BY OcrStep
<1> QED
  BY <1>1, <1>2, OcrInitInv, OcrPart, PTL

-----------------------------------------------------------------------------
(***************************************************************************)
(* arXiv papers.  A manifest is immutable and holds one record of a paper; *)
(* a landed day is its manifest or empty; the published row of a paper is  *)
(* a landed one; and while a day is published, the papers being rewritten  *)
(* are exactly its pending ones, until the papers commit makes the new     *)
(* rows, and with them the new children, current.                          *)
(***************************************************************************)
LEMMA ArxivPart == Spec => ArxivInit /\ [][ArxivNext]_arxivVars
<1>1. Init => ArxivInit
  BY DEF Init
<1>2. [Next]_lakeVars => [ArxivNext]_arxivVars
  BY DEF Next, lakeVars, RunRest, RunStream, RunPromotion, RunArxiv, RunGithub, RunOcr
<1> QED
  BY <1>1, <1>2, PTL DEF Spec

\* One record of a paper, all of the day.
Snapshot(s, d) ==
    /\ s \subseteq Records /\ \A r \in s : r.stamp = d
    /\ \A r, q \in s : r.paper = q.paper => r = q

ArxivTasks == [name : {"none", "capture", "publish"}, day : 0..Days, step : Nat,
               data : SUBSET Records]

ArxivTypes ==
    /\ day \in 1..Days /\ arxivTask \in ArxivTasks
    /\ oai \in [Papers -> Records \cup {None}]
    /\ manifests = [d \in 1..Days |-> manifests[d]]
    /\ landing = [d \in 1..Days |-> [records |-> landing[d].records,
                                     publication |-> landing[d].publication]]
    /\ papers \in [Papers -> Records \cup {None}]
    /\ authors \in [Papers -> Seq(1..MaxVersions)]
    /\ categories \in [Papers -> Seq(1..MaxVersions)]

\* The provider's records, the captured ones and the capture under way.
Provided == \A p \in Papers : oai[p] # None => oai[p].paper = p /\ oai[p].stamp <= day

Manifests == \A d \in 1..Days : manifests[d] # None => Snapshot(manifests[d], d)

Capturing ==
    arxivTask.name = "capture" =>
       /\ arxivTask.day \in 1..Days /\ manifests[arxivTask.day] = None
       /\ arxivTask.step \in 1..(Len(PageOrder) + 1)
       /\ Snapshot(arxivTask.data, arxivTask.day)
       /\ \A r \in arxivTask.data : \E i \in 1..(arxivTask.step - 1) : r.paper = PageOrder[i]

Captured ==
    {r \in Records :
       \/ \E d \in 1..Days : manifests[d] # None /\ r \in manifests[d]
       \/ arxivTask.name = "capture" /\ r \in arxivTask.data}

\* A captured record is the provider's current one or an older one of the paper.
Superseded(r) ==
    /\ oai[r.paper] # None
    /\ r.stamp <= oai[r.paper].stamp
    /\ r = oai[r.paper] \/ r.version < oai[r.paper].version

History ==
    /\ \A r \in Captured : Superseded(r)
    /\ \A r, q \in Captured : r.paper = q.paper /\ r.stamp < q.stamp => r.version < q.version

\* What is landed, published and being published.
PapersLanded ==
    /\ \A d \in 1..Days :
          \/ landing[d].records = {}
          \/ manifests[d] # None /\ landing[d].records = manifests[d]
    /\ \A p \in Papers : papers[p] # None =>
          papers[p].paper = p /\ papers[p] \in landing[papers[p].stamp].records

Expected(r) == IF r.deleted THEN <<>> ELSE <<r.version>>

Rewriting ==
    arxivTask.name = "publish" =>
       /\ arxivTask.day \in 1..Days /\ manifests[arxivTask.day] # None
       /\ arxivTask.step \in 1..8
       /\ arxivTask.data = IF arxivTask.step <= 3 THEN {} ELSE Pending(arxivTask.day)
       /\ \A r \in arxivTask.data :
             /\ arxivTask.step \in {5, 6} => authors[r.paper] = <<>>
             /\ arxivTask.step \in {7, 8} => authors[r.paper] = Expected(r)
             /\ arxivTask.step \in {6, 7} => categories[r.paper] = <<>>
             /\ arxivTask.step = 8 => categories[r.paper] = Expected(r)

ArxivInv ==
    /\ ArxivTypes /\ Provided /\ Manifests /\ Capturing /\ History /\ PapersLanded /\ Rewriting
    /\ ChildrenMatchPapers

LEMMA PageOrdering ==
    /\ Len(PageOrder) \in Nat /\ PageOrder \in [1..Len(PageOrder) -> Papers]
    /\ \A i, j \in 1..Len(PageOrder) : PageOrder[i] = PageOrder[j] => i = j
<1>1. Cardinality(Papers) \in Nat /\ ExistsBijection(1..Cardinality(Papers), Papers)
  BY ArxivAssumption, FS_CardinalityType
<1>2. \E f \in [1..Cardinality(Papers) -> Papers] : IsInjective(f)
  BY <1>1 DEF ExistsBijection, Bijection, Injection, IsInjective
<1>3. PageOrder \in [1..Cardinality(Papers) -> Papers] /\ IsInjective(PageOrder)
  BY <1>2 DEF PageOrder, SetToSeq
<1>4. PageOrder \in Seq(Papers) /\ Len(PageOrder) = Cardinality(Papers)
  BY <1>1, <1>3
<1> QED
  BY <1>1, <1>3, <1>4 DEF IsInjective

LEMMA NoSeq == SetToSeq({}) = <<>>
<1>1. Cardinality({}) = 0
  BY FS_EmptySet
<1> QED
  BY <1>1 DEF SetToSeq, IsInjective

LEMMA OneSeq == ASSUME NEW v PROVE SetToSeq({v}) = <<v>>
<1>1. Cardinality({v}) = 1
  BY FS_Singleton
<1>2. <<v>> \in [1..1 -> {v}] /\ IsInjective(<<v>>)
  BY DEF IsInjective
<1>3. \A f \in [1..1 -> {v}] : f = <<v>>
  <2> TAKE f \in [1..1 -> {v}]
  <2>1. f = [i \in 1..1 |-> v]
    OBVIOUS
  <2>2. <<v>> = [i \in 1..1 |-> v]
    OBVIOUS
  <2> QED
    BY <2>1, <2>2
<1> QED
  BY <1>1, <1>2, <1>3 DEF SetToSeq

LEMMA ArxivInitInv == ArxivInit => ArxivInv
<1> SUFFICES ASSUME ArxivInit PROVE ArxivInv
  OBVIOUS
<1>1. <<>> \in Seq(1..MaxVersions)
  OBVIOUS
<1>2. ArxivTypes
  <2>1. 1 \in 1..Days /\ 0 \in 0..Days
    BY ArxivAssumption
  <2>2. arxivTask \in ArxivTasks
    BY <2>1 DEF ArxivInit, NoTask, ArxivTasks
  <2>3. landing = [d \in 1..Days |-> [records |-> landing[d].records,
                                      publication |-> landing[d].publication]]
    BY DEF ArxivInit
  <2> QED
    BY <1>1, <2>1, <2>2, <2>3 DEF ArxivInit, ArxivTypes
<1>3. arxivTask.name = "none"
  BY DEF ArxivInit, NoTask
<1>4. Provided /\ Manifests /\ Capturing /\ Rewriting
  BY <1>3 DEF ArxivInit, Provided, Manifests, Capturing, Rewriting
<1>5. Captured = {}
  BY <1>3 DEF ArxivInit, Captured
<1>6. History
  BY <1>5 DEF History
<1>7. PapersLanded
  BY DEF ArxivInit, PapersLanded
<1>8. ChildrenMatchPapers
  BY DEF ArxivInit, ChildrenMatchPapers, Children
<1> QED
  BY <1>2, <1>4, <1>6, <1>7, <1>8 DEF ArxivInv

\* Steps that write no table.
LEMMA TablesKept ==
    ASSUME ArxivInv, UNCHANGED <<manifests, landing, papers, authors, categories>>
    PROVE  /\ Manifests' /\ PapersLanded' /\ ChildrenMatchPapers'
           /\ \A d : Pending(d)' = Pending(d)
<1>1. \A d : Pending(d)' = Pending(d)
  BY DEF Pending
<1>2. ChildrenMatchPapers'
  BY <1>1 DEF ArxivInv, ChildrenMatchPapers, Children
<1> QED
  BY <1>1, <1>2 DEF ArxivInv, Manifests, PapersLanded

LEMMA MutateStep ==
    ASSUME ArxivInv, NEW p \in Papers, Mutate(p) PROVE ArxivInv'
<1>0. ArxivTypes /\ Provided /\ History /\ Capturing
  BY DEF ArxivInv
<1>1. /\ UNCHANGED <<day, arxivTask, manifests, landing, papers, authors, categories>>
      /\ arxivTask.name # "publish"
  BY DEF Mutate
<1> PICK version : version = IF oai[p] = None THEN 1 ELSE oai[p].version + 1
  OBVIOUS
<1>2. version <= MaxVersions /\ MaxVersions \in Nat
  BY ArxivAssumption DEF Mutate
<1>3. version \in 1..MaxVersions /\ (oai[p] # None => oai[p].version < version)
  BY <1>0, <1>2 DEF ArxivTypes, Records
<1>4. PICK deleted \in BOOLEAN :
         oai' = [oai EXCEPT ![p] = [paper |-> p, stamp |-> day, version |-> version,
                                    deleted |-> deleted]]
  BY DEF Mutate
<1> PICK new : new = [paper |-> p, stamp |-> day, version |-> version, deleted |-> deleted]
  OBVIOUS
<1>5. /\ new \in Records /\ new.paper = p /\ new.stamp = day /\ new.version = version
  BY <1>0, <1>3, <1>4 DEF Records, ArxivTypes
<1>6. oai'[p] = new /\ \A q \in Papers : q # p => oai'[q] = oai[q]
  BY <1>0, <1>4 DEF ArxivTypes
<1>7. ArxivTypes'
  <2>1. oai' \in [Papers -> Records \cup {None}]
    BY <1>0, <1>4, <1>5 DEF ArxivTypes
  <2> QED
    BY <1>0, <1>1, <2>1 DEF ArxivTypes
<1>8. Provided'
  <2>1. new.stamp <= day
    BY <1>0, <1>5, ArxivAssumption DEF ArxivTypes
  <2> QED
    BY <1>0, <1>1, <1>5, <1>6, <2>1 DEF Provided
<1>9. Captured' = Captured
  BY <1>1 DEF Captured
<1>10. History'
  <2>1. ASSUME NEW r \in Captured PROVE Superseded(r)'
    <3>1. Superseded(r) /\ r \in Records /\ r.paper \in Papers
      BY <1>0, <2>1 DEF History, Captured, Records
    <3>2. CASE r.paper # p
      BY <1>6, <3>1, <3>2 DEF Superseded
    <3>3. CASE r.paper = p
      <4>1. oai[p] # None /\ oai[p] \in Records /\ oai[p].stamp <= day
        BY <1>0, <3>1, <3>3 DEF Superseded, ArxivTypes, Provided
      <4>2. r.version <= oai[p].version /\ r.stamp <= oai[p].stamp
        BY <3>1, <3>3, <4>1 DEF Superseded, Records
      <4>3. new # None
        BY <1>5, ArxivAssumption
      <4>4. r.version < new.version
        BY <1>3, <1>5, <3>1, <4>1, <4>2 DEF Records
      <4>5. r.stamp <= new.stamp
        BY <1>0, <1>5, <3>1, <4>1, <4>2 DEF Records, ArxivTypes
      <4> QED
        BY <1>6, <3>3, <4>3, <4>4, <4>5 DEF Superseded
    <3> QED
      BY <3>2, <3>3
  <2> QED
    BY <1>0, <1>9, <2>1 DEF History
<1>11. Capturing' /\ Rewriting'
  BY <1>0, <1>1 DEF Capturing, Rewriting
<1> QED
  BY <1>1, <1>7, <1>8, <1>10, <1>11, TablesKept DEF ArxivInv

\* Steps of the task that write no table and leave the provider alone.
LEMMA TaskMoves ==
    ASSUME ArxivInv, UNCHANGED <<oai, manifests, landing, papers, authors, categories>>,
           day' \in 1..Days, day <= day', arxivTask' \in ArxivTasks,
           Capturing', Rewriting', Captured' \subseteq Captured
    PROVE  ArxivInv'
<1>1. ArxivTypes'
  BY DEF ArxivInv, ArxivTypes
<1>2. Provided'
  BY DEF ArxivInv, Provided, ArxivTypes, Records
<1>3. History'
  BY DEF ArxivInv, History, Superseded
<1> QED
  BY <1>1, <1>2, <1>3, TablesKept DEF ArxivInv

LEMMA ClockStep == ASSUME ArxivInv, Midnight PROVE ArxivInv'
<1>1. UNCHANGED <<oai, arxivTask, manifests, landing, papers, authors, categories>>
  BY DEF Midnight
<1>2. day' \in 1..Days /\ day <= day' /\ arxivTask.name # "publish" /\ arxivTask \in ArxivTasks
  BY ArxivAssumption DEF Midnight, ArxivInv, ArxivTypes
<1>3. Capturing' /\ Rewriting' /\ Captured' = Captured
  BY <1>1, <1>2 DEF ArxivInv, Capturing, Rewriting, Captured
<1> QED
  BY <1>1, <1>2, <1>3, TaskMoves

LEMMA NoTaskStep == 
    ASSUME ArxivInv, UNCHANGED <<oai, day, manifests, landing, papers, authors, categories>>,
           arxivTask' = NoTask
    PROVE  ArxivInv'
<1>1. arxivTask' \in ArxivTasks /\ arxivTask'.name = "none"
  BY ArxivAssumption DEF NoTask, ArxivTasks
<1>2. Capturing' /\ Rewriting' /\ Captured' \subseteq Captured
  BY <1>1 DEF Capturing, Rewriting, Captured
<1>3. day \in 1..Days /\ day <= day
  BY ArxivAssumption DEF ArxivInv, ArxivTypes
<1> QED
  BY <1>1, <1>2, <1>3, TaskMoves

LEMMA BeginStep ==
    ASSUME ArxivInv, NEW d \in 1..Days, CaptureDay(d) \/ PublishDay(d) PROVE ArxivInv'
<1>0. day \in 1..Days /\ day <= day /\ Manifests
  BY ArxivAssumption DEF ArxivInv, ArxivTypes
<1>1. UNCHANGED <<oai, day, manifests, landing, papers, authors, categories>>
  BY DEF CaptureDay, PublishDay, BeginArxiv
<1>2. CASE CaptureDay(d)
  <2>1. /\ arxivTask' = [name |-> "capture", day |-> d, step |-> 1, data |-> {}]
        /\ manifests[d] = None
    BY <1>2 DEF CaptureDay, BeginArxiv, _reuse_capture
  <2>2. arxivTask' \in ArxivTasks /\ arxivTask'.name = "capture" /\ arxivTask'.data = {}
        /\ arxivTask'.day = d /\ arxivTask'.step = 1
    BY <2>1 DEF ArxivTasks
  <2>3. Captured' \subseteq Captured
    BY <1>1, <2>2 DEF Captured
  <2>4. Capturing' /\ Rewriting'
    BY <1>1, <2>1, <2>2, PageOrdering DEF Capturing, Rewriting, Snapshot
  <2> QED
    BY <1>0, <1>1, <2>2, <2>3, <2>4, TaskMoves
<1>3. CASE PublishDay(d)
  <2>1. PICK step \in {1, 3} :
           arxivTask' = [name |-> "publish", day |-> d, step |-> step, data |-> {}]
    BY <1>3 DEF PublishDay, BeginArxiv
  <2>2. arxivTask' \in ArxivTasks /\ arxivTask'.name = "publish" /\ arxivTask'.data = {}
        /\ arxivTask'.day = d /\ arxivTask'.step \in {1, 3}
    BY <2>1 DEF ArxivTasks
  <2>3. Captured' \subseteq Captured
    BY <1>1, <2>2 DEF Captured
  <2>4. manifests[d] # None
    BY <1>3 DEF PublishDay
  <2>5. Capturing' /\ Rewriting'
    BY <1>1, <2>2, <2>4 DEF Capturing, Rewriting
  <2> QED
    BY <1>0, <1>1, <2>2, <2>3, <2>5, TaskMoves
<1> QED
  BY <1>2, <1>3

LEMMA HarvestStep == ASSUME ArxivInv, _harvest PROVE ArxivInv'
<1>0. ArxivTypes /\ Provided /\ History /\ Capturing
  BY DEF ArxivInv
<1>1. UNCHANGED <<oai, day, manifests, landing, papers, authors, categories>>
  BY DEF _harvest
<1>2. /\ arxivTask.name = "capture" /\ arxivTask.step \in 1..Len(PageOrder)
      /\ arxivTask \in ArxivTasks /\ arxivTask.day \in 1..Days
      /\ manifests[arxivTask.day] = None /\ Snapshot(arxivTask.data, arxivTask.day)
      /\ \A r \in arxivTask.data : \E i \in 1..(arxivTask.step - 1) : r.paper = PageOrder[i]
  BY <1>0, PageOrdering DEF _harvest, Capturing, ArxivTypes
<1> PICK i, p, d : i = arxivTask.step /\ p = PageOrder[i] /\ d = arxivTask.day
  OBVIOUS
<1>3. i \in 1..Len(PageOrder) /\ p \in Papers
  BY <1>2, PageOrdering
<1> PICK data : data = IF (IF oai[p] = None THEN FALSE ELSE oai[p].stamp = d)
                       THEN arxivTask.data \cup {oai[p]} ELSE arxivTask.data
  OBVIOUS
<1>4. arxivTask' = [arxivTask EXCEPT !.step = i + 1, !.data = data]
  BY <1>2 DEF _harvest, ArxivTasks
<1>5. \/ data = arxivTask.data
      \/ /\ data = arxivTask.data \cup {oai[p]} /\ oai[p] \in Records
         /\ oai[p].stamp = d /\ oai[p].paper = p
  BY <1>0, <1>3 DEF ArxivTypes, Provided
<1>6. \A r \in arxivTask.data : r.paper # p
  BY <1>2, <1>3, PageOrdering
<1>7. /\ Snapshot(data, d)
      /\ \A r \in data : \E j \in 1..i : r.paper = PageOrder[j]
  <2>1. Snapshot(data, d)
    BY <1>2, <1>5, <1>6 DEF Snapshot
  <2>2. ASSUME NEW r \in data PROVE \E j \in 1..i : r.paper = PageOrder[j]
    <3>1. CASE r \in arxivTask.data
      <4>1. PICK j \in 1..(i - 1) : r.paper = PageOrder[j]
        BY <1>2, <3>1
      <4>2. j \in 1..i
        BY <1>3
      <4> QED
        BY <4>1, <4>2
    <3>2. CASE r \notin arxivTask.data
      <4>1. r.paper = p /\ i \in 1..i
        BY <1>3, <1>5, <2>2, <3>2
      <4> QED
        BY <4>1
    <3> QED
      BY <3>1, <3>2
  <2> QED
    BY <2>1, <2>2
<1>8. /\ arxivTask' \in ArxivTasks /\ arxivTask'.name = "capture" /\ arxivTask'.day = d
      /\ arxivTask'.step = i + 1 /\ arxivTask'.data = data
  <2>1. i + 1 \in Nat /\ data \in SUBSET Records
    BY <1>3, <1>7 DEF Snapshot
  <2> QED
    BY <1>2, <1>4, <2>1 DEF ArxivTasks
<1>9. Capturing' /\ Rewriting'
  <2>1. i + 1 \in 1..(Len(PageOrder) + 1) /\ (i + 1) - 1 = i
    BY <1>3, PageOrdering
  <2> QED
    BY <1>1, <1>2, <1>7, <1>8, <2>1 DEF Capturing, Rewriting
<1>10. ArxivTypes' /\ Provided'
  BY <1>0, <1>1, <1>8 DEF ArxivTypes, Provided
<1>11. History'
  <2>1. \A r \in Captured' : r \in Captured \/ (r = oai[p] /\ oai[p] # None /\ oai[p].paper = p)
    BY <1>1, <1>2, <1>5, <1>8, ArxivAssumption DEF Captured
  <2>2. ASSUME NEW r \in Captured' PROVE Superseded(r) /\ r \in Records
    <3>1. CASE r \in Captured
      BY <1>0, <3>1 DEF History, Captured
    <3>2. CASE r = oai[p] /\ oai[p] # None /\ oai[p].paper = p
      <4>1. r \in Records
        BY <2>2 DEF Captured
      <4>2. r.stamp <= r.stamp
        BY <4>1 DEF Records
      <4> QED
        BY <3>2, <4>1, <4>2 DEF Superseded
    <3> QED
      BY <2>1, <2>2, <3>1, <3>2
  <2>3. ASSUME NEW r \in Captured', NEW q \in Captured', r.paper = q.paper, r.stamp < q.stamp
        PROVE  r.version < q.version
    <3>1. Superseded(r) /\ Superseded(q) /\ r \in Records /\ q \in Records
      BY <2>2
    <3>2. CASE r \in Captured /\ q \in Captured
      BY <1>0, <2>3, <3>2 DEF History
    <3>3. CASE q = oai[p] /\ oai[p] # None /\ oai[p].paper = p
      BY <2>3, <3>1, <3>3 DEF Superseded, Records
    <3>4. CASE r = oai[p] /\ oai[p] # None /\ oai[p].paper = p
      BY <2>3, <3>1, <3>4 DEF Superseded, Records
    <3> QED
      BY <2>1, <3>2, <3>3, <3>4
  <2>4. \A r \in Captured' : Superseded(r)'
    BY <1>1, <2>2 DEF Superseded
  <2> QED
    BY <2>3, <2>4 DEF History
<1> QED
  BY <1>1, <1>9, <1>10, <1>11, TablesKept DEF ArxivInv

LEMMA ManifestStep == ASSUME ArxivInv, PutManifest PROVE ArxivInv'
<1>0. ArxivTypes /\ Provided /\ History /\ Manifests /\ Capturing /\ PapersLanded
      /\ ChildrenMatchPapers
  BY DEF ArxivInv
<1>1. /\ UNCHANGED <<oai, day, landing, papers, authors, categories>>
      /\ arxivTask' = NoTask
  BY DEF PutManifest
<1>2. /\ arxivTask.name = "capture" /\ arxivTask.day \in 1..Days
      /\ manifests[arxivTask.day] = None /\ Snapshot(arxivTask.data, arxivTask.day)
      /\ manifests' = [manifests EXCEPT ![arxivTask.day] = arxivTask.data]
  BY <1>0 DEF PutManifest, Capturing
<1>3. /\ manifests'[arxivTask.day] = arxivTask.data
      /\ \A d \in 1..Days : d # arxivTask.day => manifests'[d] = manifests[d]
      /\ manifests' = [d \in 1..Days |-> manifests'[d]]
  <2>1. manifests = [d \in 1..Days |-> manifests[d]]
    BY <1>0 DEF ArxivTypes
  <2> QED
    BY <1>2, <2>1
<1>4. arxivTask' \in ArxivTasks /\ arxivTask'.name = "none"
  BY <1>1, ArxivAssumption DEF NoTask, ArxivTasks
<1>5. ArxivTypes' /\ Provided' /\ Capturing' /\ Rewriting'
  BY <1>0, <1>1, <1>3, <1>4 DEF ArxivTypes, Provided, Capturing, Rewriting
<1>6. Manifests'
  BY <1>0, <1>2, <1>3 DEF Manifests, Snapshot
<1>7. Captured' \subseteq Captured
  BY <1>2, <1>3, <1>4 DEF Captured
<1>8. History'
  BY <1>0, <1>1, <1>7 DEF History, Superseded
<1>9. PapersLanded'
  <2>1. \A d \in 1..Days : manifests[d] # None => manifests'[d] = manifests[d]
    BY <1>2, <1>3
  <2> QED
    BY <1>0, <1>1, <2>1 DEF PapersLanded
<1>10. ChildrenMatchPapers'
  <2>1. \A d : Pending(d)' = Pending(d)
    BY <1>1 DEF Pending
  <2> QED
    BY <1>0, <1>1, <2>1 DEF ChildrenMatchPapers, Children
<1> QED
  BY <1>5, <1>6, <1>8, <1>9, <1>10 DEF ArxivInv

\* The commits of a day, one by one.
LEMMA CommitNames ==
    /\ Len(ARXIV_COMMITS) = 8
    /\ ARXIV_COMMITS[1] = "records" /\ ARXIV_COMMITS[2] = "publication"
    /\ ARXIV_COMMITS[3] = "pending" /\ ARXIV_COMMITS[4] = "delete_authors"
    /\ ARXIV_COMMITS[5] = "delete_categories" /\ ARXIV_COMMITS[6] = "append_authors"
    /\ ARXIV_COMMITS[7] = "append_categories" /\ ARXIV_COMMITS[8] = "papers"
BY DEF ARXIV_COMMITS

LEMMA CommitEffects ==
    ASSUME ArxivInv, CommitDay
    PROVE  LET d == arxivTask.day
               next(data) == [arxivTask EXCEPT !.step = arxivTask.step + 1, !.data = data]
           IN  /\ arxivTask.name = "publish" /\ arxivTask \in ArxivTasks
               /\ UNCHANGED <<oai, day, arxivTries, manifests>>
               /\ \/ /\ arxivTask.step = 1 /\ arxivTask' = next(arxivTask.data)
                     /\ landing' = [landing EXCEPT ![d].records = manifests[d]]
                     /\ UNCHANGED <<authors, categories, papers>>
                  \/ /\ arxivTask.step = 2 /\ arxivTask' = next(arxivTask.data)
                     /\ landing' = [landing EXCEPT ![d].publication = manifests[d]]
                     /\ UNCHANGED <<authors, categories, papers>>
                  \/ /\ arxivTask.step = 3
                     /\ arxivTask' \in {NoTask, next(Pending(d))}
                     /\ UNCHANGED <<landing, authors, categories, papers>>
                  \/ /\ arxivTask.step = 4 /\ arxivTask' = next(arxivTask.data)
                     /\ authors' = Cleared(authors) /\ UNCHANGED <<landing, categories, papers>>
                  \/ /\ arxivTask.step = 5 /\ arxivTask' = next(arxivTask.data)
                     /\ categories' = Cleared(categories) /\ UNCHANGED <<landing, authors, papers>>
                  \/ /\ arxivTask.step = 6 /\ arxivTask' = next(arxivTask.data)
                     /\ authors' = Appended(authors) /\ UNCHANGED <<landing, categories, papers>>
                  \/ /\ arxivTask.step = 7 /\ arxivTask' = next(arxivTask.data)
                     /\ categories' = Appended(categories) /\ UNCHANGED <<landing, authors, papers>>
                  \/ /\ arxivTask.step = 8 /\ arxivTask' = NoTask
                     /\ papers' = Merged /\ UNCHANGED <<landing, authors, categories>>
<1>1. /\ arxivTask.name = "publish" /\ arxivTask \in ArxivTasks /\ arxivTask.step \in 1..8
  BY DEF ArxivInv, ArxivTypes, CommitDay, Rewriting
<1>2. UNCHANGED <<oai, day, arxivTries, manifests>>
  BY DEF CommitDay
<1>3. CASE arxivTask.step = 1
  BY <1>1, <1>2, <1>3, CommitNames DEF CommitDay, ArxivTasks
<1>4. CASE arxivTask.step = 2
  BY <1>1, <1>2, <1>4, CommitNames DEF CommitDay, ArxivTasks
<1>5. CASE arxivTask.step = 3
  BY <1>1, <1>2, <1>5, CommitNames DEF CommitDay, ArxivTasks
<1>6. CASE arxivTask.step = 4
  BY <1>1, <1>2, <1>6, CommitNames DEF CommitDay, ArxivTasks
<1>7. CASE arxivTask.step = 5
  BY <1>1, <1>2, <1>7, CommitNames DEF CommitDay, ArxivTasks
<1>8. CASE arxivTask.step = 6
  BY <1>1, <1>2, <1>8, CommitNames DEF CommitDay, ArxivTasks
<1>9. CASE arxivTask.step = 7
  BY <1>1, <1>2, <1>9, CommitNames DEF CommitDay, ArxivTasks
<1>10. CASE arxivTask.step = 8
  BY <1>1, <1>2, <1>10, CommitNames DEF CommitDay, ArxivTasks
<1> QED
  BY <1>1, <1>3, <1>4, <1>5, <1>6, <1>7, <1>8, <1>9, <1>10

\* A pending record is landed, of its day, and the only one of its paper.
LEMMA PendingRecords ==
    ASSUME ArxivInv, NEW d \in 1..Days
    PROVE  Snapshot(Pending(d), d) /\ Snapshot(landing[d].records, d)
           /\ Pending(d) \subseteq landing[d].records
<1>1. Snapshot(landing[d].records, d)
  BY DEF ArxivInv, PapersLanded, Manifests, Snapshot
<1> QED
  BY <1>1 DEF Pending, Snapshot

LEMMA ClearedChildren ==
    ASSUME ArxivTypes, NEW children \in [Papers -> Seq(1..MaxVersions)]
    PROVE  /\ Cleared(children) \in [Papers -> Seq(1..MaxVersions)]
           /\ \A p \in Papers : (\A r \in arxivTask.data : r.paper # p) =>
                 Cleared(children)[p] = children[p]
           /\ \A r \in arxivTask.data : Cleared(children)[r.paper] = <<>>
<1>1. <<>> \in Seq(1..MaxVersions)
  OBVIOUS
<1>2. \A r \in arxivTask.data : r.paper \in Papers
  BY DEF ArxivTypes, ArxivTasks, Records
<1> QED
  BY <1>1, <1>2 DEF Cleared

LEMMA AppendedChildren ==
    ASSUME ArxivTypes, Snapshot(arxivTask.data, arxivTask.day),
           NEW children \in [Papers -> Seq(1..MaxVersions)],
           \A r \in arxivTask.data : children[r.paper] = <<>>
    PROVE  /\ Appended(children) \in [Papers -> Seq(1..MaxVersions)]
           /\ \A p \in Papers : (\A r \in arxivTask.data : r.paper # p) =>
                 Appended(children)[p] = children[p]
           /\ \A r \in arxivTask.data : Appended(children)[r.paper] = Expected(r)
<1> DEFINE V(p) == {r.version : r \in {r \in arxivTask.data : r.paper = p /\ ~r.deleted}}
<1>1. \A p \in Papers : Appended(children)[p] = children[p] \o SetToSeq(V(p))
  BY DEF Appended
<1>2. ASSUME NEW p \in Papers, \A r \in arxivTask.data : r.paper # p
      PROVE  Appended(children)[p] = children[p]
  <2>1. V(p) = {}
    BY <1>2
  <2>2. children[p] \o <<>> = children[p]
    OBVIOUS
  <2> QED
    BY <1>1, <2>1, <2>2, NoSeq
<1>3. ASSUME NEW r \in arxivTask.data PROVE Appended(children)[r.paper] = Expected(r)
  <2>1. r \in Records /\ r.paper \in Papers /\ children[r.paper] = <<>>
    BY <1>3 DEF ArxivTypes, ArxivTasks, Records
  <2>2. CASE r.deleted
    <3>1. V(r.paper) = {}
      BY <2>2 DEF Snapshot
    <3>2. <<>> \o <<>> = <<>>
      OBVIOUS
    <3> QED
      BY <1>1, <2>1, <2>2, <3>1, <3>2, NoSeq DEF Expected
  <2>3. CASE ~r.deleted
    <3>1. V(r.paper) = {r.version}
      BY <2>3 DEF Snapshot
    <3>2. <<>> \o <<r.version>> = <<r.version>>
      OBVIOUS
    <3> QED
      BY <1>1, <2>1, <2>3, <3>1, <3>2, OneSeq DEF Expected
  <2> QED
    BY <2>2, <2>3
<1>4. \A r \in arxivTask.data : Expected(r) \in Seq(1..MaxVersions)
  <2> TAKE r \in arxivTask.data
  <2>1. r.version \in 1..MaxVersions
    BY DEF ArxivTypes, ArxivTasks, Records
  <2>2. <<>> \in Seq(1..MaxVersions) /\ <<r.version>> \in Seq(1..MaxVersions)
    BY <2>1
  <2> QED
    BY <2>2 DEF Expected
<1>5. \A p \in Papers : Appended(children)[p] \in Seq(1..MaxVersions)
  BY <1>2, <1>3, <1>4
<1>6. Appended(children) \in [Papers -> Seq(1..MaxVersions)]
  BY <1>5 DEF Appended
<1> QED
  BY <1>2, <1>3, <1>6

\* The next commit of a day that leaves the papers alone: whatever is being rewritten stays
\* pending.
LEMMA RewriteStep ==
    ASSUME ArxivInv, arxivTask.name = "publish", arxivTask.step \in 4..7,
           arxivTask' = [arxivTask EXCEPT !.step = arxivTask.step + 1, !.data = arxivTask.data],
           UNCHANGED <<oai, day, manifests, landing, papers>>,
           authors' \in [Papers -> Seq(1..MaxVersions)],
           categories' \in [Papers -> Seq(1..MaxVersions)],
           \A p \in Papers : (\A r \in arxivTask.data : r.paper # p) =>
              authors'[p] = authors[p] /\ categories'[p] = categories[p],
           \A r \in arxivTask.data :
              /\ arxivTask.step + 1 \in {5, 6} => authors'[r.paper] = <<>>
              /\ arxivTask.step + 1 \in {7, 8} => authors'[r.paper] = Expected(r)
              /\ arxivTask.step + 1 \in {6, 7} => categories'[r.paper] = <<>>
              /\ arxivTask.step + 1 = 8 => categories'[r.paper] = Expected(r)
    PROVE  ArxivInv'
<1>0. ArxivTypes /\ Provided /\ Manifests /\ History /\ PapersLanded /\ Rewriting
      /\ ChildrenMatchPapers
  BY DEF ArxivInv
<1>1. arxivTask \in ArxivTasks /\ arxivTask.step + 1 \in Nat /\ arxivTask.step + 1 \in 5..8
  BY <1>0 DEF ArxivTypes, ArxivTasks
<1>2. /\ arxivTask' \in ArxivTasks /\ arxivTask'.name = "publish"
      /\ arxivTask'.day = arxivTask.day /\ arxivTask'.data = arxivTask.data
      /\ arxivTask'.step = arxivTask.step + 1
  BY <1>1 DEF ArxivTasks
<1>3. \A d : Pending(d)' = Pending(d)
  BY DEF Pending
<1>4. /\ arxivTask.data = Pending(arxivTask.day) /\ arxivTask.day \in 1..Days
      /\ manifests[arxivTask.day] # None
  BY <1>0 DEF Rewriting
<1>5. ArxivTypes' /\ Provided' /\ Manifests' /\ Capturing' /\ PapersLanded'
  BY <1>0, <1>2 DEF ArxivTypes, Provided, Manifests, Capturing, PapersLanded
<1>6. Captured' = Captured
  BY <1>2 DEF Captured
<1>7. History'
  BY <1>0, <1>6 DEF History, Superseded
<1>8. Rewriting'
  BY <1>1, <1>2, <1>3, <1>4 DEF Rewriting
<1>9. ChildrenMatchPapers'
  <2> SUFFICES ASSUME NEW p \in Papers
               PROVE  \/ authors'[p] = Children(p)' /\ categories'[p] = Children(p)'
                      \/ \E d \in 1..Days : \E r \in Pending(d) : r.paper = p
    BY <1>3 DEF ChildrenMatchPapers
  <2>1. CASE \A r \in arxivTask.data : r.paper # p
    BY <1>0, <2>1 DEF ChildrenMatchPapers, Children
  <2> QED
    BY <1>4, <2>1
<1> QED
  BY <1>5, <1>7, <1>8, <1>9 DEF ArxivInv

\* Overwriting the day's landing partition makes no record disappear.
LEMMA LandStep ==
    ASSUME ArxivInv, arxivTask.name = "publish", arxivTask.step \in 1..2,
           arxivTask' = [arxivTask EXCEPT !.step = arxivTask.step + 1, !.data = arxivTask.data],
           UNCHANGED <<oai, day, manifests, papers, authors, categories>>,
           \/ landing' = [landing EXCEPT ![arxivTask.day].records = manifests[arxivTask.day]]
           \/ landing' = [landing EXCEPT ![arxivTask.day].publication = manifests[arxivTask.day]]
    PROVE  ArxivInv'
<1>0. ArxivTypes /\ Provided /\ Manifests /\ History /\ PapersLanded /\ Rewriting
      /\ ChildrenMatchPapers
  BY DEF ArxivInv
<1>1. arxivTask \in ArxivTasks /\ arxivTask.step + 1 \in Nat /\ arxivTask.step + 1 \in 2..3
  BY <1>0 DEF ArxivTypes, ArxivTasks
<1>2. /\ arxivTask' \in ArxivTasks /\ arxivTask'.name = "publish"
      /\ arxivTask'.day = arxivTask.day /\ arxivTask'.data = arxivTask.data
      /\ arxivTask'.step = arxivTask.step + 1
  BY <1>1 DEF ArxivTasks
<1>3. /\ arxivTask.data = {} /\ arxivTask.day \in 1..Days /\ manifests[arxivTask.day] # None
  BY <1>0 DEF Rewriting
<1>4. /\ landing' = [d \in 1..Days |-> [records |-> landing'[d].records,
                                        publication |-> landing'[d].publication]]
      /\ \A d \in 1..Days : \/ landing'[d].records = landing[d].records
                            \/ d = arxivTask.day /\ landing'[d].records = manifests[d]
  <2>1. landing = [d \in 1..Days |-> [records |-> landing[d].records,
                                      publication |-> landing[d].publication]]
    BY <1>0 DEF ArxivTypes
  <2>2. PICK records, publication :
           landing' = [landing EXCEPT ![arxivTask.day] =
                          [records |-> records, publication |-> publication]]
           /\ records \in {landing[arxivTask.day].records, manifests[arxivTask.day]}
    <3>1. landing[arxivTask.day] = [records |-> landing[arxivTask.day].records,
                                    publication |-> landing[arxivTask.day].publication]
      BY <1>3, <2>1
    <3>2. CASE landing' = [landing EXCEPT ![arxivTask.day].records = manifests[arxivTask.day]]
      <4>1. [landing[arxivTask.day] EXCEPT !.records = manifests[arxivTask.day]]
              = [records |-> manifests[arxivTask.day],
                 publication |-> landing[arxivTask.day].publication]
        BY <3>1
      <4> QED
        BY <3>2, <4>1
    <3>3. CASE landing' = [landing EXCEPT ![arxivTask.day].publication = manifests[arxivTask.day]]
      <4>1. [landing[arxivTask.day] EXCEPT !.publication = manifests[arxivTask.day]]
              = [records |-> landing[arxivTask.day].records,
                 publication |-> manifests[arxivTask.day]]
        BY <3>1
      <4> QED
        BY <3>3, <4>1
    <3> QED
      BY <3>2, <3>3
  <2> QED
    BY <1>3, <2>1, <2>2
<1>5. \A d \in 1..Days : landing[d].records \subseteq landing'[d].records
  BY <1>0, <1>4 DEF PapersLanded
<1>6. \A d \in 1..Days : Pending(d) \subseteq Pending(d)'
  BY <1>5 DEF Pending
<1>7. ArxivTypes' /\ Provided' /\ Manifests' /\ Capturing' /\ Rewriting'
  BY <1>0, <1>1, <1>2, <1>3, <1>4 DEF ArxivTypes, Provided, Manifests, Capturing, Rewriting
<1>8. Captured' = Captured
  BY <1>2 DEF Captured
<1>9. History'
  BY <1>0, <1>8 DEF History, Superseded
<1>10. PapersLanded'
  <2>1. \A p \in Papers : papers[p] # None => papers[p].stamp \in 1..Days
    BY <1>0 DEF ArxivTypes, Records
  <2> QED
    BY <1>0, <1>3, <1>4, <1>5, <2>1 DEF PapersLanded
<1>11. ChildrenMatchPapers'
  BY <1>0, <1>6 DEF ChildrenMatchPapers, Children
<1> QED
  BY <1>7, <1>9, <1>10, <1>11 DEF ArxivInv

\* The papers of a day are merged last, when their children are there.
LEMMA MergedPapers ==
    ASSUME ArxivInv, arxivTask.name = "publish", arxivTask.step = 8
    PROVE  /\ Merged \in [Papers -> Records \cup {None}]
           /\ \A p \in Papers :
                 (\A r \in arxivTask.data : r.paper # p) => Merged[p] = papers[p]
           /\ \A r \in arxivTask.data : r.paper \in Papers /\ Merged[r.paper] = r
           /\ arxivTask.data = Pending(arxivTask.day) /\ arxivTask.day \in 1..Days
<1>1. arxivTask.data = Pending(arxivTask.day) /\ arxivTask.day \in 1..Days
  BY DEF ArxivInv, Rewriting
<1>2. Snapshot(arxivTask.data, arxivTask.day)
  BY <1>1, PendingRecords
<1>3. \A r \in arxivTask.data : r.paper \in Papers /\ r \in Records
  BY <1>2 DEF Snapshot, Records
<1>4. ASSUME NEW r \in arxivTask.data PROVE Merged[r.paper] = r
  <2>1. (CHOOSE q \in arxivTask.data : q.paper = r.paper) = r
    BY <1>2, <1>4 DEF Snapshot
  <2> QED
    BY <1>3, <1>4, <2>1 DEF Merged
<1>5. \A p \in Papers : (\A r \in arxivTask.data : r.paper # p) => Merged[p] = papers[p]
  BY DEF Merged
<1>6. \A p \in Papers : Merged[p] \in Records \cup {None}
  BY <1>3, <1>4, <1>5 DEF ArxivInv, ArxivTypes
<1>7. Merged \in [Papers -> Records \cup {None}]
  BY <1>6 DEF Merged
<1> QED
  BY <1>1, <1>3, <1>4, <1>5, <1>7

LEMMA MergeStep ==
    ASSUME ArxivInv, arxivTask.name = "publish", arxivTask.step = 8, arxivTask' = NoTask,
           papers' = Merged,
           UNCHANGED <<oai, day, manifests, landing, authors, categories>>
    PROVE  ArxivInv'
<1>0. ArxivTypes /\ Provided /\ Manifests /\ History /\ PapersLanded /\ Rewriting
      /\ ChildrenMatchPapers
  BY DEF ArxivInv
<1>1. /\ papers' \in [Papers -> Records \cup {None}]
      /\ \A p \in Papers : (\A r \in arxivTask.data : r.paper # p) => papers'[p] = papers[p]
      /\ \A r \in arxivTask.data : r.paper \in Papers /\ papers'[r.paper] = r
      /\ arxivTask.data = Pending(arxivTask.day) /\ arxivTask.day \in 1..Days
  BY MergedPapers
<1>2. arxivTask' \in ArxivTasks /\ arxivTask'.name = "none"
  BY ArxivAssumption DEF NoTask, ArxivTasks
<1>3. ArxivTypes' /\ Provided' /\ Manifests' /\ Capturing' /\ Rewriting'
  BY <1>0, <1>1, <1>2 DEF ArxivTypes, Provided, Manifests, Capturing, Rewriting
<1>4. Captured' \subseteq Captured
  BY <1>2 DEF Captured
<1>5. History'
  BY <1>0, <1>4 DEF History, Superseded
<1>6. \A r \in arxivTask.data : r \in landing[r.stamp].records /\ r \in Records
  BY <1>1, PendingRecords DEF Snapshot
<1>7. PapersLanded'
  <2> SUFFICES ASSUME NEW p \in Papers, papers'[p] # None
               PROVE  papers'[p].paper = p /\ papers'[p] \in landing[papers'[p].stamp].records
    BY <1>0 DEF PapersLanded
  <2>1. CASE \A r \in arxivTask.data : r.paper # p
    BY <1>0, <1>1, <2>1 DEF PapersLanded
  <2>2. CASE \E r \in arxivTask.data : r.paper = p
    BY <1>1, <1>6, <2>2
  <2> QED
    BY <2>1, <2>2
<1>8. ChildrenMatchPapers'
  <2> SUFFICES ASSUME NEW p \in Papers
               PROVE  \/ authors[p] = Children(p)' /\ categories[p] = Children(p)'
                      \/ \E d \in 1..Days : \E r \in Pending(d)' : r.paper = p
    BY DEF ChildrenMatchPapers
  <2>1. CASE \A r \in arxivTask.data : r.paper # p
    <3>1. papers'[p] = papers[p]
      BY <1>1, <2>1
    <3>2. \A d \in 1..Days : \A r \in Pending(d) : r.paper = p => r \in Pending(d)'
      BY <3>1 DEF Pending
    <3>3. Children(p)' = Children(p)
      BY <3>1 DEF Children
    <3> QED
      BY <1>0, <3>2, <3>3 DEF ChildrenMatchPapers
  <2>2. CASE \E r \in arxivTask.data : r.paper = p
    <3>1. PICK r \in arxivTask.data : r.paper = p
      BY <2>2
    <3>2. papers'[p] = r /\ r # None
      BY <1>1, <1>6, <3>1, ArxivAssumption
    <3>3. Children(p)' = Expected(r)
      BY <3>2 DEF Children, Expected
    <3>4. authors[p] = Expected(r) /\ categories[p] = Expected(r)
      BY <1>0, <3>1 DEF Rewriting
    <3> QED
      BY <3>3, <3>4
  <2> QED
    BY <2>1, <2>2
<1> QED
  BY <1>3, <1>5, <1>7, <1>8 DEF ArxivInv

LEMMA PendingStep ==
    ASSUME ArxivInv, arxivTask.name = "publish", arxivTask.step = 3,
           arxivTask' = [arxivTask EXCEPT !.step = arxivTask.step + 1,
                                          !.data = Pending(arxivTask.day)],
           UNCHANGED <<oai, day, manifests, landing, papers, authors, categories>>
    PROVE  ArxivInv'
<1>1. arxivTask \in ArxivTasks /\ day \in 1..Days /\ day <= day
  BY ArxivAssumption DEF ArxivInv, ArxivTypes
<1>2. arxivTask.day \in 1..Days /\ manifests[arxivTask.day] # None
  BY DEF ArxivInv, Rewriting
<1>3. Pending(arxivTask.day) \in SUBSET Records
  BY <1>2, PendingRecords DEF Snapshot
<1>4. /\ arxivTask' \in ArxivTasks /\ arxivTask'.name = "publish" /\ arxivTask'.step = 4
      /\ arxivTask'.day = arxivTask.day /\ arxivTask'.data = Pending(arxivTask.day)
  <2>1. arxivTask' = [arxivTask EXCEPT !.step = 4, !.data = Pending(arxivTask.day)]
    OBVIOUS
  <2>2. 4 \in Nat
    OBVIOUS
  <2> QED
    BY <1>1, <1>3, <2>1, <2>2 DEF ArxivTasks
<1>5. Pending(arxivTask.day)' = Pending(arxivTask.day)
  BY <1>4 DEF Pending
<1>6. Capturing' /\ Rewriting'
  BY <1>2, <1>4, <1>5 DEF Capturing, Rewriting
<1>7. Captured' \subseteq Captured
  BY <1>4 DEF Captured
<1> QED
  BY <1>1, <1>4, <1>6, <1>7, TaskMoves

LEMMA CommitStep == ASSUME ArxivInv, CommitDay PROVE ArxivInv'
<1>0. /\ ArxivTypes /\ Rewriting /\ arxivTask.name = "publish"
      /\ authors \in [Papers -> Seq(1..MaxVersions)]
      /\ categories \in [Papers -> Seq(1..MaxVersions)]
  BY CommitEffects DEF ArxivInv, ArxivTypes
<1>1. arxivTask.day \in 1..Days /\ arxivTask.step \in 1..8
  BY <1>0 DEF Rewriting
<1>2. arxivTask.step >= 4 => Snapshot(arxivTask.data, arxivTask.day)
  BY <1>0, <1>1, PendingRecords DEF Rewriting
<1>3. CASE arxivTask.step = 1
  BY <1>3, CommitEffects, LandStep
<1>4. CASE arxivTask.step = 2
  BY <1>4, CommitEffects, LandStep
<1>5. CASE arxivTask.step = 3
  BY <1>5, CommitEffects, PendingStep, NoTaskStep
<1>6. CASE arxivTask.step = 4
  <2>2. /\ arxivTask' = [arxivTask EXCEPT !.step = arxivTask.step + 1, !.data = arxivTask.data]
        /\ authors' = Cleared(authors)
        /\ UNCHANGED <<oai, day, manifests, landing, categories, papers>>
    BY <1>6, CommitEffects
  <2>3. /\ Cleared(authors) \in [Papers -> Seq(1..MaxVersions)]
        /\ \A p \in Papers : (\A r \in arxivTask.data : r.paper # p) =>
              Cleared(authors)[p] = authors[p]
        /\ \A r \in arxivTask.data : Cleared(authors)[r.paper] = <<>>
    BY <1>0, <1>2, <1>6, ClearedChildren
  <2> QED
    BY <1>0, <1>6, <2>2, <2>3, RewriteStep
<1>7. CASE arxivTask.step = 5
  <2>1. \A r \in arxivTask.data : authors[r.paper] = <<>>
    BY <1>0, <1>7 DEF Rewriting
  <2>2. /\ arxivTask' = [arxivTask EXCEPT !.step = arxivTask.step + 1, !.data = arxivTask.data]
        /\ categories' = Cleared(categories)
        /\ UNCHANGED <<oai, day, manifests, landing, authors, papers>>
    BY <1>7, CommitEffects
  <2>3. /\ Cleared(categories) \in [Papers -> Seq(1..MaxVersions)]
        /\ \A p \in Papers : (\A r \in arxivTask.data : r.paper # p) =>
              Cleared(categories)[p] = categories[p]
        /\ \A r \in arxivTask.data : Cleared(categories)[r.paper] = <<>>
    BY <1>0, <1>2, <1>7, <2>1, ClearedChildren
  <2> QED
    BY <1>0, <1>7, <2>1, <2>2, <2>3, RewriteStep
<1>8. CASE arxivTask.step = 6
  <2>1. \A r \in arxivTask.data : authors[r.paper] = <<>> /\ categories[r.paper] = <<>>
    BY <1>0, <1>8 DEF Rewriting
  <2>2. /\ arxivTask' = [arxivTask EXCEPT !.step = arxivTask.step + 1, !.data = arxivTask.data]
        /\ authors' = Appended(authors)
        /\ UNCHANGED <<oai, day, manifests, landing, categories, papers>>
    BY <1>8, CommitEffects
  <2>3. /\ Appended(authors) \in [Papers -> Seq(1..MaxVersions)]
        /\ \A p \in Papers : (\A r \in arxivTask.data : r.paper # p) =>
              Appended(authors)[p] = authors[p]
        /\ \A r \in arxivTask.data : Appended(authors)[r.paper] = Expected(r)
    <3>1. Snapshot(arxivTask.data, arxivTask.day)
      BY <1>2, <1>8
    <3>2. ArxivTypes /\ authors \in [Papers -> Seq(1..MaxVersions)]
      BY <1>0
    <3> QED
      BY <2>1, <3>1, <3>2, AppendedChildren
  <2> QED
    BY <1>0, <1>8, <2>1, <2>2, <2>3, RewriteStep
<1>9. CASE arxivTask.step = 7
  <2>1. \A r \in arxivTask.data : authors[r.paper] = Expected(r) /\ categories[r.paper] = <<>>
    BY <1>0, <1>9 DEF Rewriting
  <2>2. /\ arxivTask' = [arxivTask EXCEPT !.step = arxivTask.step + 1, !.data = arxivTask.data]
        /\ categories' = Appended(categories)
        /\ UNCHANGED <<oai, day, manifests, landing, authors, papers>>
    BY <1>9, CommitEffects
  <2>3. /\ Appended(categories) \in [Papers -> Seq(1..MaxVersions)]
        /\ \A p \in Papers : (\A r \in arxivTask.data : r.paper # p) =>
              Appended(categories)[p] = categories[p]
        /\ \A r \in arxivTask.data : Appended(categories)[r.paper] = Expected(r)
    <3>1. Snapshot(arxivTask.data, arxivTask.day)
      BY <1>2, <1>9
    <3>2. ArxivTypes /\ categories \in [Papers -> Seq(1..MaxVersions)]
      BY <1>0
    <3> QED
      BY <2>1, <3>1, <3>2, AppendedChildren
  <2> QED
    BY <1>0, <1>9, <2>1, <2>2, <2>3, RewriteStep
<1>10. CASE arxivTask.step = 8
  BY <1>10, CommitEffects, MergeStep
<1> QED
  BY <1>1, <1>3, <1>4, <1>5, <1>6, <1>7, <1>8, <1>9, <1>10

LEMMA ArxivStep == ArxivInv /\ [ArxivNext]_arxivVars => ArxivInv'
<1> SUFFICES ASSUME ArxivInv, [ArxivNext]_arxivVars PROVE ArxivInv'
  OBVIOUS
<1>1. CASE UNCHANGED arxivVars
  <2>1. UNCHANGED <<oai, day, arxivTask, manifests, landing, papers, authors, categories>>
    BY <1>1 DEF arxivVars
  <2>2. arxivTask \in ArxivTasks /\ day \in 1..Days /\ day <= day
    BY ArxivAssumption DEF ArxivInv, ArxivTypes
  <2>3. \A d : Pending(d)' = Pending(d)
    BY <2>1 DEF Pending
  <2>4. Capturing' /\ Rewriting' /\ Captured' = Captured
    BY <2>1, <2>3 DEF ArxivInv, Capturing, Rewriting, Captured
  <2> QED
    BY <2>1, <2>2, <2>4, TaskMoves
<1>2. CASE KillArxiv
  BY <1>2, NoTaskStep DEF KillArxiv
<1>3. CASE ArxivNext
  BY <1>2, <1>3, MutateStep, ClockStep, BeginStep, HarvestStep, ManifestStep, CommitStep
     DEF ArxivNext
<1> QED
  BY <1>1, <1>3

LEMMA ArxivAlways == Spec => []ArxivInv
BY ArxivInitInv, ArxivStep, ArxivPart, PTL

\* The authors and categories of every paper are those of its current row, exactly once
\* each, or a landed day still holds the paper as pending and repairs it when it is
\* published again (arxiv/curated.py, publish: children deleted and appended before the
\* papers merge), whatever commit the task is killed after and in whatever order days are
\* captured, published and published again.
THEOREM Repairable == Spec => []ChildrenMatchPapers
<1>1. ArxivInv => ChildrenMatchPapers
  BY DEF ArxivInv
<1> QED
  BY <1>1, ArxivAlways, PTL

\* The one step that changes a published paper replaces it with a later mutation of it.
LEMMA PapersForward ==
    ASSUME ArxivInv, [ArxivNext]_arxivVars, NEW p \in Papers, papers[p] # None,
           papers'[p] # papers[p]
    PROVE  papers'[p].stamp >= papers[p].stamp /\ papers'[p].version > papers[p].version
<1>0. ArxivTypes /\ Manifests /\ History /\ PapersLanded
  BY DEF ArxivInv
<1>1. CommitDay
  BY DEF ArxivNext, arxivVars, Mutate, Midnight, KillArxiv, CaptureDay, PublishDay, BeginArxiv,
         _harvest, PutManifest
<1>2. arxivTask.name = "publish" /\ arxivTask.step = 8 /\ papers' = Merged
  BY <1>1, CommitEffects
<1>3. PICK r \in arxivTask.data : r.paper = p
  BY <1>2, MergedPapers
<1>4. papers'[p] = r /\ r \in Pending(arxivTask.day) /\ arxivTask.day \in 1..Days
  BY <1>2, <1>3, MergedPapers
<1>5. /\ r \in landing[arxivTask.day].records /\ r.stamp = arxivTask.day /\ r \in Records
      /\ Snapshot(landing[arxivTask.day].records, arxivTask.day)
  BY <1>4, PendingRecords DEF Snapshot
<1>6. /\ papers[p] \in Records /\ papers[p].paper = p
      /\ papers[p] \in landing[papers[p].stamp].records /\ papers[p].stamp \in 1..Days
  BY <1>0 DEF ArxivTypes, PapersLanded, Records
<1>7. r \in Captured /\ papers[p] \in Captured
  BY <1>0, <1>4, <1>5, <1>6 DEF PapersLanded, Captured
<1>8. r.stamp > papers[p].stamp \/ (r.stamp = papers[p].stamp /\ r.version # papers[p].version)
  BY <1>3, <1>4 DEF Pending
<1>9. r.stamp # papers[p].stamp
  BY <1>3, <1>5, <1>6, <1>8 DEF Snapshot
<1>10. papers[p].stamp < r.stamp /\ r.stamp >= papers[p].stamp
  BY <1>5, <1>6, <1>8, <1>9 DEF Records
<1>11. papers[p].version < r.version
  BY <1>0, <1>3, <1>6, <1>7, <1>10 DEF History
<1> QED
  BY <1>4, <1>5, <1>6, <1>10, <1>11 DEF Records

\* A published paper only ever goes to a later datestamp or the same one and a later version
\* (arxiv/curated.py, the pending view's comparison), though days are captured late, out of
\* order and while papers change, and published in any order.
THEOREM Forward == Spec => PapersMoveForward
<1>1. ArxivInv /\ [ArxivNext]_arxivVars =>
         [\A p \in Papers : papers[p] # None /\ papers'[p] # papers[p] =>
             papers'[p].stamp >= papers[p].stamp
             /\ papers'[p].version > papers[p].version]_papers
  BY PapersForward
<1> QED
  BY <1>1, ArxivAlways, ArxivPart, PTL DEF PapersMoveForward

-----------------------------------------------------------------------------
(***************************************************************************)
(* The GitHub Archive.  A landed day is whole; while a day is published,   *)
(* its events are merged before its actors; and a current row gives way    *)
(* only to a later one, so that it stays at least as late as every row of  *)
(* every day whose job has completed.                                      *)
(***************************************************************************)
LEMMA GithubPart == Spec => GithubInit /\ [][GithubNext]_githubVars
<1>1. Init => GithubInit
  BY DEF Init
<1>2. [Next]_lakeVars => [GithubNext]_githubVars
  BY DEF Next, lakeVars, RunRest, RunStream, RunPromotion, RunArxiv, RunGithub, RunOcr
<1> QED
  BY <1>1, <1>2, PTL DEF Spec

\* A row is at least as late as another one, in the order of the actor merge.
AtLeast(x, y) == x.at > y.at \/ (x.at = y.at /\ x.id >= y.id)

LandedRows == UNION {Frame(d) : d \in ArchiveDays}
SeenRows == UNION {raw[d] : d \in ArchiveDays}

GithubTypes ==
    /\ raw \in [ArchiveDays -> SUBSET LandedRows]
    /\ events = [i \in Ids |-> events[i]] /\ actors = [a \in Actors |-> actors[a]]
    /\ \A d \in ArchiveDays : raw[d] \in {{}, Frame(d)}
    /\ \A i \in Ids : events[i] # None => events[i] \in LandedRows
    /\ \A a \in Actors : actors[a] # None => actors[a] \in SeenRows
    /\ merged \subseteq ArchiveDays /\ complete \subseteq ArchiveDays
    /\ \A d \in merged : raw[d] = Frame(d)

EventSettled(x) == events[x.id] # None /\ ~Later(x.hour, events[x.id].hour)
ActorSettled(x) == actors[x.actor] # None /\ AtLeast(actors[x.actor], x)

GithubPublishing ==
    githubTask # None =>
       /\ githubTask = [name |-> githubTask.name, day |-> githubTask.day,
                        step |-> githubTask.step]
       /\ githubTask.day \in ArchiveDays
       /\ githubTask.name = "publish" =>
             /\ ~Ambiguous(Frame(githubTask.day)) /\ githubTask.step \in 1..3
             /\ githubTask.step >= 2 => raw[githubTask.day] = Frame(githubTask.day)
             /\ githubTask.step = 3 => \A x \in raw[githubTask.day] : EventSettled(x)

GithubInv ==
    /\ GithubTypes /\ GithubPublishing
    /\ \A d \in merged : \A x \in raw[d] : EventSettled(x) /\ ActorSettled(x)

LEMMA RowShape ==
    \A x \in LandedRows :
       /\ x # None /\ x.at \in Nat /\ x.id \in Nat /\ x.id \in Ids /\ x.actor \in Actors
       /\ x.hour[1] \in Nat /\ x.hour[2] \in Nat
<1> SUFFICES ASSUME NEW d \in ArchiveDays, NEW x \in Frame(d)
             PROVE  /\ x # None /\ x.at \in Nat /\ x.id \in Nat
                    /\ x.id \in Ids /\ x.actor \in Actors
                    /\ x.hour[1] \in Nat /\ x.hour[2] \in Nat
  BY DEF LandedRows
<1>0. PICK h \in Hours(d) : \E e \in Archive[d][h] : x = EventRow(e, d, h)
  BY DEF Frame
<1>1. PICK e \in Archive[d][h] : x = EventRow(e, d, h)
  BY <1>0
<1>2. e \in AllEvents
  BY <1>1 DEF AllEvents
<1>3. x.id = e.id /\ x.actor = e.actor /\ x.hour[1] = d /\ x.hour[2] = h
  BY <1>1 DEF EventRow
<1> QED
  BY <1>1, <1>2, <1>3, GithubAssumption DEF Ids, Actors

LEMMA AtLeastTotal ==
    ASSUME NEW x, NEW y, x.at \in Nat, x.id \in Nat, y.at \in Nat, y.id \in Nat
    PROVE  AtLeast(x, x) /\ (AtLeast(x, y) \/ AtLeast(y, x))
BY DEF AtLeast

LEMMA AtLeastTransitive ==
    ASSUME NEW x, NEW y, NEW z, x.at \in Nat, x.id \in Nat, y.at \in Nat, y.id \in Nat,
           z.at \in Nat, z.id \in Nat, AtLeast(x, z), AtLeast(z, y)
    PROVE  AtLeast(x, y)
BY DEF AtLeast

\* Every non-empty set of a day's rows has a latest one, by a smallest set without one.
LEMMA LatestExists ==
    ASSUME NEW d \in ArchiveDays, NEW rows \in SUBSET Frame(d), rows # {}
    PROVE  Newest(rows) \in rows /\ \A y \in rows : AtLeast(Newest(rows), y)
<1> DEFINE HasLatest(s) == \E x \in s : \A y \in s : AtLeast(x, y)
           Bad == {n \in Nat : \E s \in SUBSET Frame(d) :
                                  s # {} /\ Cardinality(s) = n /\ ~HasLatest(s)}
<1>0. \A x \in Frame(d) : x.at \in Nat /\ x.id \in Nat
  BY GithubAssumption
<1>1. \A s \in SUBSET Frame(d) : IsFiniteSet(s) /\ Cardinality(s) \in Nat
  BY GithubAssumption, FS_Subset, FS_CardinalityType
<1>2. Bad = {}
  <2> SUFFICES ASSUME Bad # {} PROVE FALSE
    OBVIOUS
  <2>1. PICK n \in Bad : \A m \in Bad : ~(<<m, n>> \in OpToRel(<, Nat))
    <3>1. Bad \subseteq Nat
      OBVIOUS
    <3> HIDE DEF Bad
    <3> QED
      BY <3>1, NatLessThanWellFounded, WFMin, Zenon
  <2>2. \A m \in Bad : ~(m < n)
    BY <2>1 DEF OpToRel
  <2>3. PICK s \in SUBSET Frame(d) : s # {} /\ Cardinality(s) = n /\ ~HasLatest(s)
    OBVIOUS
  <2>4. PICK x \in s : TRUE
    BY <2>3
  <2>5. Cardinality(s \ {x}) = n - 1 /\ n - 1 \in Nat /\ n - 1 < n
    <3>1. Cardinality(s \ {x}) = n - 1
      BY <1>1, <2>3, <2>4, FS_RemoveElement
    <3>2. Cardinality(s \ {x}) \in Nat
      BY <1>1
    <3> QED
      BY <3>1, <3>2
  <2>6. CASE s \ {x} = {}
    <3>1. \A y \in s : y = x
      BY <2>6
    <3>2. AtLeast(x, x)
      <4>1. x.at \in Nat /\ x.id \in Nat
        BY <1>0, <2>3, <2>4
      <4> QED
        BY <4>1, AtLeastTotal
    <3> QED
      BY <2>3, <2>4, <3>1, <3>2
  <2>7. CASE s \ {x} # {}
    <3>1. HasLatest(s \ {x})
      BY <2>2, <2>3, <2>5, <2>7
    <3>2. PICK z \in s \ {x} : \A y \in s \ {x} : AtLeast(z, y)
      BY <3>1
    <3>3. CASE AtLeast(z, x)
      BY <2>3, <3>2, <3>3
    <3>4. CASE ~AtLeast(z, x)
      <4>0. x.at \in Nat /\ x.id \in Nat /\ z.at \in Nat /\ z.id \in Nat
        BY <1>0, <2>3, <2>4, <3>2
      <4>1. AtLeast(x, x) /\ AtLeast(x, z)
        BY <3>4, <4>0, AtLeastTotal
      <4>2. \A y \in s : AtLeast(x, y)
        <5> TAKE y \in s
        <5>1. CASE y = x
          BY <4>1, <5>1
        <5>2. CASE y # x
          <6>1. AtLeast(z, y) /\ AtLeast(x, z)
            BY <3>2, <4>1, <5>2
          <6>2. y.at \in Nat /\ y.id \in Nat
            BY <1>0, <2>3
          <6> QED
            BY <4>0, <6>1, <6>2, AtLeastTransitive
        <5> QED
          BY <5>1, <5>2
      <4> QED
        BY <2>3, <2>4, <4>2
    <3> QED
      BY <3>3, <3>4
  <2> QED
    BY <2>6, <2>7
<1>3. HasLatest(rows)
  BY <1>1, <1>2
<1> QED
  BY <1>3 DEF Newest, AtLeast

LEMMA GithubInitInv == GithubInit => GithubInv
BY DEF GithubInit, GithubInv, GithubTypes, GithubPublishing

\* Steps that write no table: the task ends, or begins.
LEMMA GithubKept ==
    ASSUME GithubInv, UNCHANGED <<raw, events, actors, merged>>,
           complete' \subseteq ArchiveDays, GithubPublishing'
    PROVE  GithubInv'
BY DEF GithubInv, GithubTypes, SeenRows, EventSettled, ActorSettled

LEMMA GithubCaptureStep ==
    ASSUME GithubInv,
           \/ \E d \in ArchiveDays : \/ \E h \in Hours(d) : PublishHour(d, h)
                                     \/ CaptureArchive(d) \/ PublishArchive(d)
           \/ KillGithub
           \/ githubTask # None /\ FinishArchive
           \/ githubTask # None /\ (\E h \in Hours(githubTask.day) : _download(h))
    PROVE  GithubInv'
<1>0. GithubTypes /\ GithubPublishing
  BY DEF GithubInv
<1>1. UNCHANGED <<raw, events, actors, merged>>
  BY DEF PublishHour, CaptureArchive, PublishArchive, BeginGithub, KillGithub, FinishArchive,
         _download
<1>2. complete' \subseteq ArchiveDays
  BY <1>0 DEF PublishHour, CaptureArchive, PublishArchive, BeginGithub, KillGithub,
              FinishArchive, _download, GithubTypes, GithubPublishing
<1>3. CASE githubTask' = githubTask
  <2>1. GithubPublishing'
    BY <1>0, <1>1, <1>3 DEF GithubPublishing, EventSettled
  <2> QED
    BY <1>1, <1>2, <2>1, GithubKept
<1>4. CASE githubTask' = None
  BY <1>1, <1>2, <1>4, GithubKept DEF GithubPublishing
<1>5. ASSUME NEW d \in ArchiveDays, CaptureArchive(d) \/ PublishArchive(d)
      PROVE  GithubPublishing'
  <2>1. CASE CaptureArchive(d)
    BY <2>1 DEF CaptureArchive, BeginGithub, GithubPublishing
  <2>2. CASE PublishArchive(d)
    BY <2>2 DEF PublishArchive, BeginGithub, GithubPublishing
  <2> QED
    BY <1>5, <2>1, <2>2
<1> QED
  BY <1>1, <1>2, <1>3, <1>4, <1>5, GithubKept DEF PublishHour, KillGithub, FinishArchive, _download

\* The task of a publication.
LEMMA PublishingTask ==
    ASSUME GithubInv, githubTask # None, githubTask.name = "publish"
    PROVE  /\ githubTask = [name |-> githubTask.name, day |-> githubTask.day,
                            step |-> githubTask.step]
           /\ githubTask.day \in ArchiveDays
           /\ ~Ambiguous(Frame(githubTask.day)) /\ githubTask.step \in 1..3
           /\ githubTask.step >= 2 => raw[githubTask.day] = Frame(githubTask.day)
           /\ githubTask.step = 3 => \A x \in raw[githubTask.day] : EventSettled(x)
           /\ Frame(githubTask.day) \subseteq LandedRows
BY DEF GithubInv, GithubPublishing, LandedRows

LEMMA OverwriteStep ==
    ASSUME GithubInv, githubTask # None, CommitArchive, githubTask.step = 1
    PROVE  GithubInv'
<1> PICK d : d = githubTask.day
  OBVIOUS
<1>0. GithubTypes /\ githubTask.name = "publish"
  BY DEF GithubInv, CommitArchive
<1>1. /\ d \in ArchiveDays /\ ~Ambiguous(Frame(d)) /\ Frame(d) \subseteq LandedRows
      /\ githubTask = [name |-> githubTask.name, day |-> githubTask.day,
                       step |-> githubTask.step]
  BY <1>0, PublishingTask
<1>2. /\ raw' = [raw EXCEPT ![d] = Frame(d)] /\ UNCHANGED <<events, actors, merged, complete>>
      /\ githubTask' = [githubTask EXCEPT !.step = 2]
  BY <1>0 DEF CommitArchive, Overwrite
<1>3. /\ raw'[d] = Frame(d) /\ \A e \in ArchiveDays : e # d => raw'[e] = raw[e]
      /\ raw' \in [ArchiveDays -> SUBSET LandedRows]
  BY <1>0, <1>1, <1>2 DEF GithubTypes
<1>4. \A e \in ArchiveDays : raw[e] \subseteq raw'[e]
  BY <1>0, <1>3 DEF GithubTypes
<1>5. GithubTypes'
  <2>1. SeenRows \subseteq SeenRows'
    BY <1>4 DEF SeenRows
  <2> QED
    BY <1>0, <1>2, <1>3, <2>1 DEF GithubTypes
<1>6. GithubPublishing'
  <2>1. /\ githubTask' = [name |-> githubTask'.name, day |-> githubTask'.day,
                          step |-> githubTask'.step]
        /\ githubTask'.day = d /\ githubTask'.step = 2
    BY <1>1, <1>2
  <2> QED
    BY <1>1, <1>3, <2>1 DEF GithubPublishing
<1>7. \A e \in merged : raw'[e] = raw[e]
  BY <1>0, <1>3 DEF GithubTypes
<1> QED
  BY <1>2, <1>5, <1>6, <1>7 DEF GithubInv, EventSettled, ActorSettled

LEMMA EventsStep ==
    ASSUME GithubInv, githubTask # None, CommitArchive, githubTask.step = 2
    PROVE  GithubInv'
<1> PICK d : d = githubTask.day
  OBVIOUS
<1>0. GithubTypes /\ githubTask.name = "publish"
  BY DEF GithubInv, CommitArchive
<1>1. /\ d \in ArchiveDays /\ ~Ambiguous(Frame(d)) /\ Frame(d) \subseteq LandedRows
      /\ raw[d] = Frame(d)
      /\ githubTask = [name |-> githubTask.name, day |-> githubTask.day,
                       step |-> githubTask.step]
  BY <1>0, PublishingTask
<1>2. /\ events' = MergeEvents(d) /\ UNCHANGED <<raw, actors, merged, complete>>
      /\ githubTask' = [githubTask EXCEPT !.step = 3]
  BY <1>0 DEF CommitArchive
<1>3. ASSUME NEW x \in Frame(d)
      PROVE  events'[x.id] = IF events[x.id] = None THEN x
                             ELSE IF Later(x.hour, events[x.id].hour) THEN x ELSE events[x.id]
  <2>1. x.id \in Ids
    BY <1>1, RowShape
  <2>2. {y \in raw[d] : y.id = x.id} = {x}
    BY <1>1 DEF Ambiguous
  <2>3. (CHOOSE y \in {x} : TRUE) = x
    OBVIOUS
  <2> QED
    BY <1>2, <2>1, <2>2, <2>3 DEF MergeEvents
<1>4. ASSUME NEW i \in Ids
      PROVE  \/ events'[i] = events[i]
             \/ \E x \in Frame(d) : x.id = i /\ events'[i] = x
                   /\ (events[i] = None \/ Later(x.hour, events[i].hour))
  <2>1. CASE {x \in raw[d] : x.id = i} = {}
    BY <1>2, <2>1 DEF MergeEvents
  <2>2. CASE {x \in raw[d] : x.id = i} # {}
    BY <1>1, <1>3, <2>2
  <2> QED
    BY <2>1, <2>2
<1>5. ASSUME NEW y \in LandedRows, EventSettled(y) PROVE EventSettled(y)'
  <2>0. y.id \in Ids /\ events[y.id] # None /\ ~Later(y.hour, events[y.id].hour)
        /\ events[y.id] \in LandedRows
    BY <1>0, <1>5, RowShape DEF EventSettled, GithubTypes
  <2>1. CASE events'[y.id] = events[y.id]
    BY <1>5, <2>1 DEF EventSettled
  <2>2. ASSUME NEW x \in Frame(d), events'[y.id] = x, Later(x.hour, events[y.id].hour)
        PROVE  EventSettled(y)'
    <3>1. x \in LandedRows /\ x # None
      BY <1>1, RowShape
    <3>2. ~Later(y.hour, x.hour)
      <4>1. /\ x.hour[1] \in Nat /\ x.hour[2] \in Nat /\ y.hour[1] \in Nat /\ y.hour[2] \in Nat
            /\ events[y.id].hour[1] \in Nat /\ events[y.id].hour[2] \in Nat
        BY <2>0, <3>1, RowShape
      <4> QED
        BY <2>0, <2>2, <4>1 DEF Later
    <3> QED
      BY <2>2, <3>1, <3>2 DEF EventSettled
  <2> QED
    BY <1>4, <2>0, <2>1, <2>2
<1>6. ASSUME NEW x \in Frame(d) PROVE EventSettled(x)'
  <2>1. x \in LandedRows /\ x # None /\ x.id \in Ids
        /\ x.hour[1] \in Nat /\ x.hour[2] \in Nat
    BY <1>1, RowShape
  <2>2. CASE events'[x.id] = x
    BY <2>1, <2>2 DEF EventSettled, Later
  <2> QED
    BY <1>3, <2>1, <2>2 DEF EventSettled
<1>7. GithubTypes'
  <2>1. events' = [i \in Ids |-> events'[i]]
    BY <1>2 DEF MergeEvents
  <2>2. \A i \in Ids : events'[i] # None => events'[i] \in LandedRows
    BY <1>0, <1>1, <1>4 DEF GithubTypes
  <2> QED
    BY <1>0, <1>2, <2>1, <2>2 DEF GithubTypes, SeenRows
<1>8. GithubPublishing'
  <2>1. /\ githubTask' = [name |-> githubTask'.name, day |-> githubTask'.day,
                          step |-> githubTask'.step]
        /\ githubTask'.day = d /\ githubTask'.step = 3
    BY <1>1, <1>2
  <2>2. \A x \in raw'[d] : EventSettled(x)'
    BY <1>1, <1>2, <1>6
  <2> QED
    BY <1>1, <1>2, <2>1, <2>2 DEF GithubPublishing, EventSettled
<1>9. ASSUME NEW e \in merged, NEW x \in raw[e] PROVE EventSettled(x)' /\ ActorSettled(x)'
  <2>1. x \in LandedRows
    BY <1>0, <1>9 DEF GithubTypes
  <2>2. EventSettled(x) /\ ActorSettled(x)
    BY <1>9 DEF GithubInv
  <2> QED
    BY <1>2, <1>5, <2>1, <2>2 DEF ActorSettled
<1> QED
  BY <1>2, <1>7, <1>8, <1>9 DEF GithubInv

LEMMA ActorsStep ==
    ASSUME GithubInv, githubTask # None, CommitArchive, githubTask.step = 3
    PROVE  GithubInv'
<1> PICK d : d = githubTask.day
  OBVIOUS
<1>0. GithubTypes /\ githubTask.name = "publish"
  BY DEF GithubInv, CommitArchive
<1>1. /\ d \in ArchiveDays /\ Frame(d) \subseteq LandedRows /\ raw[d] = Frame(d)
      /\ \A x \in raw[d] : EventSettled(x)
  BY <1>0, PublishingTask
<1>2. /\ actors' = MergeActors(d) /\ UNCHANGED <<raw, events, complete>>
      /\ githubTask' = None /\ merged' = merged \cup {d}
  BY <1>0 DEF CommitArchive
<1> DEFINE Of(a) == {x \in raw[d] : x.actor = a}
<1>3. \A a \in Actors :
         actors'[a] = IF Of(a) = {} THEN actors[a]
                      ELSE IF actors[a] = None THEN Newest(Of(a))
                      ELSE IF Newer(Newest(Of(a)), actors[a]) THEN Newest(Of(a)) ELSE actors[a]
  BY <1>2 DEF MergeActors
<1>4. \A a \in Actors : Of(a) # {} =>
         Newest(Of(a)) \in Of(a) /\ \A y \in Of(a) : AtLeast(Newest(Of(a)), y)
  <2> TAKE a \in Actors
  <2>1. Of(a) \in SUBSET Frame(d)
    BY <1>1
  <2> HIDE DEF Of
  <2> QED
    BY <1>1, <2>1, LatestExists
<1>5. \A a \in Actors : actors[a] # None => actors[a] \in LandedRows
  BY <1>0 DEF GithubTypes, SeenRows
<1>6. \A a \in Actors : Of(a) \subseteq LandedRows
  BY <1>1
<1>7. ASSUME NEW y \in LandedRows, ActorSettled(y) \/ y \in raw[d] PROVE ActorSettled(y)'
  <2> PICK a : a = y.actor
    OBVIOUS
  <2>1. a \in Actors /\ y.at \in Nat /\ y.id \in Nat
    BY RowShape
  <2>2. CASE Of(a) = {}
    BY <1>3, <1>7, <2>1, <2>2 DEF ActorSettled
  <2>3. CASE Of(a) # {}
    <3> PICK n : n = Newest(Of(a))
      OBVIOUS
    <3>1. /\ n \in Of(a) /\ n \in LandedRows /\ n # None /\ n.at \in Nat /\ n.id \in Nat
          /\ y \in raw[d] => AtLeast(n, y)
          /\ actors'[a] = IF actors[a] = None THEN n
                          ELSE IF Newer(n, actors[a]) THEN n ELSE actors[a]
      <4>1. n \in Of(a) /\ \A z \in Of(a) : AtLeast(n, z)
        BY <1>4, <2>1, <2>3
      <4>2. n \in LandedRows
        BY <1>6, <2>1, <4>1
      <4>3. actors'[a] = IF actors[a] = None THEN n
                         ELSE IF Newer(n, actors[a]) THEN n ELSE actors[a]
        BY <1>3, <2>1, <2>3
      <4>4. y \in raw[d] => AtLeast(n, y)
        BY <4>1
      <4> QED
        BY <4>1, <4>2, <4>3, <4>4, RowShape
    <3>2. CASE actors[a] = None
      BY <1>7, <3>1, <3>2 DEF ActorSettled
    <3>3. CASE actors[a] # None
      <4>1. actors[a].at \in Nat /\ actors[a].id \in Nat
        BY <1>5, <2>1, <3>3, RowShape
      <4>2. AtLeast(n, y) \/ AtLeast(actors[a], y)
        BY <1>7, <3>1 DEF ActorSettled
      <4>3. CASE Newer(n, actors[a])
        <5>1. AtLeast(n, y)
          BY <2>1, <3>1, <4>1, <4>2, <4>3 DEF AtLeast, Newer
        <5> QED
          BY <3>1, <3>3, <4>3, <5>1 DEF ActorSettled
      <4>4. CASE ~Newer(n, actors[a])
        <5>1. AtLeast(actors[a], y)
          BY <2>1, <3>1, <4>1, <4>2, <4>4 DEF AtLeast, Newer
        <5> QED
          BY <3>1, <3>3, <4>4, <5>1 DEF ActorSettled
      <4> QED
        BY <4>3, <4>4
    <3> QED
      BY <3>2, <3>3
  <2> QED
    BY <2>2, <2>3
<1>8. GithubTypes'
  <2>1. actors' = [a \in Actors |-> actors'[a]]
    BY <1>2 DEF MergeActors
  <2>2. SeenRows' = SeenRows
    BY <1>2 DEF SeenRows
  <2>3. \A a \in Actors : actors'[a] # None => actors'[a] \in SeenRows
    <3> TAKE a \in Actors
    <3>1. Of(a) \subseteq SeenRows
      BY <1>1 DEF SeenRows
    <3>2. actors'[a] \in {actors[a], Newest(Of(a))} /\ (Of(a) = {} => actors'[a] = actors[a])
      BY <1>3
    <3>3. actors[a] # None => actors[a] \in SeenRows
      BY <1>0 DEF GithubTypes
    <3> HIDE DEF Of
    <3> QED
      BY <1>4, <3>1, <3>2, <3>3
  <2> QED
    BY <1>0, <1>1, <1>2, <2>1, <2>2, <2>3 DEF GithubTypes
<1>9. GithubPublishing'
  BY <1>2 DEF GithubPublishing
<1>10. ASSUME NEW e \in merged', NEW x \in raw[e] PROVE EventSettled(x)' /\ ActorSettled(x)'
  <2>1. e \in ArchiveDays /\ (e = d \/ e \in merged)
    BY <1>0, <1>1, <1>2, <1>10 DEF GithubTypes
  <2>2. x \in LandedRows
    BY <1>0, <1>10, <2>1 DEF GithubTypes
  <2>3. EventSettled(x) /\ (ActorSettled(x) \/ x \in raw[d])
    BY <1>1, <1>10, <2>1 DEF GithubInv
  <2> QED
    BY <1>2, <1>7, <2>2, <2>3 DEF EventSettled
<1> QED
  BY <1>2, <1>8, <1>9, <1>10 DEF GithubInv

LEMMA GithubStep == GithubInv /\ [GithubNext]_githubVars => GithubInv'
<1> SUFFICES ASSUME GithubInv, [GithubNext]_githubVars PROVE GithubInv'
  OBVIOUS
<1>1. CASE UNCHANGED githubVars
  <2>1. UNCHANGED <<raw, events, actors, merged, complete, githubTask>>
    BY <1>1 DEF githubVars
  <2>2. complete' \subseteq ArchiveDays /\ GithubPublishing'
    BY <2>1 DEF GithubInv, GithubTypes, GithubPublishing, EventSettled
  <2> QED
    BY <2>1, <2>2, GithubKept
<1>2. ASSUME githubTask # None, CommitArchive PROVE GithubInv'
  <2>1. githubTask.step \in 1..3
    BY <1>2, PublishingTask DEF CommitArchive
  <2> QED
    BY <1>2, <2>1, OverwriteStep, EventsStep, ActorsStep
<1>3. CASE GithubNext
  BY <1>2, <1>3, GithubCaptureStep DEF GithubNext, GithubTaskStep
<1> QED
  BY <1>1, <1>3

\* The current row of an actor or repository is a landed observation and no completed day
\* holds a later one; an event's row comes from its latest archive file
\* (github_archive/curated.py, the guards of the three merges), whatever order the days are
\* published in, however often, and wherever a task was killed.
THEOREM Latest == Spec => []CurrentIsLatest
<1>1. GithubInv => CurrentIsLatest
  <2> SUFFICES ASSUME GithubInv PROVE CurrentIsLatest
    OBVIOUS
  <2>1. \A a \in Actors : actors[a] # None => actors[a] \in UNION {raw[d] : d \in ArchiveDays}
    BY DEF GithubInv, GithubTypes, SeenRows
  <2>2. ASSUME NEW x \in UNION {raw[d] : d \in merged}
        PROVE  /\ AtLeast(actors[x.actor], x)
               /\ ~Later(x.hour, events[x.id].hour)
    BY <2>2 DEF GithubInv, EventSettled, ActorSettled
  <2> QED
    BY <2>1, <2>2 DEF CurrentIsLatest, AtLeast
<1> QED
  BY <1>1, GithubInitInv, GithubStep, GithubPart, PTL

-----------------------------------------------------------------------------
(***************************************************************************)
(* The day's research matrix.  One selection of sessions explains every    *)
(* snapshot, label and evaluation that is visible; how far the running job *)
(* has come says which of its own rows are; and what an evaluation refers  *)
(* to is never taken away, because the merges only insert.                 *)
(***************************************************************************)
LEMMA StreamPart == Spec => StreamInit /\ [][StreamNext]_streamVars
<1>1. Init => StreamInit
  BY DEF Init
<1>2. [Next]_lakeVars => [StreamNext]_streamVars
  BY DEF Next, lakeVars, RunRest, RunStream, RunPromotion, RunArxiv, RunGithub, RunOcr
<1> QED
  BY <1>1, <1>2, PTL DEF Spec

SnapRows(sel) == {Row(c, Begun(sel, c)) : c \in 1..Clocks}
LabRows(sel) == {Row(<<c, Begun(sel, c)>>, Begun(sel, c + 1)) : c \in 1..Clocks}

FactTables == {"feature_windows", "feature_snapshots", "outcome_labels", "decision_contexts",
               "strategy_candidates", "candidate_arbitrations", "strategy_evaluations"}

StreamTypes ==
    /\ delivered \subseteq Sessions
    /\ job = [found |-> job.found, step |-> job.step]
    /\ job.found \in Seq(Sessions) /\ job.step \in Nat
    /\ facts = [t \in FactTables |-> facts[t]]
    /\ \A t \in FactTables : \A r \in facts[t] : r = Row(r.key, r.body)

\* The merges of the sessions that the job has done, in their order.
SessionsLanded ==
    \A i \in 1..Len(job.found) : \A j \in 1..8 :
       (i - 1) * 8 + j < job.step => <<SESSION_TABLES[j], job.found[i]>> \in landed

\* The fact table the job is at: none before 1.
Stage == job.step - LandingSteps - 1

\* What the job has published itself, of the matrix that comes from a selection.
OwnRows(sel) ==
    /\ Stage >= 2 => SnapRows(Selected) = SnapRows(sel)
                     /\ facts["feature_windows"] = SnapRows(sel)
    /\ Stage >= 3 => facts["feature_snapshots"] = SnapRows(sel)
    /\ Stage >= 4 => Read(Selected) = Read(sel) /\ facts["outcome_labels"] = LabRows(sel)
    /\ Stage >= 5 => ContextRows \subseteq facts["decision_contexts"]
    /\ Stage = 5 => Agree(facts["strategy_candidates"], CandidateRows)
    /\ Stage >= 6 => CandidateRows \subseteq facts["strategy_candidates"]
    /\ Stage >= 7 => \A c \in 1..Clocks :
                        \E x \in facts["candidate_arbitrations"] : x.key = Candidate(c)

\* Everything visible comes from the selection.
OneMatrix(sel) ==
    /\ facts["feature_windows"] \in {{}, SnapRows(sel)}
    /\ facts["feature_snapshots"] \in {{}, SnapRows(sel)}
    /\ facts["outcome_labels"] \in {{}, LabRows(sel)}
    /\ facts["feature_snapshots"] # {} => facts["feature_windows"] # {}
    /\ facts["outcome_labels"] # {} => facts["feature_snapshots"] # {}
    /\ facts["strategy_evaluations"] # {} => facts["outcome_labels"] # {}
    /\ \A row \in facts["strategy_evaluations"] : Read(row.body.evidence) = Read(sel)

\* The contexts, candidates and arbitrations of an evaluation.
EvaluationWhole(row) ==
    \A c \in 1..Clocks : \E context \in facts["decision_contexts"] :
       /\ context.key = <<c, row.key>> /\ context.body[2] = row.body.index
       /\ Row(<<c, row.key, context.body>>, <<c, context.body>>)
             \in facts["strategy_candidates"]
       /\ \E x \in facts["candidate_arbitrations"] : x.key = <<c, context.body>>

StreamInv ==
    /\ StreamTypes /\ SessionsLanded
    /\ \E found \in SUBSET Sessions : OneMatrix(Selects[found]) /\ OwnRows(Selects[found])
    /\ \A row \in facts["feature_snapshots"] : \A s \in row.body : <<"sessions", s>> \in landed
    /\ \A row \in facts["strategy_evaluations"] : EvaluationWhole(row)

LEMMA FactNames ==
    /\ ToSet(FACT_TABLES) = FactTables /\ DOMAIN FACT_TABLES = 1..7 /\ Len(FACT_TABLES) = 7
    /\ FACT_TABLES[1] = "feature_windows" /\ FACT_TABLES[2] = "feature_snapshots"
    /\ FACT_TABLES[3] = "outcome_labels" /\ FACT_TABLES[4] = "decision_contexts"
    /\ FACT_TABLES[5] = "strategy_candidates" /\ FACT_TABLES[6] = "candidate_arbitrations"
    /\ FACT_TABLES[7] = "strategy_evaluations"
<1>1. /\ DOMAIN FACT_TABLES = 1..7 /\ Len(FACT_TABLES) = 7
      /\ FACT_TABLES[1] = "feature_windows" /\ FACT_TABLES[2] = "feature_snapshots"
      /\ FACT_TABLES[3] = "outcome_labels" /\ FACT_TABLES[4] = "decision_contexts"
      /\ FACT_TABLES[5] = "strategy_candidates" /\ FACT_TABLES[6] = "candidate_arbitrations"
      /\ FACT_TABLES[7] = "strategy_evaluations"
  BY DEF FACT_TABLES
<1>2. 1..7 = {1, 2, 3, 4, 5, 6, 7}
  OBVIOUS
<1> QED
  BY <1>1, <1>2 DEF ToSet, FactTables

LEMMA SessionNames ==
    Len(SESSION_TABLES) = 8 /\ SESSION_TABLES[1] = "messages" /\ SESSION_TABLES[2] = "sessions"
BY DEF SESSION_TABLES

\* InsertMissing of rows that agree with the table makes all of them visible.
LEMMA AllInserted ==
    ASSUME NEW target, NEW source, Agree(target, source),
           \A r \in target : r = Row(r.key, r.body), \A r \in source : r = Row(r.key, r.body)
    PROVE  source \subseteq InsertMissing(target, source)
<1> SUFFICES ASSUME NEW new \in source PROVE new \in InsertMissing(target, source)
  OBVIOUS
<1>1. CASE \A old \in target : old.key # new.key
  BY <1>1 DEF InsertMissing
<1>2. CASE \E old \in target : old.key = new.key
  <2>1. PICK old \in target : old.key = new.key
    BY <1>2
  <2>2. old.body = new.body
    BY <2>1 DEF Agree
  <2>3. old = new
    BY <2>1, <2>2
  <2> QED
    BY <2>3 DEF InsertMissing
<1> QED
  BY <1>1, <1>2

LEMMA RowFields == ASSUME NEW k, NEW b PROVE Row(k, b).key = k /\ Row(k, b).body = b
BY DEF Row

\* Once every session is landed, the rows of the job come from its selection.
LEMMA SelectedRows ==
    ASSUME StreamTypes, SessionsLanded, Stage >= 0
    PROVE  /\ \A s \in Selected : <<"messages", s>> \in landed /\ <<"sessions", s>> \in landed
           /\ \A c : Envelopes(c) = Begun(Selected, c)
           /\ SnapshotRows = SnapRows(Selected) /\ LabelRows = LabRows(Selected)
           /\ ToSet(job.found) \in SUBSET Sessions /\ Selected \subseteq Sessions
           /\ Selected = Selects[ToSet(job.found)]
<1>1. Selected = Selects[ToSet(job.found)]
  BY DEF Selected, Assessed
<1>2. /\ Len(job.found) \in Nat /\ DOMAIN job.found = 1..Len(job.found)
      /\ \A i \in 1..Len(job.found) : job.found[i] \in Sessions
  BY DEF StreamTypes
<1>3. ToSet(job.found) \in SUBSET Sessions
  BY <1>2 DEF ToSet
<1>4. Selected \subseteq ToSet(job.found)
  BY <1>1, <1>3, StreamAssumption
<1>5. \A s \in Selected : <<"messages", s>> \in landed /\ <<"sessions", s>> \in landed
  <2> TAKE s \in Selected
  <2>1. PICK i \in 1..Len(job.found) : s = job.found[i]
    BY <1>2, <1>4 DEF ToSet
  <2>2. job.step > Len(job.found) * 8 /\ job.step \in Nat
    BY <1>2, SessionNames DEF Stage, LandingSteps, StreamTypes
  <2>3. (i - 1) * 8 + 1 < job.step /\ (i - 1) * 8 + 2 < job.step
    BY <1>2, <2>2
  <2>4. 1 \in 1..8 /\ 2 \in 1..8
    OBVIOUS
  <2> QED
    BY <2>1, <2>3, <2>4, SessionNames DEF SessionsLanded
<1>6. \A c : Envelopes(c) = Begun(Selected, c)
  BY <1>5 DEF Envelopes, Begun
<1>7. SnapshotRows = SnapRows(Selected) /\ LabelRows = LabRows(Selected)
  BY <1>6 DEF SnapshotRows, SnapRows, LabelRows, LabRows
<1> QED
  BY <1>1, <1>3, <1>4, <1>5, <1>6, <1>7

\* Two selections whose snapshots agree have the same ones.
LEMMA SameSnapshots ==
    ASSUME NEW a, NEW b, Agree(SnapRows(a), SnapRows(b))
    PROVE  (\A c \in 1..Clocks : Begun(a, c) = Begun(b, c)) /\ SnapRows(a) = SnapRows(b)
<1>1. \A c \in 1..Clocks : Begun(a, c) = Begun(b, c)
  <2> TAKE c \in 1..Clocks
  <2>1. Row(c, Begun(a, c)) \in SnapRows(a) /\ Row(c, Begun(b, c)) \in SnapRows(b)
    BY DEF SnapRows
  <2> QED
    BY <2>1, RowFields DEF Agree
<1> QED
  BY <1>1 DEF SnapRows

LEMMA EqualSnapshots ==
    ASSUME NEW a, NEW b, SnapRows(a) = SnapRows(b)
    PROVE  \A c \in 1..Clocks : Begun(a, c) = Begun(b, c)
<1> TAKE c \in 1..Clocks
<1>1. Row(c, Begun(a, c)) \in SnapRows(b)
  BY DEF SnapRows
<1>2. PICK e \in 1..Clocks : Row(c, Begun(a, c)) = Row(e, Begun(b, e))
  BY <1>1 DEF SnapRows
<1> QED
  BY <1>2, RowFields

\* If their labels agree too, they are the same as far as any feature or outcome reads.
LEMMA SameSelection ==
    ASSUME NEW a, NEW b, SnapRows(a) = SnapRows(b), Agree(LabRows(a), LabRows(b))
    PROVE  Read(a) = Read(b) /\ LabRows(a) = LabRows(b)
<1>1. Clocks \in 1..Clocks /\ Clocks \in Nat
  BY StreamAssumption
<1>2. Begun(a, Clocks) = Begun(b, Clocks)
  BY <1>1, EqualSnapshots
<1>3. /\ Row(<<Clocks, Begun(a, Clocks)>>, Begun(a, Clocks + 1)) \in LabRows(a)
      /\ Row(<<Clocks, Begun(b, Clocks)>>, Begun(b, Clocks + 1)) \in LabRows(b)
  BY <1>1 DEF LabRows
<1>4. Begun(a, Clocks + 1) = Begun(b, Clocks + 1)
  BY <1>2, <1>3, RowFields DEF Agree
<1>5. ASSUME NEW c \in 1..Clocks
      PROVE  Begun(a, c) = Begun(b, c) /\ Begun(a, c + 1) = Begun(b, c + 1)
  <2>1. \A d \in 1..Clocks : Begun(a, d) = Begun(b, d)
    BY EqualSnapshots
  <2>2. CASE c = Clocks
    BY <1>4, <2>1, <2>2
  <2>3. CASE c # Clocks
    <3>1. c + 1 \in 1..Clocks
      BY <1>1, <2>3
    <3> QED
      BY <2>1, <3>1
  <2> QED
    BY <2>2, <2>3
<1>6. LabRows(a) = LabRows(b)
  BY <1>5 DEF LabRows
<1> QED
  BY <1>4, <1>6 DEF Read

\* Inserting the rows of a selection into a table that has none, or all of them.
LEMMA InsertSame ==
    ASSUME NEW rows, NEW target \in {{}, rows}
    PROVE  InsertMissing(target, rows) = rows
BY DEF InsertMissing

LEMMA StreamInitInv == StreamInit => StreamInv
<1> SUFFICES ASSUME StreamInit PROVE StreamInv
  OBVIOUS
<1>1. facts = [t \in FactTables |-> {}]
  BY FactNames DEF StreamInit
<1>2. /\ job = [found |-> <<>>, step |-> 0] /\ job.found = <<>> /\ job.step = 0
      /\ Len(job.found) = 0 /\ delivered = {}
  BY DEF StreamInit, NoJob
<1>3. <<>> \in Seq(Sessions)
  OBVIOUS
<1>4. StreamTypes
  BY <1>1, <1>2, <1>3 DEF StreamTypes
<1>5. SessionsLanded
  BY <1>2 DEF SessionsLanded
<1>6. \A t \in FactTables : facts[t] = {}
  BY <1>1
<1>7. Stage = -1
  BY <1>2, SessionNames DEF Stage, LandingSteps
<1>8. \A sel : OneMatrix(sel)
  BY <1>6 DEF OneMatrix, FactTables
<1>9. \A sel : OwnRows(sel)
  BY <1>7 DEF OwnRows
<1>10. {} \in SUBSET Sessions
  OBVIOUS
<1> QED
  BY <1>4, <1>5, <1>6, <1>8, <1>9, <1>10 DEF StreamInv, FactTables

\* Steps that publish no fact, of a job that has published none.
LEMMA FactsKept ==
    ASSUME StreamInv, UNCHANGED facts, landed \subseteq landed', StreamTypes', SessionsLanded',
           Stage' <= 1
    PROVE  StreamInv'
<1>1. Stage' \in Int
  BY SessionNames DEF StreamTypes, Stage, LandingSteps
<1>2. PICK found \in SUBSET Sessions : OneMatrix(Selects[found])
  BY DEF StreamInv
<1>3. OneMatrix(Selects[found])'
  BY <1>2 DEF OneMatrix
<1>4. OwnRows(Selects[found])'
  BY <1>1 DEF OwnRows
<1>5. \A row \in facts'["feature_snapshots"] : \A s \in row.body : <<"sessions", s>> \in landed'
  BY DEF StreamInv
<1>6. \A row \in facts'["strategy_evaluations"] : EvaluationWhole(row)'
  BY DEF StreamInv, EvaluationWhole
<1> QED
  BY <1>3, <1>4, <1>5, <1>6 DEF StreamInv

\* The job has ended.
LEMMA JobEnds ==
    ASSUME StreamInv, UNCHANGED facts, landed \subseteq landed', delivered' = delivered,
           job' = NoJob
    PROVE  StreamInv'
<1>1. /\ job' = [found |-> job'.found, step |-> job'.step]
      /\ job'.found = <<>> /\ job'.step = 0 /\ Len(job'.found) = 0
  BY DEF NoJob
<1>2. <<>> \in Seq(Sessions)
  OBVIOUS
<1>3. StreamTypes'
  BY <1>1, <1>2 DEF StreamInv, StreamTypes
<1>4. SessionsLanded'
  BY <1>1 DEF SessionsLanded
<1>5. Stage' <= 1
  BY <1>1, SessionNames DEF Stage, LandingSteps
<1> QED
  BY <1>3, <1>4, <1>5, FactsKept

LEMMA DeliverStep ==
    ASSUME StreamInv, UNCHANGED <<indexRevision, job, landed, facts>>, delivered' \subseteq Sessions
    PROVE  StreamInv'
<1>1. StreamTypes' /\ SessionsLanded'
  BY DEF StreamInv, StreamTypes, SessionsLanded
<1>2. PICK found \in SUBSET Sessions : OneMatrix(Selects[found]) /\ OwnRows(Selects[found])
  BY DEF StreamInv
<1>3. Stage' = Stage /\ Selected' = Selected
  BY DEF Stage, LandingSteps, Selected, Assessed
<1>4. \A c : Envelopes(c)' = Envelopes(c)
  BY <1>3 DEF Envelopes
<1>5. DataMode' = DataMode /\ \A c : Context(c)' = Context(c)
  BY <1>3, <1>4 DEF DataMode, Context
<1>6. CandidateRows' = CandidateRows /\ ContextRows' = ContextRows
      /\ \A c : Candidate(c)' = Candidate(c)
  BY <1>5 DEF CandidateRows, Candidate, ContextRows
<1>7. OneMatrix(Selects[found])' /\ OwnRows(Selects[found])'
  BY <1>2, <1>3, <1>6 DEF OneMatrix, OwnRows
<1> QED
  BY <1>1, <1>7 DEF StreamInv, EvaluationWhole

LEMMA IndexStep == ASSUME StreamInv, PublishIndexBars PROVE StreamInv'
BY JobEnds DEF PublishIndexBars

LEMMA StartJobStep == ASSUME StreamInv, StartJob PROVE StreamInv'
<1>0. delivered \subseteq Sessions
  BY DEF StreamInv, StreamTypes
<1>1. /\ job' = [found |-> SetToSeq(delivered), step |-> 1]
      /\ UNCHANGED <<delivered, landed, facts>>
  BY DEF StartJob
<1>2. SetToSeq(delivered) \in Seq(Sessions)
  <2>1. IsFiniteSet(delivered) /\ Cardinality(delivered) \in Nat
    BY <1>0, StreamAssumption, FS_Subset, FS_CardinalityType
  <2>2. ExistsBijection(1..Cardinality(delivered), delivered)
    BY <2>1, FS_CardinalityType
  <2>3. \E f \in [1..Cardinality(delivered) -> delivered] : IsInjective(f)
    BY <2>2 DEF ExistsBijection, Bijection, Injection, IsInjective
  <2>4. SetToSeq(delivered) \in [1..Cardinality(delivered) -> delivered]
    BY <2>3 DEF SetToSeq
  <2>5. SetToSeq(delivered) \in [1..Cardinality(delivered) -> Sessions]
    BY <1>0, <2>4
  <2> QED
    BY <2>1, <2>5
<1>3. /\ job' = [found |-> job'.found, step |-> job'.step]
      /\ job'.found \in Seq(Sessions) /\ job'.step = 1 /\ Len(job'.found) \in Nat
  BY <1>1, <1>2
<1>4. StreamTypes'
  BY <1>1, <1>3 DEF StreamInv, StreamTypes
<1>5. SessionsLanded'
  <2>1. \A i \in 1..Len(job'.found), j \in 1..8 : ~((i - 1) * 8 + j < 1)
    BY <1>3
  <2> QED
    BY <1>3, <2>1 DEF SessionsLanded
<1>6. Stage' <= 1
  BY <1>3, SessionNames DEF Stage, LandingSteps
<1> QED
  BY <1>1, <1>4, <1>5, <1>6, FactsKept

LEMMA StepPosition ==
    ASSUME NEW len \in Nat, NEW i \in 1..len, NEW j \in 1..8, NEW n \in Nat,
           (i - 1) * 8 + j < n + 1
    PROVE  \/ (i - 1) * 8 + j < n
           \/ i = ((n - 1) \div 8) + 1 /\ j = ((n - 1) % 8) + 1
<1>1. CASE (i - 1) * 8 + j = n
  <2>1. n - 1 = 8 * (i - 1) + (j - 1) /\ j - 1 \in 0..7 /\ i - 1 \in Nat
    BY <1>1
  <2>2. (n - 1) \div 8 = i - 1 /\ (n - 1) % 8 = j - 1
    BY <2>1
  <2> QED
    BY <2>2
<1> QED
  BY <1>1

LEMMA LandSessionStep == ASSUME StreamInv, LandSession PROVE StreamInv'
<1>0. StreamTypes /\ SessionsLanded
  BY DEF StreamInv
<1>a. PICK at, table, s :
       /\ at = ((job.step - 1) \div 8) + 1 /\ s = job.found[at]
       /\ table = ((job.step - 1) % 8) + 1
  OBVIOUS
<1>1. /\ UNCHANGED <<delivered, facts>> /\ job.step <= Len(job.found) * 8
      /\ \/ landed' = landed /\ job' = NoJob
         \/ /\ landed' = landed \cup {<<SESSION_TABLES[table], s>>}
            /\ job' = [job EXCEPT !.step = job.step + 1]
  BY <1>0, <1>a, SessionNames DEF LandSession, LandingSteps, StreamTypes
<1>2. CASE landed' = landed /\ job' = NoJob
  BY <1>1, <1>2, JobEnds
<1>3. CASE /\ landed' = landed \cup {<<SESSION_TABLES[table], s>>}
           /\ job' = [job EXCEPT !.step = job.step + 1]
  <2>1. /\ job' = [found |-> job.found, step |-> job.step + 1]
        /\ job'.found = job.found /\ job'.step = job.step + 1
        /\ job.step \in Nat /\ job.step + 1 \in Nat /\ Len(job.found) \in Nat
    BY <1>0, <1>3 DEF StreamTypes
  <2>2. StreamTypes'
    BY <1>0, <1>1, <2>1 DEF StreamTypes
  <2>3. SessionsLanded'
    <3> SUFFICES ASSUME NEW i \in 1..Len(job.found), NEW j \in 1..8,
                        (i - 1) * 8 + j < job.step + 1
                 PROVE  <<SESSION_TABLES[j], job.found[i]>> \in landed'
      BY <2>1 DEF SessionsLanded
    <3>1. CASE (i - 1) * 8 + j < job.step
      BY <1>0, <1>3, <3>1 DEF SessionsLanded
    <3>2. CASE i = at /\ j = table
      BY <1>3, <1>a, <3>2
    <3>3. (i - 1) * 8 + j < job.step \/ (i = at /\ j = table)
      <4>1. PICK n \in Nat, len \in Nat : n = job.step /\ len = Len(job.found)
        BY <2>1
      <4>2. i \in 1..len /\ j \in 1..8 /\ (i - 1) * 8 + j < n + 1
        BY <4>1
      <4>3. \/ (i - 1) * 8 + j < n
            \/ i = ((n - 1) \div 8) + 1 /\ j = ((n - 1) % 8) + 1
        BY <4>2, StepPosition, Zenon
      <4> QED
        BY <1>a, <4>1, <4>3
    <3> QED
      BY <3>1, <3>2, <3>3
  <2>4. Stage' <= 1
    BY <1>1, <2>1, SessionNames DEF Stage, LandingSteps
  <2> QED
    BY <1>1, <1>3, <2>2, <2>3, <2>4, FactsKept
<1> QED
  BY <1>1, <1>2, <1>3

LEMMA CertifyStep == ASSUME StreamInv, Certify PROVE StreamInv'
<1>0. StreamTypes /\ SessionsLanded
  BY DEF StreamInv
<1>1. /\ UNCHANGED <<delivered, landed, facts>> /\ job.step = Len(job.found) * 8 + 1
      /\ job' \in {NoJob, [job EXCEPT !.step = job.step + 1]}
  BY <1>0, SessionNames DEF Certify, LandingSteps, StreamTypes
<1>2. CASE job' = NoJob
  BY <1>1, <1>2, JobEnds
<1>3. CASE job' = [job EXCEPT !.step = job.step + 1]
  <2>1. /\ job' = [found |-> job.found, step |-> job.step + 1]
        /\ job'.found = job.found /\ job'.step = job.step + 1
        /\ job.step \in Nat /\ job.step + 1 \in Nat /\ Len(job.found) \in Nat
    BY <1>0, <1>3 DEF StreamTypes
  <2>2. StreamTypes'
    BY <1>0, <1>1, <2>1 DEF StreamTypes
  <2>3. SessionsLanded'
    <3> SUFFICES ASSUME NEW i \in 1..Len(job.found), NEW j \in 1..8
                 PROVE  <<SESSION_TABLES[j], job.found[i]>> \in landed
      BY <1>1, <2>1 DEF SessionsLanded
    <3>1. (i - 1) * 8 + j < job.step
      BY <1>1, <2>1
    <3> QED
      BY <1>0, <3>1 DEF SessionsLanded
  <2>4. Stage' <= 1
    BY <1>1, <2>1, SessionNames DEF Stage, LandingSteps
  <2> QED
    BY <1>1, <2>2, <2>3, <2>4, FactsKept
<1> QED
  BY <1>1, <1>2, <1>3

LEMMA TableRows ==
    /\ Rows("feature_windows") = SnapshotRows /\ Rows("feature_snapshots") = SnapshotRows
    /\ Rows("outcome_labels") = LabelRows /\ Rows("decision_contexts") = ContextRows
    /\ Rows("strategy_candidates") = CandidateRows
    /\ Rows("candidate_arbitrations") = ArbitrationRows
    /\ Rows("strategy_evaluations") = EvaluationRows
BY DEF Rows

LEMMA RowSets == \A t \in FactTables : \A r \in Rows(t) : r = Row(r.key, r.body)
<1>1. \A r \in SnapshotRows : r = Row(r.key, r.body)
  BY DEF SnapshotRows, Row
<1>2. \A r \in LabelRows : r = Row(r.key, r.body)
  BY DEF LabelRows, Row
<1>3. \A r \in ContextRows : r = Row(r.key, r.body)
  BY DEF ContextRows, Row
<1>4. \A r \in CandidateRows : r = Row(r.key, r.body)
  BY DEF CandidateRows, Row
<1>5. \A r \in ArbitrationRows : r = Row(r.key, r.body)
  BY DEF ArbitrationRows, Row
<1>6. \A r \in EvaluationRows : r = Row(r.key, r.body)
  BY DEF EvaluationRows, Row
<1> QED
  BY <1>1, <1>2, <1>3, <1>4, <1>5, <1>6, TableRows DEF FactTables

LEMMA PublishEffects ==
    ASSUME StreamInv, PublishFacts
    PROVE  /\ Stage \in 1..7 /\ UNCHANGED <<delivered, landed, indexRevision>>
           /\ \/ facts' = facts /\ job' = NoJob
              \/ LET t == FACT_TABLES[Stage]
                 IN  /\ Compatible(PREFLIGHT[t])
                     /\ facts' = [facts EXCEPT ![t] = InsertMissing(facts[t], Rows(t))]
                     /\ job' = IF Stage = 7 THEN NoJob ELSE [job EXCEPT !.step = job.step + 1]
<1>1. Stage \in 1..7 /\ UNCHANGED <<delivered, landed, indexRevision>>
  BY FactNames DEF PublishFacts, Stage
<1>2. CASE Compatible(PREFLIGHT[FACT_TABLES[Stage]])
  <2>1. FACT_TABLES[Stage] \in FactTables
    BY <1>1, FactNames DEF ToSet
  <2>2. facts = [t \in FactTables |-> facts[t]] /\ job = [found |-> job.found, step |-> job.step]
    BY DEF StreamInv, StreamTypes
  <2> QED
    BY <1>1, <1>2, <2>1, <2>2, FactNames DEF PublishFacts, Stage
<1>3. CASE ~Compatible(PREFLIGHT[FACT_TABLES[Stage]])
  BY <1>1, <1>3 DEF PublishFacts, Stage
<1> QED
  BY <1>1, <1>2, <1>3

\* A merge keeps what is visible, and what is whole.
LEMMA MergeKeeps ==
    ASSUME StreamInv, NEW t \in FactTables, Stage \in 1..7,
           facts' = [facts EXCEPT ![t] = InsertMissing(facts[t], Rows(t))],
           UNCHANGED <<delivered, landed, indexRevision>>,
           job' = NoJob \/ job' = [job EXCEPT !.step = job.step + 1]
    PROVE  /\ StreamTypes' /\ SessionsLanded'
           /\ facts'[t] = InsertMissing(facts[t], Rows(t)) /\ facts[t] \subseteq facts'[t]
           /\ \A u \in FactTables : u # t => facts'[u] = facts[u]
           /\ \A row \in facts["strategy_evaluations"] : EvaluationWhole(row)'
<1>0. StreamTypes /\ SessionsLanded
  BY DEF StreamInv
<1>1. facts = [u \in FactTables |-> facts[u]]
  BY <1>0 DEF StreamTypes
<1>2. /\ facts'[t] = InsertMissing(facts[t], Rows(t))
      /\ \A u \in FactTables : u # t => facts'[u] = facts[u]
      /\ facts' = [u \in FactTables |-> facts'[u]]
  BY <1>1
<1>3. facts[t] \subseteq facts'[t] /\ facts'[t] \subseteq facts[t] \cup Rows(t)
  BY <1>2 DEF InsertMissing
<1>4. \A u \in FactTables : facts[u] \subseteq facts'[u]
  BY <1>2, <1>3
<1>5. \A u \in FactTables : \A r \in facts'[u] : r = Row(r.key, r.body)
  <2>1. \A r \in facts'[t] : r = Row(r.key, r.body)
    BY <1>0, <1>3, RowSets DEF StreamTypes
  <2> QED
    BY <1>0, <1>2, <2>1 DEF StreamTypes
<1>6. /\ job' = [found |-> job'.found, step |-> job'.step]
      /\ job'.found \in Seq(Sessions) /\ job'.step \in Nat
  <2>1. <<>> \in Seq(Sessions)
    OBVIOUS
  <2>2. job = [found |-> job.found, step |-> job.step] /\ job.found \in Seq(Sessions)
        /\ job.step \in Nat /\ job.step + 1 \in Nat
    BY <1>0 DEF StreamTypes
  <2>3. CASE job' = [job EXCEPT !.step = job.step + 1]
    BY <2>2, <2>3
  <2>4. CASE job' = NoJob
    BY <2>1, <2>4 DEF NoJob
  <2> QED
    BY <2>3, <2>4
<1>7. StreamTypes'
  BY <1>0, <1>2, <1>5, <1>6 DEF StreamTypes
<1>8. SessionsLanded'
  <2>1. CASE job' = NoJob
    <3>1. Len(job'.found) = 0
      BY <2>1 DEF NoJob
    <3> QED
      BY <3>1 DEF SessionsLanded
  <2>2. CASE job' = [job EXCEPT !.step = job.step + 1]
    <3>1. /\ job'.found = job.found /\ job.step \in Nat /\ Len(job.found) \in Nat
          /\ job.step > Len(job.found) * 8
      BY <1>0, <2>2, SessionNames DEF StreamTypes, Stage, LandingSteps
    <3> SUFFICES ASSUME NEW i \in 1..Len(job.found), NEW j \in 1..8
                 PROVE  <<SESSION_TABLES[j], job.found[i]>> \in landed
      BY <3>1 DEF SessionsLanded
    <3>2. (i - 1) * 8 + j < job.step
      BY <3>1
    <3> QED
      BY <1>0, <3>2 DEF SessionsLanded
  <2> QED
    BY <2>1, <2>2
<1>9. \A row \in facts["strategy_evaluations"] : EvaluationWhole(row)'
  <2>1. /\ facts["decision_contexts"] \subseteq facts'["decision_contexts"]
        /\ facts["strategy_candidates"] \subseteq facts'["strategy_candidates"]
        /\ facts["candidate_arbitrations"] \subseteq facts'["candidate_arbitrations"]
    BY <1>4 DEF FactTables
  <2> TAKE row \in facts["strategy_evaluations"]
  <2>2. EvaluationWhole(row)
    BY DEF StreamInv
  <2> QED
    BY <2>1, <2>2 DEF EvaluationWhole
<1> QED
  BY <1>2, <1>3, <1>7, <1>8, <1>9

\* The next table: the job's rows are the same.
LEMMA NextStage ==
    ASSUME StreamTypes, UNCHANGED <<landed, indexRevision>>,
           job' = [job EXCEPT !.step = job.step + 1]
    PROVE  /\ Stage \in Int /\ Stage' = Stage + 1 /\ Selected' = Selected
           /\ ContextRows' = ContextRows /\ CandidateRows' = CandidateRows
           /\ \A c : Candidate(c)' = Candidate(c)
<1>1. /\ job'.found = job.found /\ job'.step = job.step + 1
      /\ job.step \in Nat /\ Len(job.found) \in Nat
  BY DEF StreamTypes
<1>2. Stage \in Int /\ Stage' = Stage + 1
  <2>1. LandingSteps' = LandingSteps
    BY <1>1 DEF LandingSteps
  <2>2. LandingSteps = Len(job.found) * 8
    BY SessionNames DEF LandingSteps
  <2>3. LandingSteps \in Nat
    BY <1>1, <2>2
  <2> QED
    BY <1>1, <2>1, <2>3 DEF Stage
<1>3. Selected' = Selected
  BY <1>1 DEF Selected, Assessed
<1>4. \A c : Envelopes(c)' = Envelopes(c)
  BY <1>3 DEF Envelopes
<1>5. DataMode' = DataMode /\ \A c : Context(c)' = Context(c)
  BY <1>3, <1>4 DEF DataMode, Context
<1> QED
  BY <1>2, <1>3, <1>5 DEF CandidateRows, Candidate, ContextRows

LEMMA Preflights ==
    /\ PREFLIGHT["feature_windows"] = {"feature_snapshots", "feature_windows"}
    /\ PREFLIGHT["outcome_labels"] = {"outcome_labels"}
    /\ PREFLIGHT["decision_contexts"] =
          {"decision_contexts", "strategy_candidates", "candidate_arbitrations",
           "strategy_evaluations"}
BY FactNames DEF PREFLIGHT, FactTables

LEMMA SnapRowsExist == \A sel : SnapRows(sel) # {} /\ LabRows(sel) # {}
<1>1. 1 \in 1..Clocks
  BY StreamAssumption
<1> QED
  BY <1>1 DEF SnapRows, LabRows

\* The windows: the first selection to publish is the day's, a later one has to agree.
LEMMA WindowsStep ==
    ASSUME StreamInv, Stage = 1, UNCHANGED <<delivered, landed, indexRevision>>,
           Compatible(PREFLIGHT["feature_windows"]),
           facts' = [facts EXCEPT !["feature_windows"] =
                        InsertMissing(facts["feature_windows"], Rows("feature_windows"))],
           job' = [job EXCEPT !.step = job.step + 1]
    PROVE  StreamInv'
<1>0. StreamTypes /\ SessionsLanded
  BY DEF StreamInv
<1>1. /\ StreamTypes' /\ SessionsLanded'
      /\ facts'["feature_windows"] =
            InsertMissing(facts["feature_windows"], SnapRows(Selected))
      /\ \A u \in FactTables : u # "feature_windows" => facts'[u] = facts[u]
      /\ \A row \in facts["strategy_evaluations"] : EvaluationWhole(row)'
  <2>1. "feature_windows" \in FactTables
    BY DEF FactTables
  <2>2. Rows("feature_windows") = SnapRows(Selected)
    BY <1>0, SelectedRows, TableRows
  <2>3. Stage \in 1..7
    OBVIOUS
  <2> QED
    BY <2>1, <2>2, <2>3, MergeKeeps
<1>2. /\ facts'["feature_snapshots"] = facts["feature_snapshots"]
      /\ facts'["outcome_labels"] = facts["outcome_labels"]
      /\ facts'["strategy_evaluations"] = facts["strategy_evaluations"]
  BY <1>1 DEF FactTables
<1>3. Stage' = 2 /\ Selected' = Selected
  BY <1>0, NextStage
<1>4. /\ Selected = Selects[ToSet(job.found)] /\ ToSet(job.found) \in SUBSET Sessions
      /\ Agree(facts["feature_windows"], SnapRows(Selected))
  <2>1. Agree(facts["feature_windows"], Rows("feature_windows"))
    BY Preflights DEF Compatible
  <2> QED
    BY <1>0, <2>1, SelectedRows, TableRows
<1>5. PICK found \in SUBSET Sessions : OneMatrix(Selects[found])
  BY DEF StreamInv
<1>6. PICK sel : sel = Selects[found] /\ OneMatrix(sel)
  BY <1>5
<1>7. \E new \in SUBSET Sessions :
         /\ OneMatrix(Selects[new])' /\ SnapRows(Selected) = SnapRows(Selects[new])
         /\ facts'["feature_windows"] = SnapRows(Selects[new])
  <2>1. CASE facts["feature_windows"] = {}
    <3>1. /\ facts["feature_snapshots"] = {} /\ facts["outcome_labels"] = {}
          /\ facts["strategy_evaluations"] = {}
      BY <1>6, <2>1 DEF OneMatrix
    <3>2. facts'["feature_windows"] = SnapRows(Selected)
      BY <1>1, <2>1, InsertSame
    <3>3. OneMatrix(Selected)'
      BY <1>2, <1>3, <3>1, <3>2 DEF OneMatrix
    <3> QED
      BY <1>3, <1>4, <3>2, <3>3
  <2>2. CASE facts["feature_windows"] # {}
    <3>1. facts["feature_windows"] = SnapRows(sel)
      BY <1>6, <2>2 DEF OneMatrix
    <3>2. SnapRows(Selected) = SnapRows(sel)
      BY <1>4, <3>1, SameSnapshots
    <3>3. facts'["feature_windows"] = SnapRows(sel)
      BY <1>1, <3>1, <3>2, InsertSame
    <3>4. OneMatrix(sel)'
      BY <1>2, <1>6, <3>1, <3>3 DEF OneMatrix
    <3> QED
      BY <1>5, <1>6, <3>2, <3>3, <3>4
  <2> QED
    BY <2>1, <2>2
<1>8. PICK new \in SUBSET Sessions :
         /\ OneMatrix(Selects[new])' /\ SnapRows(Selected) = SnapRows(Selects[new])
         /\ facts'["feature_windows"] = SnapRows(Selects[new])
  BY <1>7
<1>9. OwnRows(Selects[new])'
  BY <1>3, <1>8 DEF OwnRows
<1>10. /\ \A row \in facts'["feature_snapshots"] : \A s \in row.body : <<"sessions", s>> \in landed'
       /\ \A row \in facts'["strategy_evaluations"] : EvaluationWhole(row)'
  BY <1>1, <1>2 DEF StreamInv
<1> QED
  BY <1>1, <1>8, <1>9, <1>10 DEF StreamInv

\* The snapshots: their windows are there.
LEMMA SnapshotsStep ==
    ASSUME StreamInv, Stage = 2, UNCHANGED <<delivered, landed, indexRevision>>,
           facts' = [facts EXCEPT !["feature_snapshots"] =
                        InsertMissing(facts["feature_snapshots"], Rows("feature_snapshots"))],
           job' = [job EXCEPT !.step = job.step + 1]
    PROVE  StreamInv'
<1>0. StreamTypes /\ SessionsLanded
  BY DEF StreamInv
<1>1. /\ StreamTypes' /\ SessionsLanded'
      /\ facts'["feature_snapshots"] =
            InsertMissing(facts["feature_snapshots"], SnapRows(Selected))
      /\ \A u \in FactTables : u # "feature_snapshots" => facts'[u] = facts[u]
      /\ \A row \in facts["strategy_evaluations"] : EvaluationWhole(row)'
  <2>1. "feature_snapshots" \in FactTables
    BY DEF FactTables
  <2>2. Rows("feature_snapshots") = SnapRows(Selected)
    BY <1>0, SelectedRows, TableRows
  <2>3. Stage \in 1..7
    OBVIOUS
  <2> QED
    BY <2>1, <2>2, <2>3, MergeKeeps
<1>2. /\ facts'["feature_windows"] = facts["feature_windows"]
      /\ facts'["outcome_labels"] = facts["outcome_labels"]
      /\ facts'["strategy_evaluations"] = facts["strategy_evaluations"]
  BY <1>1 DEF FactTables
<1>3. Stage' = 3 /\ Selected' = Selected
  BY <1>0, NextStage
<1>4. PICK found \in SUBSET Sessions : OneMatrix(Selects[found]) /\ OwnRows(Selects[found])
  BY DEF StreamInv
<1>5. PICK sel : sel = Selects[found] /\ OneMatrix(sel) /\ OwnRows(sel)
  BY <1>4
<1>6. SnapRows(Selected) = SnapRows(sel) /\ facts["feature_windows"] = SnapRows(sel)
  BY <1>5 DEF OwnRows
<1>7. facts'["feature_snapshots"] = SnapRows(sel)
  <2>1. facts["feature_snapshots"] \in {{}, SnapRows(sel)}
    BY <1>5 DEF OneMatrix
  <2> QED
    BY <1>1, <1>6, <2>1, InsertSame
<1>8. OneMatrix(sel)' /\ OwnRows(sel)'
  <2>1. SnapRows(sel) # {}
    BY SnapRowsExist
  <2> QED
    BY <1>2, <1>3, <1>5, <1>6, <1>7, <2>1 DEF OneMatrix, OwnRows
<1>9. \A row \in facts'["feature_snapshots"] : \A s \in row.body : <<"sessions", s>> \in landed'
  <2>1. ASSUME NEW row \in SnapRows(Selected), NEW s \in row.body PROVE s \in Selected
    <3>1. PICK c \in 1..Clocks : row = Row(c, Begun(Selected, c))
      BY <2>1 DEF SnapRows
    <3> QED
      BY <2>1, <3>1, RowFields DEF Begun
  <2>2. \A s \in Selected : <<"sessions", s>> \in landed
    <3>1. Stage >= 0
      OBVIOUS
    <3> QED
      BY <1>0, <3>1, SelectedRows, Zenon
  <2> QED
    BY <1>6, <1>7, <2>1, <2>2
<1>10. \A row \in facts'["strategy_evaluations"] : EvaluationWhole(row)'
  BY <1>1, <1>2
<1> QED
  BY <1>1, <1>4, <1>5, <1>8, <1>9, <1>10 DEF StreamInv

\* The labels pin the selection.
LEMMA LabelsStep ==
    ASSUME StreamInv, Stage = 3,
           UNCHANGED <<delivered, landed, indexRevision>>,
           Compatible(PREFLIGHT["outcome_labels"]),
           facts' = [facts EXCEPT !["outcome_labels"] =
                        InsertMissing(facts["outcome_labels"], Rows("outcome_labels"))],
           job' = [job EXCEPT !.step = job.step + 1]
    PROVE  StreamInv'
<1>0. StreamTypes /\ SessionsLanded
  BY DEF StreamInv
<1>1. /\ StreamTypes' /\ SessionsLanded'
      /\ facts'["outcome_labels"] = InsertMissing(facts["outcome_labels"], LabRows(Selected))
      /\ \A u \in FactTables : u # "outcome_labels" => facts'[u] = facts[u]
      /\ \A row \in facts["strategy_evaluations"] : EvaluationWhole(row)'
  <2>1. "outcome_labels" \in FactTables
    BY DEF FactTables
  <2>2. Rows("outcome_labels") = LabRows(Selected)
    BY <1>0, SelectedRows, TableRows
  <2>3. Stage \in 1..7
    OBVIOUS
  <2> QED
    BY <2>1, <2>2, <2>3, MergeKeeps
<1>2. /\ facts'["feature_windows"] = facts["feature_windows"]
      /\ facts'["feature_snapshots"] = facts["feature_snapshots"]
      /\ facts'["strategy_evaluations"] = facts["strategy_evaluations"]
  BY <1>1 DEF FactTables
<1>3. Stage' = 4 /\ Selected' = Selected
  BY <1>0, NextStage
<1>4. /\ Selected = Selects[ToSet(job.found)] /\ ToSet(job.found) \in SUBSET Sessions
      /\ Selected \in SUBSET Sessions
      /\ Agree(facts["outcome_labels"], LabRows(Selected))
  <2>1. Agree(facts["outcome_labels"], Rows("outcome_labels"))
    BY Preflights DEF Compatible
  <2> QED
    BY <1>0, <2>1, SelectedRows, TableRows
<1>5. PICK found \in SUBSET Sessions : OneMatrix(Selects[found]) /\ OwnRows(Selects[found])
  BY DEF StreamInv
<1>6. PICK sel : sel = Selects[found] /\ OneMatrix(sel) /\ OwnRows(sel)
  BY <1>5
<1>7. /\ SnapRows(Selected) = SnapRows(sel) /\ facts["feature_windows"] = SnapRows(sel)
      /\ facts["feature_snapshots"] = SnapRows(sel) /\ sel \in SUBSET Sessions
  BY <1>5, <1>6, StreamAssumption DEF OwnRows
<1>8. /\ facts'["outcome_labels"] = LabRows(Selected)
      /\ \A row \in facts["strategy_evaluations"] : Read(row.body.evidence) = Read(Selected)
  <2>1. CASE facts["outcome_labels"] = {}
    BY <1>1, <1>6, <2>1, InsertSame DEF OneMatrix
  <2>2. CASE facts["outcome_labels"] # {}
    <3>1. facts["outcome_labels"] = LabRows(sel)
      BY <1>6, <2>2 DEF OneMatrix
    <3>2. Read(sel) = Read(Selected) /\ LabRows(sel) = LabRows(Selected)
      BY <1>4, <1>7, <3>1, SameSelection
    <3> QED
      BY <1>1, <1>6, <3>1, <3>2, InsertSame DEF OneMatrix
  <2> QED
    BY <2>1, <2>2
<1>9. OneMatrix(Selected)' /\ OwnRows(Selected)'
  <2>1. SnapRows(Selected) # {} /\ LabRows(Selected) # {}
    BY SnapRowsExist
  <2> QED
    BY <1>2, <1>3, <1>7, <1>8, <2>1 DEF OneMatrix, OwnRows
<1>10. /\ \A row \in facts'["feature_snapshots"] : \A s \in row.body : <<"sessions", s>> \in landed'
       /\ \A row \in facts'["strategy_evaluations"] : EvaluationWhole(row)'
  BY <1>1, <1>2 DEF StreamInv
<1>11. OneMatrix(Selects[ToSet(job.found)])' /\ OwnRows(Selects[ToSet(job.found)])'
  <2>1. job'.found = job.found
    BY <1>0 DEF StreamTypes
  <2> QED
    BY <1>3, <1>4, <1>9, <2>1
<1>12. \E new \in SUBSET Sessions : OneMatrix(Selects[new])' /\ OwnRows(Selects[new])'
  <2>1. job'.found = job.found
    BY <1>0 DEF StreamTypes
  <2> QED
    BY <1>4, <1>11, <2>1
<1> QED
  BY <1>1, <1>10, <1>12 DEF StreamInv

\* The merges after the labels leave the matrix's evidence alone.
LEMMA ResearchMerge ==
    ASSUME StreamInv, Stage \in 4..6, UNCHANGED <<delivered, landed, indexRevision>>,
           NEW t \in {"decision_contexts", "strategy_candidates", "candidate_arbitrations"},
           facts' = [facts EXCEPT ![t] = InsertMissing(facts[t], Rows(t))],
           job' = [job EXCEPT !.step = job.step + 1],
           Stage + 1 >= 5 => ContextRows \subseteq facts'["decision_contexts"],
           Stage + 1 = 5 => Agree(facts'["strategy_candidates"], CandidateRows),
           Stage + 1 >= 6 => CandidateRows \subseteq facts'["strategy_candidates"],
           Stage + 1 >= 7 => \A c \in 1..Clocks :
                               \E x \in facts'["candidate_arbitrations"] : x.key = Candidate(c)
    PROVE  StreamInv'
<1>0. StreamTypes
  BY DEF StreamInv
<1>1. t \in FactTables /\ Stage \in 1..7
  BY DEF FactTables
<1>2. /\ StreamTypes' /\ SessionsLanded'
      /\ \A u \in FactTables : u # t => facts'[u] = facts[u]
      /\ \A row \in facts["strategy_evaluations"] : EvaluationWhole(row)'
  BY <1>1, MergeKeeps
<1>3. /\ facts'["feature_windows"] = facts["feature_windows"]
      /\ facts'["feature_snapshots"] = facts["feature_snapshots"]
      /\ facts'["outcome_labels"] = facts["outcome_labels"]
      /\ facts'["strategy_evaluations"] = facts["strategy_evaluations"]
  BY <1>2 DEF FactTables
<1>4. /\ Stage' = Stage + 1 /\ Selected' = Selected /\ ContextRows' = ContextRows
      /\ CandidateRows' = CandidateRows /\ \A c : Candidate(c)' = Candidate(c)
  BY <1>0, NextStage
<1>5. PICK found \in SUBSET Sessions : OneMatrix(Selects[found]) /\ OwnRows(Selects[found])
  BY DEF StreamInv
<1>6. PICK sel : sel = Selects[found] /\ OneMatrix(sel) /\ OwnRows(sel)
  BY <1>5
<1>7. OneMatrix(sel)'
  BY <1>3, <1>6 DEF OneMatrix
<1>8. OwnRows(sel)'
  <2>1. /\ SnapRows(Selected) = SnapRows(sel) /\ facts["feature_windows"] = SnapRows(sel)
        /\ facts["feature_snapshots"] = SnapRows(sel)
        /\ Read(Selected) = Read(sel) /\ facts["outcome_labels"] = LabRows(sel)
    BY <1>6 DEF OwnRows
  <2> QED
    BY <1>3, <1>4, <2>1 DEF OwnRows
<1>9. /\ \A row \in facts'["feature_snapshots"] : \A s \in row.body : <<"sessions", s>> \in landed'
      /\ \A row \in facts'["strategy_evaluations"] : EvaluationWhole(row)'
  BY <1>2, <1>3 DEF StreamInv
<1> QED
  BY <1>2, <1>5, <1>6, <1>7, <1>8, <1>9 DEF StreamInv

LEMMA ContextsStep ==
    ASSUME StreamInv, Stage = 4, UNCHANGED <<delivered, landed, indexRevision>>,
           Compatible(PREFLIGHT["decision_contexts"]),
           facts' = [facts EXCEPT !["decision_contexts"] =
                        InsertMissing(facts["decision_contexts"], Rows("decision_contexts"))],
           job' = [job EXCEPT !.step = job.step + 1]
    PROVE  StreamInv'
<1>0. StreamTypes
  BY DEF StreamInv
<1>1. /\ "decision_contexts" \in FactTables /\ "strategy_candidates" \in FactTables
      /\ Stage \in 1..7
  BY DEF FactTables
<1>2. /\ facts'["decision_contexts"] =
            InsertMissing(facts["decision_contexts"], Rows("decision_contexts"))
      /\ facts'["strategy_candidates"] = facts["strategy_candidates"]
  BY <1>1, MergeKeeps
<1>3. /\ Agree(facts["decision_contexts"], Rows("decision_contexts"))
      /\ Agree(facts["strategy_candidates"], Rows("strategy_candidates"))
  BY Preflights DEF Compatible
<1>4. ContextRows \subseteq facts'["decision_contexts"]
  <2>1. /\ \A r \in facts["decision_contexts"] : r = Row(r.key, r.body)
        /\ \A r \in Rows("decision_contexts") : r = Row(r.key, r.body)
    BY <1>0, <1>1, RowSets DEF StreamTypes
  <2> QED
    BY <1>2, <1>3, <2>1, AllInserted, TableRows
<1>5. Agree(facts'["strategy_candidates"], CandidateRows)
  BY <1>2, <1>3, TableRows
<1> QED
  BY <1>4, <1>5, ResearchMerge

LEMMA CandidatesStep ==
    ASSUME StreamInv, Stage = 5, UNCHANGED <<delivered, landed, indexRevision>>,
           facts' = [facts EXCEPT !["strategy_candidates"] =
                        InsertMissing(facts["strategy_candidates"], Rows("strategy_candidates"))],
           job' = [job EXCEPT !.step = job.step + 1]
    PROVE  StreamInv'
<1>0. StreamTypes
  BY DEF StreamInv
<1>1. /\ "decision_contexts" \in FactTables /\ "strategy_candidates" \in FactTables
      /\ Stage \in 1..7
  BY DEF FactTables
<1>2. /\ facts'["strategy_candidates"] =
            InsertMissing(facts["strategy_candidates"], Rows("strategy_candidates"))
      /\ facts'["decision_contexts"] = facts["decision_contexts"]
  BY <1>1, MergeKeeps
<1>3. /\ ContextRows \subseteq facts["decision_contexts"]
      /\ Agree(facts["strategy_candidates"], CandidateRows)
  BY DEF StreamInv, OwnRows
<1>4. CandidateRows \subseteq facts'["strategy_candidates"]
  <2>1. /\ \A r \in facts["strategy_candidates"] : r = Row(r.key, r.body)
        /\ \A r \in Rows("strategy_candidates") : r = Row(r.key, r.body)
    BY <1>0, <1>1, RowSets DEF StreamTypes
  <2> QED
    BY <1>2, <1>3, <2>1, AllInserted, TableRows
<1> QED
  BY <1>2, <1>3, <1>4, ResearchMerge

LEMMA ArbitrationsStep ==
    ASSUME StreamInv, Stage = 6, UNCHANGED <<delivered, landed, indexRevision>>,
           facts' = [facts EXCEPT !["candidate_arbitrations"] =
              InsertMissing(facts["candidate_arbitrations"], Rows("candidate_arbitrations"))],
           job' = [job EXCEPT !.step = job.step + 1]
    PROVE  StreamInv'
<1>1. /\ "decision_contexts" \in FactTables /\ "strategy_candidates" \in FactTables
      /\ "candidate_arbitrations" \in FactTables /\ Stage \in 1..7
  BY DEF FactTables
<1>2. /\ facts'["candidate_arbitrations"] =
            InsertMissing(facts["candidate_arbitrations"], ArbitrationRows)
      /\ facts'["decision_contexts"] = facts["decision_contexts"]
      /\ facts'["strategy_candidates"] = facts["strategy_candidates"]
  BY <1>1, MergeKeeps, TableRows
<1>3. /\ ContextRows \subseteq facts["decision_contexts"]
      /\ CandidateRows \subseteq facts["strategy_candidates"]
  BY DEF StreamInv, OwnRows
<1>4. ASSUME NEW c \in 1..Clocks
      PROVE  \E x \in facts'["candidate_arbitrations"] : x.key = Candidate(c)
  <2> PICK new : new = Row(Candidate(c), [d \in 1..c |-> Candidate(d)])
    OBVIOUS
  <2>1. new \in ArbitrationRows /\ new.key = Candidate(c)
    BY RowFields DEF ArbitrationRows
  <2>2. CASE \A old \in facts["candidate_arbitrations"] : old.key # new.key
    BY <1>2, <2>1, <2>2 DEF InsertMissing
  <2>3. CASE \E old \in facts["candidate_arbitrations"] : old.key = new.key
    BY <1>2, <2>1, <2>3 DEF InsertMissing
  <2> QED
    BY <2>2, <2>3
<1> QED
  BY <1>2, <1>3, <1>4, ResearchMerge

\* The evaluation: everything it refers to is there.
LEMMA EvaluationsStep ==
    ASSUME StreamInv, Stage = 7, UNCHANGED <<delivered, landed, indexRevision>>,
           facts' = [facts EXCEPT !["strategy_evaluations"] =
              InsertMissing(facts["strategy_evaluations"], Rows("strategy_evaluations"))],
           job' = NoJob
    PROVE  StreamInv'
<1>0. StreamTypes
  BY DEF StreamInv
<1>1. "strategy_evaluations" \in FactTables /\ Stage \in 1..7
  BY DEF FactTables
<1>2. /\ StreamTypes' /\ SessionsLanded'
      /\ facts'["strategy_evaluations"] =
            InsertMissing(facts["strategy_evaluations"], EvaluationRows)
      /\ \A u \in FactTables : u # "strategy_evaluations" => facts'[u] = facts[u]
      /\ \A row \in facts["strategy_evaluations"] : EvaluationWhole(row)'
  BY <1>1, MergeKeeps, TableRows
<1>3. /\ facts'["feature_windows"] = facts["feature_windows"]
      /\ facts'["feature_snapshots"] = facts["feature_snapshots"]
      /\ facts'["outcome_labels"] = facts["outcome_labels"]
      /\ facts'["decision_contexts"] = facts["decision_contexts"]
      /\ facts'["strategy_candidates"] = facts["strategy_candidates"]
      /\ facts'["candidate_arbitrations"] = facts["candidate_arbitrations"]
  BY <1>2 DEF FactTables
<1>4. PICK found \in SUBSET Sessions : OneMatrix(Selects[found]) /\ OwnRows(Selects[found])
  BY DEF StreamInv
<1>5. PICK sel : sel = Selects[found] /\ OneMatrix(sel) /\ OwnRows(sel)
  BY <1>4
<1>6. /\ Read(Selected) = Read(sel) /\ facts["outcome_labels"] = LabRows(sel)
      /\ ContextRows \subseteq facts["decision_contexts"]
      /\ CandidateRows \subseteq facts["strategy_candidates"]
      /\ \A c \in 1..Clocks : \E x \in facts["candidate_arbitrations"] : x.key = Candidate(c)
  BY <1>5 DEF OwnRows
<1> PICK new : new = Row(DataMode, [evidence |-> Selected, index |-> Context(1)[2]])
  OBVIOUS
<1>7. /\ new.key = DataMode /\ new.body.evidence = Selected /\ new.body.index = Context(1)[2]
      /\ facts'["strategy_evaluations"] \subseteq facts["strategy_evaluations"] \cup {new}
  BY <1>2, <1>6, RowFields DEF EvaluationRows, InsertMissing
<1>8. Stage' = -1
  <2>1. job'.found = <<>> /\ job'.step = 0 /\ Len(job'.found) = 0
    BY DEF NoJob
  <2>2. LandingSteps' = 0
    BY <2>1, SessionNames DEF LandingSteps
  <2> QED
    BY <2>1, <2>2 DEF Stage
<1>9. OneMatrix(sel)' /\ OwnRows(sel)'
  <2>1. LabRows(sel) # {}
    BY SnapRowsExist
  <2>2. OneMatrix(sel)'
    BY <1>3, <1>5, <1>6, <1>7, <2>1 DEF OneMatrix
  <2> QED
    BY <1>8, <2>2 DEF OwnRows
<1>10. EvaluationWhole(new)'
  <2> SUFFICES ASSUME NEW c \in 1..Clocks
               PROVE  \E context \in facts["decision_contexts"] :
                         /\ context.key = <<c, new.key>> /\ context.body[2] = new.body.index
                         /\ Row(<<c, new.key, context.body>>, <<c, context.body>>)
                               \in facts["strategy_candidates"]
                         /\ \E x \in facts["candidate_arbitrations"] : x.key = <<c, context.body>>
    BY <1>3 DEF EvaluationWhole
  <2> PICK context : context = Row(<<c, DataMode>>, Context(c))
    OBVIOUS
  <2>1. context \in facts["decision_contexts"]
    BY <1>6 DEF ContextRows
  <2>2. context.key = <<c, DataMode>> /\ context.body = Context(c)
    BY RowFields
  <2>3. Context(c)[2] = Context(1)[2]
    BY DEF Context
  <2>4. Row(<<c, DataMode, Context(c)>>, <<c, Context(c)>>) \in facts["strategy_candidates"]
    BY <1>6 DEF CandidateRows, Candidate
  <2>5. \E x \in facts["candidate_arbitrations"] : x.key = <<c, Context(c)>>
    BY <1>6 DEF Candidate
  <2> QED
    BY <1>7, <2>1, <2>2, <2>3, <2>4, <2>5
<1>11. \A row \in facts'["strategy_evaluations"] : EvaluationWhole(row)'
  BY <1>2, <1>7, <1>10
<1>12. \A row \in facts'["feature_snapshots"] : \A s \in row.body : <<"sessions", s>> \in landed'
  BY <1>3 DEF StreamInv
<1> QED
  BY <1>2, <1>4, <1>5, <1>9, <1>11, <1>12 DEF StreamInv

LEMMA PublishFactsStep == ASSUME StreamInv, PublishFacts PROVE StreamInv'
<1>1. CASE facts' = facts /\ job' = NoJob
  BY <1>1, PublishEffects, JobEnds
<1>2. CASE ~(facts' = facts /\ job' = NoJob)
  <2>1. Stage = 1 => StreamInv'
    BY <1>2, PublishEffects, FactNames, WindowsStep
  <2>2. Stage = 2 => StreamInv'
    BY <1>2, PublishEffects, FactNames, SnapshotsStep
  <2>3. Stage = 3 => StreamInv'
    BY <1>2, PublishEffects, FactNames, LabelsStep
  <2>4. Stage = 4 => StreamInv'
    BY <1>2, PublishEffects, FactNames, ContextsStep
  <2>5. Stage = 5 => StreamInv'
    BY <1>2, PublishEffects, FactNames, CandidatesStep
  <2>6. Stage = 6 => StreamInv'
    BY <1>2, PublishEffects, FactNames, ArbitrationsStep
  <2>7. Stage = 7 => StreamInv'
    BY <1>2, PublishEffects, FactNames, EvaluationsStep
  <2>8. Stage \in 1..7
    BY PublishEffects
  <2> QED
    BY <2>1, <2>2, <2>3, <2>4, <2>5, <2>6, <2>7, <2>8
<1> QED
  BY <1>1, <1>2

LEMMA StreamStep == StreamInv /\ [StreamNext]_streamVars => StreamInv'
<1> SUFFICES ASSUME StreamInv, [StreamNext]_streamVars PROVE StreamInv'
  OBVIOUS
<1>0. delivered \subseteq Sessions
  BY DEF StreamInv, StreamTypes
<1>1. CASE UNCHANGED streamVars
  BY <1>0, <1>1, DeliverStep DEF streamVars
<1>2. ASSUME NEW s \in Sessions, DeliverManifest(s) PROVE StreamInv'
  BY <1>0, <1>2, DeliverStep DEF DeliverManifest
<1>3. CASE KillJob
  BY <1>3, JobEnds DEF KillJob
<1>4. CASE StreamNext
  BY <1>2, <1>3, <1>4, IndexStep, StartJobStep, LandSessionStep, CertifyStep, PublishFactsStep
     DEF StreamNext
<1> QED
  BY <1>1, <1>4

\* What is published of a trade date is whole and comes from one selection of sessions: a
\* snapshot has its windows and landed sessions, a label its snapshot, an evaluation the
\* contexts, candidates and arbitrations of every clock (stream_job.py; features.publish,
\* outcomes.publish, research.publish), whichever commit the job is killed after, however
\* often it is attempted again and whatever is delivered late or revised in between.  The
\* evidence of two evaluations may differ in sessions that begin after the last outcome is
\* decided, which nothing published reads.
THEOREM WholeMatrix == Spec => []ResearchMatrixWhole
<1>1. StreamInv => ResearchMatrixWhole
  <2> SUFFICES ASSUME StreamInv PROVE ResearchMatrixWhole
    OBVIOUS
  <2>1. PICK found \in SUBSET Sessions : OneMatrix(Selects[found])
    BY DEF StreamInv
  <2>2. PICK sel : sel = Selects[found] /\ OneMatrix(sel)
    BY <2>1
  <2>3. /\ facts["feature_snapshots"] \subseteq facts["feature_windows"]
        /\ facts["feature_snapshots"] \subseteq SnapRows(sel)
    BY <2>2 DEF OneMatrix
  <2>4. ASSUME NEW row \in facts["outcome_labels"]
        PROVE  Row(row.key[1], row.key[2]) \in facts["feature_snapshots"]
    <3>1. facts["feature_snapshots"] = SnapRows(sel) /\ row \in LabRows(sel)
      BY <2>2, <2>4 DEF OneMatrix
    <3>2. PICK c \in 1..Clocks : row = Row(<<c, Begun(sel, c)>>, Begun(sel, c + 1))
      BY <3>1 DEF LabRows
    <3>3. row.key = <<c, Begun(sel, c)>>
      BY <3>2, RowFields
    <3> QED
      BY <3>1, <3>3 DEF SnapRows
  <2>5. ParentsHaveChildren
    BY <2>3, <2>4 DEF StreamInv, ParentsHaveChildren, EvaluationWhole
  <2>6. ASSUME NEW row \in facts["feature_snapshots"]
        PROVE  row.body = Begun(Selects[found], row.key)
    <3>1. PICK c \in 1..Clocks : row = Row(c, Begun(sel, c))
      BY <2>3, <2>6 DEF SnapRows
    <3> QED
      BY <2>2, <3>1, RowFields
  <2>7. ASSUME NEW row \in facts["outcome_labels"]
        PROVE  row.body = Begun(Selects[found], row.key[1] + 1)
    <3>1. row \in LabRows(sel)
      BY <2>2, <2>7 DEF OneMatrix
    <3>2. PICK c \in 1..Clocks : row = Row(<<c, Begun(sel, c)>>, Begun(sel, c + 1))
      BY <3>1 DEF LabRows
    <3>3. row.key = <<c, Begun(sel, c)>> /\ row.body = Begun(sel, c + 1)
      BY <3>2, RowFields
    <3> QED
      BY <2>2, <3>3
  <2>8. OneEvidencePerDay
    BY <2>1, <2>6, <2>7 DEF OneEvidencePerDay, OneMatrix
  <2> QED
    BY <2>5, <2>8 DEF ResearchMatrixWhole
<1>2. StreamInv /\ [StreamNext]_streamVars => StreamInv'
  BY StreamStep
<1> QED
  BY <1>1, <1>2, StreamInitInv, StreamPart, PTL

-----------------------------------------------------------------------------
(***************************************************************************)
(* The REST tables.  BaseInv always holds: a run's manifest is put once,   *)
(* every row comes from the manifest of a run whose publications are       *)
(* landed, and how far the running publication has come says what it has   *)
(* committed.  OrderInv holds until a run is overtaken: its records were   *)
(* all received after those of every earlier run and no later run is       *)
(* published, so that what a publication finds in the tables is older than *)
(* what it brings.                                                         *)
(***************************************************************************)
LEMMA RestPart == Spec => RestInit /\ [][RestNext]_restVars
<1>1. Init => RestInit
  BY DEF Init
<1>2. [Next]_lakeVars => [RestNext]_restVars
  BY DEF Next, lakeVars, RunRest, RunStream, RunPromotion, RunArxiv, RunGithub, RunOcr
<1> QED
  BY <1>1, <1>2, PTL DEF Spec

MarketRequests == {"info", "summary", "daily", "minute", "master", "index_summary"}
IndexRequests == {"index_unavailable", "index_captured"}

RestTypes ==
    /\ provider = [info |-> provider.info, prices |-> provider.prices,
                   reference |-> provider.reference]
    /\ provider.info \in {0, 1} /\ provider.prices \in {0, 1} /\ provider.reference \in {0, 1}
    /\ now \in 0..Len(DayOf) /\ latest \in 0..Runs
    /\ task = [name |-> task.name, run |-> task.run, step |-> task.step, index |-> task.index]
    /\ store = [requests |-> store.requests, runs |-> store.runs]
    /\ store.requests = [r \in 1..Runs |-> store.requests[r]]
    /\ store.runs = [r \in 1..Runs |-> store.runs[r]]
    /\ lake = [records |-> lake.records, publications |-> lake.publications,
               securities |-> lake.securities, daily |-> lake.daily, bars |-> lake.bars,
               index_bars |-> lake.index_bars, indices |-> lake.indices]

TaskAtWork ==
    /\ task.name \in {"idle", "capture", "publish"}
    /\ task.name # "idle" => task.run \in 1..latest /\ now # 0
    /\ task.name = "capture" =>
         /\ task.index \in {None, 0, 1} /\ task.step \in 1..8 /\ store.runs[task.run] = None
         /\ \A i \in 1..(task.step - 1) :
               Requests(task.index)[i] \in DOMAIN store.requests[task.run]
    /\ task.name = "publish" => store.runs[task.run] # None /\ task.step \in 1..9

RequestsStored ==
    \A r \in 1..Runs : \A q \in DOMAIN store.requests[r] :
       /\ r <= latest /\ store.requests[r][q].at \in 1..now
       /\ q # "index_unavailable" => store.requests[r][q].value \in {0, 1}

\* A request record of an earlier run was received by an earlier attempt.
RequestsInOrder ==
    /\ \A r \in 1..Runs : \A q \in DOMAIN store.requests[r] :
          r < latest => store.requests[r][q].at < now
    /\ \A r, u \in 1..Runs : r < u =>
          \A q \in DOMAIN store.requests[r], p \in DOMAIN store.requests[u] :
             store.requests[r][q].at < store.requests[u][p].at

\* A run manifest names the scope's requests as they are stored.
Manifested(r) ==
    \E status \in IndexRequests :
       /\ DOMAIN store.runs[r] = MarketRequests \cup {status}
       /\ \A q \in MarketRequests \cup {status} :
             q \in DOMAIN store.requests[r] /\ store.runs[r][q] = store.requests[r][q]

ManifestsNameRequests == \A r \in 1..Runs : store.runs[r] # None => Manifested(r)

\* What a run brings to a table: its sources, and the value the reader sees.
Bring(table, capture) ==
    CASE table = "daily" -> [i \in 1..3 |-> <<capture["daily"], capture["master"],
                                              capture["summary"]>>[i].value]
      [] table = "bars" -> capture["minute"].value
      [] table = "index_bars" -> capture["index_captured"].value

Shown(table, capture) ==
    IF table = "daily" THEN capture["daily"].value ELSE Bring(table, capture)

\* A run whose request publications are landed: it may have rows in the curated tables.
Published(r) ==
    /\ r \in 1..Runs /\ store.runs[r] # None
    /\ \E p \in lake.publications : p[1] = r

FromRun(table, x) ==
    /\ Published(x.run)
    /\ x.source = Bring(table, store.runs[x.run]) /\ x.value = Shown(table, store.runs[x.run])
    /\ \E q \in DOMAIN store.runs[x.run] : x.at = store.runs[x.run][q].at

RevisionTables == {"daily", "bars", "index_bars"}

\* The revisions of one fact.
Numbered(rows) ==
    /\ IsFiniteSet(rows)
    /\ {x.rev : x \in rows} = 0 .. Cardinality(rows) - 1
    /\ \A x, y \in rows : x.source = y.source => x = y

InOrder(rows) == \A x, y \in rows : x.rev < y.rev => x.at < y.at

RowsAreRevisions ==
    \A table \in RevisionTables :
       Numbered(lake[table]) /\ \A x \in lake[table] : FromRun(table, x)

RowsInOrder == \A table \in RevisionTables : InOrder(lake[table])

PublicationsOfRuns == \A p \in lake.publications : p[1] \in 1..Runs

RecordsAreLanded ==
    \A x \in lake.records :
       /\ x = [run |-> x.run, request |-> x.request, record |-> x.record]
       /\ x.run \in 1..Runs /\ store.runs[x.run] # None
       /\ x.request \in DOMAIN store.runs[x.run] /\ x.record = store.runs[x.run][x.request]

InfoAt(r) == store.runs[r]["info"].at

\* A security row begins on the day it was received, and ends the day before another.
SecurityFromRun(s) ==
    /\ s = [from |-> s.from, to |-> s.to, info |-> s.info, at |-> s.at]
    /\ \E r \in 1..Runs : Published(r) /\ s.at = InfoAt(r)
    /\ s.from = DayOf[s.at]
    /\ s.to # None => /\ \E r \in 1..Runs : Published(r) /\ s.to = DayOf[InfoAt(r)] - 1
                      /\ s.from <= s.to

DoneHaveBars ==
    \A r \in done : /\ r \in 1..Runs /\ store.runs[r] # None
                    /\ \E b \in lake.bars : b.value = store.runs[r]["daily"].value

\* What the running publication has committed.
PublishedSoFar ==
    task.name = "publish" =>
       /\ task.step >= 2 => \A q \in DOMAIN Capture : Capture[q].value # None =>
             [run |-> task.run, request |-> q, record |-> Capture[q]] \in lake.records
       /\ task.step >= 3 => Published(task.run)
       /\ task.step >= 6 => Capture["minute"].value = Capture["daily"].value
       /\ task.step >= 8 => \E b \in lake.bars : b.value = Capture["daily"].value

LakeFromRuns ==
    /\ RowsAreRevisions /\ RecordsAreLanded /\ DoneHaveBars /\ PublicationsOfRuns
    /\ \A s \in lake.securities : SecurityFromRun(s)

BaseInv == RestTypes /\ TaskAtWork /\ RequestsStored /\ ManifestsNameRequests
           /\ LakeFromRuns /\ PublishedSoFar

\* Between its two commits a publication has left no open row that the new one overlaps,
\* unless the open row says the same.
OpenRowsYield(rows) ==
    \/ /\ \E s \in rows : s.to = None
       /\ \A s \in rows : s.to = None => s.info = Capture["info"].value
    \/ \A s \in rows : s.to = None => s.from = DayOf[InfoAt(task.run)]

\* The run at work is overtaken by no other.
NothingNewer ==
    /\ task.name = "capture" => task.run = latest
    /\ task.name = "publish" => \A p \in lake.publications : p[1] <= task.run
    /\ task.name = "publish" /\ task.step = 4 => OpenRowsYield(lake.securities)

OrderInv == NothingNewer /\ RequestsInOrder /\ RowsInOrder /\ OneCurrentSecurity

RestInv == BaseInv /\ (~overtaken => OrderInv)

LEMMA RestInitInv == RestInit => RestInv
<1> SUFFICES ASSUME RestInit PROVE RestInv
  OBVIOUS
<1>1. \A table \in RevisionTables : lake[table] = {}
  BY DEF RestInit, RevisionTables
<1>2. Numbered({}) /\ InOrder({})
  BY FS_EmptySet DEF Numbered, InOrder
<1>3. RestTypes
  BY RestAssumption DEF RestInit, RestTypes, Idle
<1>4. \A r \in 1..Runs : store.requests[r] = <<>> /\ store.runs[r] = None
  BY DEF RestInit
<1>5. RequestsStored /\ RequestsInOrder
  BY <1>4 DEF RequestsStored, RequestsInOrder
<1>6. TaskAtWork /\ PublishedSoFar /\ NothingNewer
  BY DEF RestInit, TaskAtWork, PublishedSoFar, NothingNewer, Idle
<1>7. RowsAreRevisions /\ RowsInOrder
  BY <1>1, <1>2 DEF RowsAreRevisions, RowsInOrder
<1>8. lake.records = {} /\ lake.securities = {} /\ lake.publications = {} /\ done = {}
  BY DEF RestInit
<1> QED
  BY <1>3, <1>4, <1>5, <1>6, <1>7, <1>8
     DEF RestInv, BaseInv, OrderInv, ManifestsNameRequests, LakeFromRuns, RecordsAreLanded,
         DoneHaveBars, PublicationsOfRuns, OneCurrentSecurity

LEMMA RequestNames ==
    ASSUME NEW index
    PROVE  /\ Requests(index) = [i \in 1..7 |-> Requests(index)[i]] /\ Len(Requests(index)) = 7
           /\ \E status \in IndexRequests :
                 /\ status = "index_unavailable" <=> index = None
                 /\ ToSet(Requests(index)) = MarketRequests \cup {status}
           /\ \A i \in 1..7 : Requests(index)[i] \in MarketRequests \cup IndexRequests
           /\ \A i \in 1..7 : Requests(index)[i] = "index_captured" => index # None
<1>1. PICK status \in IndexRequests :
         /\ status = IF index = None THEN "index_unavailable" ELSE "index_captured"
  BY DEF IndexRequests
<1>2. Requests(index) = <<"info", "summary", "daily", "minute", "master", "index_summary", status>>
  BY <1>1 DEF Requests
<1>3. ToSet(Requests(index)) = MarketRequests \cup {status}
  BY <1>2 DEF ToSet, MarketRequests
<1> QED
  BY <1>1, <1>2, <1>3 DEF MarketRequests, IndexRequests

\* What every run manifest holds.
LEMMA CaptureFacts ==
    ASSUME BaseInv, NEW r \in 1..Runs, store.runs[r] # None
    PROVE  /\ r \in 1..latest /\ MarketRequests \subseteq DOMAIN store.runs[r]
           /\ DOMAIN store.runs[r] \subseteq MarketRequests \cup IndexRequests
           /\ \A q \in DOMAIN store.runs[r] :
                 /\ q # "index_unavailable" => store.runs[r][q].value \in {0, 1}
                 /\ store.runs[r][q].at \in DOMAIN DayOf
<1>1. PICK status \in IndexRequests :
         /\ DOMAIN store.runs[r] = MarketRequests \cup {status}
         /\ \A q \in MarketRequests \cup {status} :
               q \in DOMAIN store.requests[r] /\ store.runs[r][q] = store.requests[r][q]
  BY DEF BaseInv, ManifestsNameRequests, Manifested
<1>2. /\ Runs \in Nat /\ Len(DayOf) \in Nat /\ DOMAIN DayOf = 1..Len(DayOf)
      /\ now \in 0..Len(DayOf) /\ latest \in 0..Runs
  BY RestAssumption DEF BaseInv, RestTypes
<1>3. r \in 1..latest
  <2>1. "info" \in DOMAIN store.requests[r]
    BY <1>1 DEF MarketRequests
  <2> QED
    BY <1>2, <2>1 DEF BaseInv, RequestsStored
<1>4. ASSUME NEW q \in DOMAIN store.runs[r]
      PROVE  /\ q # "index_unavailable" => store.runs[r][q].value \in {0, 1}
             /\ store.runs[r][q].at \in DOMAIN DayOf
  <2>1. q \in DOMAIN store.requests[r] /\ store.runs[r][q] = store.requests[r][q]
    BY <1>1
  <2> QED
    BY <1>2, <2>1 DEF BaseInv, RequestsStored
<1> QED
  BY <1>1, <1>3, <1>4

\* What the manifest of an earlier run names was received before what a later one's does.
LEMMA CapturesInOrder ==
    ASSUME BaseInv, OrderInv, NEW u \in 1..Runs, store.runs[u] # None,
           NEW r \in 1..Runs, store.runs[r] # None, u < r,
           NEW p \in DOMAIN store.runs[u], NEW q \in DOMAIN store.runs[r]
    PROVE  store.runs[u][p].at < store.runs[r][q].at
<1>1. Manifested(u) /\ Manifested(r)
  BY DEF BaseInv, ManifestsNameRequests
<1>2. q \in DOMAIN store.requests[r] /\ store.runs[r][q] = store.requests[r][q]
  BY <1>1 DEF Manifested
<1>3. p \in DOMAIN store.requests[u] /\ store.runs[u][p] = store.requests[u][p]
  BY <1>1 DEF Manifested
<1> QED
  BY <1>2, <1>3 DEF OrderInv, RequestsInOrder

\* After the first commit the landing view holds the run's records.
LEMMA LandedRecords ==
    ASSUME BaseInv, task.name = "publish", task.step >= 2,
           NEW q \in DOMAIN Capture, q # "index_unavailable"
    PROVE  Landed(q) = Capture[q]
<1>1. task.run \in 1..Runs /\ store.runs[task.run] # None /\ Capture = store.runs[task.run]
  BY RestAssumption DEF BaseInv, RestTypes, TaskAtWork, Capture
<1>2. Capture[q].value # None
  <2>1. Capture[q].value \in {0, 1}
    BY <1>1, CaptureFacts
  <2> QED
    BY <2>1, RestAssumption
<1>3. PICK x \in lake.records : x.run = task.run /\ x.request = q
  BY <1>2 DEF BaseInv, PublishedSoFar
<1>4. \A y \in lake.records : y.run = task.run /\ y.request = q => y.record = Capture[q]
  BY <1>1 DEF BaseInv, LakeFromRuns, RecordsAreLanded
<1>5. PICK y : y = (CHOOSE z \in lake.records : z.run = task.run /\ z.request = q)
  OBVIOUS
<1>6. y \in lake.records /\ y.run = task.run /\ y.request = q
  BY <1>3, <1>5
<1> QED
  BY <1>4, <1>5, <1>6 DEF Landed

LEMMA MaxOfThree ==
    ASSUME NEW a \in Nat, NEW b \in Nat, NEW c \in Nat
    PROVE  Max({a, b, c}) \in {a, b, c}
<1>1. \E x \in {a, b, c} : \A y \in {a, b, c} : x >= y
  <2>1. CASE a >= b /\ a >= c
    BY <2>1
  <2>2. CASE b >= a /\ b >= c
    BY <2>2
  <2>3. CASE c >= a /\ c >= b
    BY <2>3
  <2> QED
    BY <2>1, <2>2, <2>3
<1> QED
  BY <1>1 DEF Max

LEMMA MaxOfInterval ==
    ASSUME NEW n \in Nat PROVE Max(0 .. n) = n
<1>1. \A x \in 0..n : (\A y \in 0..n : x >= y) => x = n
  OBVIOUS
<1>2. n \in 0..n /\ \A y \in 0..n : n >= y
  OBVIOUS
<1>3. PICK m : m = (CHOOSE x \in 0..n : \A y \in 0..n : x >= y)
  OBVIOUS
<1>4. m \in 0..n /\ \A y \in 0..n : m >= y
  BY <1>2, <1>3
<1> QED
  BY <1>1, <1>3, <1>4 DEF Max

\* A source that is new takes the next number; the order is kept if it is the newest.
IsNewest(rows, source, at) == \A x \in rows : x.source = source \/ x.at < at

LEMMA RevisedStep ==
    ASSUME NEW rows, Numbered(rows), NEW source, NEW at, NEW value
    PROVE  /\ Numbered(Revised(rows, source, at, value))
           /\ InOrder(rows) /\ IsNewest(rows, source, at) =>
                 InOrder(Revised(rows, source, at, value))
<1>1. CASE \E x \in rows : x.source = source
  BY <1>1 DEF Revised
<1>2. CASE ~\E x \in rows : x.source = source
  <2>1. PICK n : n = Cardinality(rows)
    OBVIOUS
  <2>2. n \in Nat /\ (n = 0 <=> rows = {}) /\ {x.rev : x \in rows} = 0 .. n - 1
    BY <2>1, FS_CardinalityType, FS_EmptySet DEF Numbered
  <2>3. PICK new : new = [rev |-> n, source |-> source, at |-> at, value |-> value,
                          run |-> task.run]
    OBVIOUS
  <2>4. Revised(rows, source, at, value) = rows \cup {new}
    <3>1. CASE rows = {}
      BY <1>2, <2>2, <2>3, <3>1 DEF Revised
    <3>2. CASE rows # {}
      <4>1. n - 1 \in Nat /\ {x.rev : x \in rows} = 0 .. (n - 1)
        BY <2>2, <3>2
      <4>2. Max({x.rev : x \in rows}) = n - 1
        BY <4>1, MaxOfInterval
      <4>3. Max({x.rev : x \in rows}) + 1 = n
        BY <2>2, <4>2
      <4> QED
        BY <1>2, <2>3, <3>2, <4>3 DEF Revised
    <3> QED
      BY <3>1, <3>2
  <2>5. new.source = source /\ new.at = at /\ new.rev = n
    BY <2>3
  <2>6. new \notin rows
    BY <1>2, <2>5
  <2>7. IsFiniteSet(rows \cup {new}) /\ Cardinality(rows \cup {new}) = n + 1
    BY <2>1, <2>6, FS_AddElement DEF Numbered
  <2>8. {x.rev : x \in rows \cup {new}} = 0 .. (n + 1) - 1
    <3>1. {x.rev : x \in rows \cup {new}} = {x.rev : x \in rows} \cup {n}
      BY <2>5
    <3> QED
      BY <2>2, <3>1
  <2>9. \A x, y \in rows \cup {new} : x.source = y.source => x = y
    BY <1>2, <2>5 DEF Numbered
  <2>10. ASSUME InOrder(rows), IsNewest(rows, source, at) PROVE InOrder(rows \cup {new})
    <3> SUFFICES ASSUME NEW x \in rows \cup {new}, NEW y \in rows \cup {new}, x.rev < y.rev
                 PROVE  x.at < y.at
      BY DEF InOrder
    <3>1. CASE x \in rows /\ y \in rows
      BY <2>10, <3>1 DEF InOrder
    <3>2. CASE x \in rows /\ y = new
      BY <1>2, <2>5, <2>10, <3>2 DEF IsNewest
    <3>3. CASE x = new /\ y \in rows
      <4>1. y.rev \in 0 .. n - 1
        BY <2>2, <3>3
      <4> QED
        BY <2>2, <2>5, <3>3, <4>1
    <3>4. CASE x = new /\ y = new
      BY <2>2, <2>5, <3>4
    <3> QED
      BY <3>1, <3>2, <3>3, <3>4
  <2> QED
    BY <2>4, <2>7, <2>8, <2>9, <2>10 DEF Numbered
<1> QED
  BY <1>1, <1>2

\* A step that commits nothing, and does not touch a manifest that is there.
LEMMA LakeKept ==
    ASSUME BaseInv, UNCHANGED <<lake, done>>,
           \A r \in 1..Runs : store.runs[r] # None => store'.runs[r] = store.runs[r]
    PROVE  LakeFromRuns'
<1>0. \A r : Published(r) => Published(r)'
  BY DEF Published
<1>1. RowsAreRevisions'
  <2> SUFFICES ASSUME NEW table \in RevisionTables
               PROVE  /\ Numbered(lake'[table])
                      /\ \A x \in lake'[table] : FromRun(table, x)'
    BY DEF RowsAreRevisions
  <2>1. Numbered(lake[table]) /\ \A x \in lake[table] : FromRun(table, x)
    BY DEF BaseInv, LakeFromRuns, RowsAreRevisions
  <2>2. ASSUME NEW x \in lake[table] PROVE FromRun(table, x)'
    <3>1. FromRun(table, x)
      BY <2>1, <2>2
    <3>2. store'.runs[x.run] = store.runs[x.run] /\ Published(x.run)'
      BY <1>0, <3>1 DEF FromRun, Published
    <3> QED
      BY <3>1, <3>2 DEF FromRun
  <2> QED
    BY <2>1, <2>2
<1>2. RecordsAreLanded' /\ DoneHaveBars' /\ PublicationsOfRuns'
  BY DEF BaseInv, LakeFromRuns, RecordsAreLanded, DoneHaveBars, PublicationsOfRuns
<1>3. \A s \in lake'.securities : SecurityFromRun(s)'
  <2> SUFFICES ASSUME NEW s \in lake.securities PROVE SecurityFromRun(s)'
    OBVIOUS
  <2>1. SecurityFromRun(s)
    BY DEF BaseInv, LakeFromRuns
  <2>2. \A r \in 1..Runs : Published(r) => Published(r)' /\ InfoAt(r)' = InfoAt(r)
    BY <1>0 DEF InfoAt, Published
  <2> QED
    BY <2>1, <2>2 DEF SecurityFromRun
<1> QED
  BY <1>1, <1>2, <1>3 DEF LakeFromRuns

\* Steps that leave the stored objects alone.
LEMMA StoreKept ==
    ASSUME BaseInv, UNCHANGED <<store, lake, done>>, RestTypes', TaskAtWork', PublishedSoFar',
           latest' >= latest, now' >= now
    PROVE  BaseInv'
<1>1. now \in Int /\ latest \in Int /\ now' \in Int /\ latest' \in Int
  BY DEF BaseInv, RestTypes
<1>2. RequestsStored'
  <2> SUFFICES ASSUME NEW r \in 1..Runs, NEW q \in DOMAIN store.requests[r]
               PROVE  /\ r <= latest' /\ store.requests[r][q].at \in 1..now'
                      /\ q # "index_unavailable" => store.requests[r][q].value \in {0, 1}
    BY DEF RequestsStored
  <2>1. /\ r <= latest /\ store.requests[r][q].at \in 1..now
        /\ q # "index_unavailable" => store.requests[r][q].value \in {0, 1}
    BY DEF BaseInv, RequestsStored
  <2> QED
    BY <1>1, <2>1
<1>3. ManifestsNameRequests'
  BY DEF BaseInv, ManifestsNameRequests, Manifested
<1> QED
  BY <1>2, <1>3, LakeKept DEF BaseInv

\* Steps that receive no record and commit nothing.
LEMMA OrderKept ==
    ASSUME BaseInv, OrderInv, store'.requests = store.requests, lake' = lake, NothingNewer',
           (latest' = latest /\ now' >= now) \/ (latest' = latest + 1 /\ now' > now),
           now' \in Int
    PROVE  OrderInv'
<1>1. now \in Int /\ latest \in Int
  BY DEF BaseInv, RestTypes
<1>2. ASSUME NEW r \in 1..Runs, NEW q \in DOMAIN store.requests[r], r < latest'
      PROVE  store.requests[r][q].at < now'
  <2>1. /\ r <= latest /\ store.requests[r][q].at \in 1..now
        /\ r < latest => store.requests[r][q].at < now
    BY DEF BaseInv, RequestsStored, OrderInv, RequestsInOrder
  <2> QED
    BY <1>1, <1>2, <2>1
<1>3. RequestsInOrder'
  BY <1>2 DEF OrderInv, RequestsInOrder
<1>4. RowsInOrder' /\ OneCurrentSecurity'
  BY DEF OrderInv, RowsInOrder, InOrder, OneCurrentSecurity
<1> QED
  BY <1>3, <1>4 DEF OrderInv

LEMMA ReviseStep == RestInv /\ Revise => RestInv'
<1> SUFFICES ASSUME RestInv, Revise PROVE RestInv'
  OBVIOUS
<1>1. PICK field \in DOMAIN provider : provider' = [provider EXCEPT ![field] = 1 - @]
  BY DEF Revise
<1>2. RestTypes'
  <2>1. PICK i \in {0, 1}, p \in {0, 1}, f \in {0, 1} :
           provider = [info |-> i, prices |-> p, reference |-> f]
    BY DEF RestInv, BaseInv, RestTypes
  <2>2. \/ provider' = [info |-> 1 - i, prices |-> p, reference |-> f]
        \/ provider' = [info |-> i, prices |-> 1 - p, reference |-> f]
        \/ provider' = [info |-> i, prices |-> p, reference |-> 1 - f]
    <3>1. field \in {"info", "prices", "reference"}
      BY <2>1
    <3>2. provider' = [provider EXCEPT ![field] = 1 - provider[field]]
      BY <1>1
    <3>3. CASE field = "info"
      BY <2>1, <3>2, <3>3
    <3>4. CASE field = "prices"
      BY <2>1, <3>2, <3>4
    <3>5. CASE field = "reference"
      BY <2>1, <3>2, <3>5
    <3> QED
      BY <3>1, <3>3, <3>4, <3>5
  <2>3. /\ provider' = [info |-> provider'.info, prices |-> provider'.prices,
                         reference |-> provider'.reference]
        /\ provider'.info \in {0, 1} /\ provider'.prices \in {0, 1}
        /\ provider'.reference \in {0, 1}
    BY <2>2
  <2> QED
    BY <2>3 DEF Revise, RestInv, BaseInv, RestTypes
<1>3. TaskAtWork' /\ PublishedSoFar' /\ (OrderInv => NothingNewer')
  <2>1. \A r : Published(r) => Published(r)'
    BY DEF Revise, Published
  <2> QED
    BY <2>1 DEF Revise, RestInv, BaseInv, TaskAtWork, PublishedSoFar, Capture, OrderInv, NothingNewer,
                OpenRowsYield, InfoAt
<1>4. now \in Int /\ latest \in Int
  BY DEF RestInv, BaseInv, RestTypes
<1>5. BaseInv'
  BY <1>2, <1>3, <1>4, StoreKept DEF Revise, RestInv
<1>6. overtaken' = overtaken /\ (OrderInv => OrderInv')
  BY <1>3, <1>4, OrderKept DEF Revise, RestInv
<1> QED
  BY <1>5, <1>6 DEF RestInv

LEMMA KillTaskStep == RestInv /\ Kill => RestInv'
<1> SUFFICES ASSUME RestInv, Kill PROVE RestInv'
  OBVIOUS
<1>1. RestTypes'
  BY DEF Kill, RestInv, BaseInv, RestTypes, Idle
<1>2. TaskAtWork' /\ PublishedSoFar' /\ NothingNewer'
  BY DEF Kill, TaskAtWork, PublishedSoFar, NothingNewer, Idle
<1>3. now \in Int /\ latest \in Int
  BY DEF RestInv, BaseInv, RestTypes
<1>4. BaseInv'
  BY <1>1, <1>2, <1>3, StoreKept DEF Kill, RestInv
<1>5. overtaken' = overtaken /\ (OrderInv => OrderInv')
  BY <1>2, <1>3, OrderKept DEF Kill, RestInv
<1> QED
  BY <1>4, <1>5 DEF RestInv

LEMMA MaxOfTwo == ASSUME NEW a \in Int, NEW b \in Int, a <= b PROVE Max({a, b}) = b
<1>1. \A x \in {a, b} : (\A y \in {a, b} : x >= y) => x = b
  OBVIOUS
<1>2. b \in {a, b} /\ \A y \in {a, b} : b >= y
  OBVIOUS
<1>3. PICK m : m = (CHOOSE x \in {a, b} : \A y \in {a, b} : x >= y)
  OBVIOUS
<1>4. m \in {a, b} /\ \A y \in {a, b} : m >= y
  BY <1>2, <1>3
<1> QED
  BY <1>1, <1>3, <1>4 DEF Max

LEMMA MaxAtLeast == ASSUME NEW a \in Int, NEW b \in Int PROVE Max({a, b}) = IF a <= b THEN b ELSE a
<1>1. CASE a <= b
  BY <1>1, MaxOfTwo
<1>2. CASE ~(a <= b)
  <2>1. b <= a /\ {a, b} = {b, a}
    BY <1>2
  <2>2. Max({b, a}) = a
    BY <2>1, MaxOfTwo
  <2> QED
    BY <1>2, <2>1, <2>2
<1> QED
  BY <1>1, <1>2

\* An attempt of a capture: in order only if its run is the newest.
LEMMA StartCaptureStep == ASSUME RestInv, NEW r \in 1..Runs, StartCapture(r) PROVE RestInv'
<1>1. /\ Runs \in Nat \ {0} /\ Len(DayOf) \in Nat
      /\ now \in 0..Len(DayOf) /\ latest \in 0..Runs
  BY RestAssumption DEF RestInv, BaseInv, RestTypes
<1>2. r <= latest + 1
  BY <1>1 DEF StartCapture, Clearable
<1>3. /\ latest' \in 1..Runs /\ r <= latest' /\ latest' >= latest
      /\ r >= latest => latest' = r
      /\ latest' = latest \/ latest' = latest + 1
  <2>1. latest' = IF latest <= r THEN r ELSE latest
    BY <1>1, MaxAtLeast DEF StartCapture
  <2> QED
    BY <1>1, <1>2, <2>1
<1>4. now' = now + 1 /\ now' \in 1..Len(DayOf) /\ UNCHANGED <<provider, revisions, store, lake, done>>
  BY <1>1 DEF StartCapture, Begin
<1>5. \/ task' = Idle
      \/ /\ store.runs[r] = None
         /\ \E index \in {None, 0, 1} :
               task' = [name |-> "capture", run |-> r, step |-> 1, index |-> index]
  BY DEF StartCapture, RestInv, BaseInv, RestTypes
<1>6. overtaken' = (overtaken \/ (store.runs[r] = None /\ r < latest))
  BY DEF StartCapture
<1>7. RestTypes'
  BY <1>1, <1>3, <1>4, <1>5 DEF RestInv, BaseInv, RestTypes, Idle
<1>8. TaskAtWork' /\ PublishedSoFar'
  BY <1>1, <1>3, <1>4, <1>5 DEF TaskAtWork, PublishedSoFar, Idle
<1>9. BaseInv'
  BY <1>1, <1>3, <1>4, <1>7, <1>8, StoreKept DEF RestInv
<1>10. ASSUME ~overtaken' PROVE OrderInv'
  <2>1. ~overtaken /\ (store.runs[r] = None => r >= latest)
    <3>1. ~overtaken /\ ~(store.runs[r] = None /\ r < latest)
      BY <1>6, <1>10, Zenon
    <3>2. r \in Int /\ latest \in Int
      BY <1>1
    <3> QED
      BY <3>1, <3>2
  <2>2. OrderInv
    BY <2>1 DEF RestInv
  <2>3. NothingNewer'
    BY <1>3, <1>5, <2>1 DEF NothingNewer, Idle
  <2>4. (latest' = latest /\ now' >= now) \/ (latest' = latest + 1 /\ now' > now)
    BY <1>1, <1>3, <1>4
  <2> QED
    BY <1>4, <2>2, <2>3, <2>4, OrderKept DEF RestInv
<1> QED
  BY <1>9, <1>10 DEF RestInv

\* An attempt of a publication: in order only if no newer run is published.
LEMMA StartPublishStep == ASSUME RestInv, NEW r \in 1..Runs, StartPublish(r) PROVE RestInv'
<1>1. /\ Runs \in Nat \ {0} /\ Len(DayOf) \in Nat
      /\ now \in 0..Len(DayOf) /\ latest \in 0..Runs
  BY RestAssumption DEF RestInv, BaseInv, RestTypes
<1>2. r \in 1..latest /\ latest' = latest /\ store.runs[r] # None
  BY DEF StartPublish, Clearable
<1>3. now' = now + 1 /\ now' \in 1..Len(DayOf) /\ UNCHANGED <<provider, revisions, store, lake, done>>
  BY <1>1 DEF StartPublish, Begin
<1>4. task' = [name |-> "publish", run |-> r, step |-> 1, index |-> None]
  BY DEF StartPublish
<1>5. overtaken' = (overtaken \/ \E p \in lake.publications : p[1] > r)
  BY DEF StartPublish
<1>6. RestTypes'
  BY <1>1, <1>2, <1>3, <1>4 DEF RestInv, BaseInv, RestTypes
<1>7. TaskAtWork' /\ PublishedSoFar'
  BY <1>1, <1>2, <1>3, <1>4 DEF TaskAtWork, PublishedSoFar
<1>8. BaseInv'
  BY <1>1, <1>2, <1>3, <1>6, <1>7, StoreKept DEF RestInv
<1>9. ASSUME ~overtaken' PROVE OrderInv'
  <2>1. OrderInv /\ ~overtaken
    BY <1>5, <1>9 DEF RestInv
  <2>2. \A p \in lake.publications : p[1] <= r
    <3> SUFFICES ASSUME NEW p \in lake.publications PROVE p[1] <= r
      OBVIOUS
    <3>1. p[1] \in 1..Runs
      BY DEF RestInv, BaseInv, LakeFromRuns, PublicationsOfRuns
    <3>2. ~(p[1] > r)
      BY <1>5, <1>9
    <3> QED
      BY <1>1, <3>1, <3>2
  <2>3. NothingNewer'
    BY <1>3, <1>4, <2>2 DEF NothingNewer
  <2>4. latest' = latest /\ now' >= now
    BY <1>1, <1>2, <1>3
  <2> QED
    BY <1>3, <2>1, <2>3, <2>4, OrderKept DEF RestInv
<1> QED
  BY <1>8, <1>9 DEF RestInv

\* A request of the capture: its record is received now, unless it is there already.
LEMMA CaptureRequestStep == RestInv /\ _capture_request => RestInv'
<1> SUFFICES ASSUME RestInv, _capture_request PROVE RestInv'
  OBVIOUS
<1>0. PICK run : run = task.run
  OBVIOUS
<1>1. /\ task.name = "capture" /\ run = task.run /\ run \in 1..Runs /\ run <= latest
      /\ task.step \in 1..7 /\ task.index \in {None, 0, 1} /\ store.runs[run] = None
      /\ Runs \in Nat /\ now \in 1..Len(DayOf) /\ Len(DayOf) \in Nat
  <2>1. Len(Requests(task.index)) = 7
    BY RequestNames
  <2>2. Runs \in Nat \ {0} /\ Len(DayOf) \in Nat /\ now \in 0..Len(DayOf) /\ latest \in 0..Runs
    BY RestAssumption DEF RestInv, BaseInv, RestTypes
  <2>3. task.name = "capture" /\ task.step <= 7
    BY <2>1 DEF _capture_request
  <2>4. /\ run \in 1..latest /\ now # 0 /\ task.step \in 1..8
        /\ task.index \in {None, 0, 1} /\ store.runs[run] = None
    BY <1>0, <2>3 DEF RestInv, BaseInv, TaskAtWork
  <2> QED
    BY <1>0, <2>2, <2>3, <2>4
<1>2. PICK request : request = Requests(task.index)[task.step]
  OBVIOUS
<1>3. PICK received : received = [value |-> LoadPage(request), at |-> now]
  OBVIOUS
<1>4. /\ task' = [task EXCEPT !.step = @ + 1]
      /\ UNCHANGED <<provider, revisions, now, latest, lake, done, overtaken>>
      /\ store' = IF request \in DOMAIN store.requests[run] THEN store
                  ELSE [store EXCEPT !.requests[run] =
                          [q \in DOMAIN store.requests[run] \cup {request} |->
                              IF q = request THEN received ELSE store.requests[run][q]]]
  BY <1>1, <1>2, <1>3 DEF _capture_request, Reuses
<1>5. request # "index_unavailable" => received.value \in {0, 1}
  <2>1. request \in MarketRequests \cup IndexRequests
        /\ (request = "index_captured" => task.index # None)
    BY <1>1, <1>2, RequestNames
  <2>2. provider.info \in {0, 1} /\ provider.prices \in {0, 1} /\ provider.reference \in {0, 1}
    BY DEF RestInv, BaseInv, RestTypes
  <2>3. CASE request \in {"info", "master", "index_captured"}
    BY <1>1, <1>3, <2>1, <2>2, <2>3 DEF LoadPage
  <2>4. CASE request \in {"summary", "daily", "minute", "index_summary"}
    BY <1>3, <2>2, <2>4 DEF LoadPage
  <2> QED
    BY <2>1, <2>3, <2>4 DEF MarketRequests, IndexRequests
<1>6. /\ store' = [requests |-> store'.requests, runs |-> store.runs] /\ store'.runs = store.runs
      /\ store'.requests = [r \in 1..Runs |-> store'.requests[r]]
      /\ \A r \in 1..Runs : r # run => store'.requests[r] = store.requests[r]
      /\ DOMAIN store'.requests[run] = DOMAIN store.requests[run] \cup {request}
      /\ \A q \in DOMAIN store.requests[run] :
            store'.requests[run][q] = store.requests[run][q]
      /\ request \notin DOMAIN store.requests[run] => store'.requests[run][request] = received
  <2>1. CASE request \in DOMAIN store.requests[run]
    BY <1>4, <2>1 DEF RestInv, BaseInv, RestTypes
  <2>2. CASE request \notin DOMAIN store.requests[run]
    BY <1>1, <1>4, <2>2 DEF RestInv, BaseInv, RestTypes
  <2> QED
    BY <2>1, <2>2
<1>7. RestTypes'
  BY <1>4, <1>6 DEF RestInv, BaseInv, RestTypes
<1>8. TaskAtWork'
  <2>1. /\ task'.name = "capture" /\ task'.run = task.run /\ task'.index = task.index
        /\ task'.step = task.step + 1
    BY <1>1, <1>4 DEF RestInv, BaseInv, RestTypes
  <2>2. \A i \in 1..(task'.step - 1) :
           Requests(task'.index)[i] \in DOMAIN store'.requests[run]
    <3> SUFFICES ASSUME NEW i \in 1..task.step
                 PROVE  Requests(task.index)[i] \in DOMAIN store'.requests[run]
      BY <1>1, <2>1
    <3>1. CASE i = task.step
      BY <1>2, <1>6, <3>1
    <3>2. CASE i # task.step
      <4>1. i \in 1..(task.step - 1)
        BY <1>1, <3>2
      <4> QED
        BY <1>1, <1>6, <4>1 DEF RestInv, BaseInv, TaskAtWork
    <3> QED
      BY <3>1, <3>2
  <2> QED
    BY <1>1, <1>4, <1>6, <2>1, <2>2 DEF TaskAtWork
<1>9. ASSUME NEW r \in 1..Runs, NEW q \in DOMAIN store'.requests[r]
      PROVE  \/ q \in DOMAIN store.requests[r] /\ store'.requests[r][q] = store.requests[r][q]
             \/ r = run /\ q = request /\ store'.requests[r][q] = received
  BY <1>6, <1>9
<1>10. RequestsStored'
  <2> SUFFICES ASSUME NEW r \in 1..Runs, NEW q \in DOMAIN store'.requests[r]
               PROVE  /\ r <= latest /\ store'.requests[r][q].at \in 1..now
                      /\ q # "index_unavailable" => store'.requests[r][q].value \in {0, 1}
    BY <1>4 DEF RequestsStored
  <2>1. CASE q \in DOMAIN store.requests[r] /\ store'.requests[r][q] = store.requests[r][q]
    BY <2>1 DEF RestInv, BaseInv, RequestsStored
  <2>2. CASE r = run /\ q = request /\ store'.requests[r][q] = received
    BY <1>1, <1>3, <1>5, <2>2
  <2> QED
    BY <1>9, <2>1, <2>2
<1>11. ManifestsNameRequests'
  <2> SUFFICES ASSUME NEW r \in 1..Runs, store.runs[r] # None PROVE Manifested(r)'
    BY <1>6 DEF ManifestsNameRequests
  <2>1. r # run /\ Manifested(r)
    BY <1>1 DEF RestInv, BaseInv, ManifestsNameRequests
  <2> QED
    BY <1>6, <2>1 DEF Manifested
<1>12. LakeFromRuns'
  BY <1>4, <1>6, LakeKept DEF RestInv
<1>13. PublishedSoFar'
  BY <1>1, <1>4 DEF PublishedSoFar, RestInv, BaseInv, RestTypes
<1>14. BaseInv'
  BY <1>7, <1>8, <1>10, <1>11, <1>12, <1>13 DEF BaseInv
<1>15. ASSUME ~overtaken PROVE OrderInv'
  <2>1. OrderInv /\ run = latest /\ latest \in Int
    BY <1>0, <1>1, <1>15 DEF RestInv, BaseInv, RestTypes, OrderInv, NothingNewer
  <2>2. ASSUME NEW r \in 1..Runs, NEW q \in DOMAIN store'.requests[r], r < latest
        PROVE  /\ q \in DOMAIN store.requests[r] /\ store'.requests[r][q] = store.requests[r][q]
               /\ store'.requests[r][q].at < now
    <3>1. q \in DOMAIN store.requests[r] /\ store'.requests[r][q] = store.requests[r][q]
      BY <1>9, <2>1, <2>2
    <3> QED
      BY <2>1, <2>2, <3>1 DEF OrderInv, RequestsInOrder
  <2>3. ASSUME NEW r \in 1..Runs, NEW u \in 1..Runs, r < u,
               NEW q \in DOMAIN store'.requests[r], NEW p \in DOMAIN store'.requests[u]
        PROVE  store'.requests[r][q].at < store'.requests[u][p].at
    <3>1. u <= latest /\ r < latest
      <4>1. u <= latest
        BY <1>4, <1>10, <2>3 DEF RequestsStored
      <4> QED
        BY <2>1, <2>3, <4>1
    <3>2. /\ q \in DOMAIN store.requests[r] /\ store'.requests[r][q] = store.requests[r][q]
          /\ store'.requests[r][q].at < now
      BY <2>2, <2>3, <3>1
    <3>3. CASE p \in DOMAIN store.requests[u] /\ store'.requests[u][p] = store.requests[u][p]
      BY <2>1, <2>3, <3>2, <3>3 DEF OrderInv, RequestsInOrder
    <3>4. CASE u = run /\ p = request /\ store'.requests[u][p] = received
      BY <1>3, <3>2, <3>4
    <3> QED
      BY <1>9, <2>3, <3>3, <3>4
  <2>4. RequestsInOrder'
    <3>1. latest' = latest /\ now' = now
      BY <1>4
    <3>2. \A r \in 1..Runs : \A q \in DOMAIN store'.requests[r] :
             r < latest => store'.requests[r][q].at < now
      BY <2>2
    <3>3. \A r, u \in 1..Runs : r < u =>
             \A q \in DOMAIN store'.requests[r], p \in DOMAIN store'.requests[u] :
                store'.requests[r][q].at < store'.requests[u][p].at
      BY <2>3
    <3> QED
      BY <3>1, <3>2, <3>3, Zenon DEF RequestsInOrder
  <2>5. NothingNewer'
    <3>1. task'.name = "capture" /\ task'.run = task.run
      BY <1>1, <1>4 DEF RestInv, BaseInv, RestTypes
    <3> QED
      BY <1>0, <1>4, <2>1, <3>1 DEF NothingNewer
  <2>6. RowsInOrder' /\ OneCurrentSecurity'
    BY <1>4, <2>1 DEF OrderInv, RowsInOrder, InOrder, OneCurrentSecurity
  <2> QED
    BY <2>4, <2>5, <2>6 DEF OrderInv
<1> QED
  BY <1>4, <1>14, <1>15 DEF RestInv

LEMMA FinishCaptureStep == RestInv /\ FinishCapture => RestInv'
<1> SUFFICES ASSUME RestInv, FinishCapture PROVE RestInv'
  OBVIOUS
<1>0. PICK run : run = task.run
  OBVIOUS
<1>1. /\ task.name = "capture" /\ run = task.run /\ run \in 1..Runs /\ run <= latest
      /\ task.step = 8 /\ task.index \in {None, 0, 1} /\ store.runs[run] = None
      /\ Runs \in Nat /\ now \in 1..Len(DayOf) /\ Len(DayOf) \in Nat
  <2>1. Len(Requests(task.index)) = 7
    BY RequestNames
  <2>2. Runs \in Nat \ {0} /\ Len(DayOf) \in Nat /\ now \in 0..Len(DayOf) /\ latest \in 0..Runs
    BY RestAssumption DEF RestInv, BaseInv, RestTypes
  <2>3. task.name = "capture" /\ task.step = 8
    BY <2>1 DEF FinishCapture
  <2>4. /\ run \in 1..latest /\ now # 0 /\ task.step \in 1..8
        /\ task.index \in {None, 0, 1} /\ store.runs[run] = None
    BY <1>0, <2>3 DEF RestInv, BaseInv, TaskAtWork
  <2> QED
    BY <1>0, <2>2, <2>3, <2>4
<1>2. PICK status \in IndexRequests : ToSet(Requests(task.index)) = MarketRequests \cup {status}
  BY RequestNames
<1>3. PICK named : named = [q \in MarketRequests \cup {status} |-> store.requests[run][q]]
  OBVIOUS
<1>4. /\ store' = [store EXCEPT !.runs[run] = named] /\ task' = Idle
      /\ UNCHANGED <<provider, revisions, now, latest, lake, done, overtaken>>
  BY <1>1, <1>2, <1>3 DEF FinishCapture
<1>5. /\ store' = [requests |-> store.requests, runs |-> store'.runs]
      /\ store'.requests = store.requests
      /\ store'.runs = [r \in 1..Runs |-> store'.runs[r]]
      /\ store'.runs[run] = named
      /\ \A r \in 1..Runs : r # run => store'.runs[r] = store.runs[r]
  BY <1>1, <1>4 DEF RestInv, BaseInv, RestTypes
<1>6. RestTypes' /\ TaskAtWork' /\ PublishedSoFar'
  BY <1>4, <1>5 DEF RestInv, BaseInv, RestTypes, TaskAtWork, PublishedSoFar, Idle
<1>7. RequestsStored'
  BY <1>4, <1>5 DEF RestInv, BaseInv, RequestsStored
<1>8. MarketRequests \cup {status} \subseteq DOMAIN store.requests[run]
  <2>1. \A i \in 1..7 : Requests(task.index)[i] \in DOMAIN store.requests[run]
    BY <1>1 DEF RestInv, BaseInv, TaskAtWork
  <2>2. ToSet(Requests(task.index)) \subseteq DOMAIN store.requests[run]
    <3>1. DOMAIN Requests(task.index) = 1..7
      BY RequestNames
    <3> QED
      BY <2>1, <3>1 DEF ToSet
  <2> QED
    BY <1>2, <2>2
<1>9. ManifestsNameRequests'
  <2> SUFFICES ASSUME NEW r \in 1..Runs, store'.runs[r] # None PROVE Manifested(r)'
    BY DEF ManifestsNameRequests
  <2>1. CASE r = run
    BY <1>3, <1>5, <1>8, <2>1 DEF Manifested
  <2>2. CASE r # run
    <3>1. Manifested(r)
      BY <1>5, <2>2 DEF RestInv, BaseInv, ManifestsNameRequests
    <3> QED
      BY <1>5, <2>2, <3>1 DEF Manifested
  <2> QED
    BY <2>1, <2>2
<1>10. LakeFromRuns'
  BY <1>1, <1>4, <1>5, LakeKept DEF RestInv
<1>11. BaseInv'
  BY <1>6, <1>7, <1>9, <1>10 DEF BaseInv
<1>12. OrderInv => OrderInv'
  <2>1. NothingNewer' /\ now \in Int
    BY <1>1, <1>4 DEF NothingNewer, Idle
  <2>2. latest' = latest /\ now' >= now /\ now' \in Int
    BY <1>4, <2>1
  <2> QED
    BY <1>4, <1>5, <2>1, <2>2, OrderKept DEF RestInv
<1> QED
  BY <1>4, <1>11, <1>12 DEF RestInv

LEMMA PublishingRun ==
    ASSUME BaseInv, Publish
    PROVE  /\ task.name = "publish" /\ task.run \in 1..latest /\ task.run \in 1..Runs
           /\ store.runs[task.run] # None /\ Capture = store.runs[task.run]
           /\ task.step \in 1..9 /\ lake' = Commit(task.step, lake)
           /\ UNCHANGED <<provider, revisions, now, latest, store, overtaken>>
           /\ task' = [name |-> task'.name, run |-> task'.run, step |-> task'.step,
                       index |-> task'.index]
           /\ \/ task'.name = "idle"
              \/ /\ task'.name = "publish" /\ task'.run = task.run /\ task.step # 9
                 /\ task'.step = task.step + 1 /\ (task.step = 5 => Reconciles)
           /\ \A r \in done' : r \in done \/ (r = task.run /\ task.step = 9)
<1>1. Runs \in Nat \ {0} /\ latest \in 0..Runs
  BY RestAssumption DEF BaseInv, RestTypes
<1>2. /\ task.name = "publish" /\ task.run \in 1..latest
      /\ store.runs[task.run] # None /\ task.step \in 1..9
  BY DEF Publish, BaseInv, TaskAtWork
<1>3. task = [name |-> task.name, run |-> task.run, step |-> task.step, index |-> task.index]
  BY DEF BaseInv, RestTypes
<1>4. \/ task' = Idle
      \/ task.step # 9 /\ (task.step = 5 => Reconciles) /\ task' = [task EXCEPT !.step = task.step + 1]
  BY <1>2 DEF Publish, COMMITS
<1>5. /\ task' = [name |-> task'.name, run |-> task'.run, step |-> task'.step, index |-> task'.index]
      /\ \/ task'.name = "idle"
         \/ /\ task'.name = "publish" /\ task'.run = task.run /\ task.step # 9
            /\ task'.step = task.step + 1 /\ (task.step = 5 => Reconciles)
  BY <1>2, <1>3, <1>4 DEF Idle
<1> QED
  BY <1>1, <1>2, <1>5 DEF Publish, COMMITS, Capture

LEMMA Reconciled ==
    ASSUME BaseInv, task.name = "publish", task.step >= 2, Reconciles
    PROVE  Capture["minute"].value = Capture["daily"].value
<1>1. task.run \in 1..Runs /\ store.runs[task.run] # None /\ Capture = store.runs[task.run]
  BY RestAssumption DEF BaseInv, RestTypes, TaskAtWork, Capture
<1>2. "minute" \in DOMAIN Capture /\ "daily" \in DOMAIN Capture
  BY <1>1, CaptureFacts DEF MarketRequests
<1>3. Landed("minute") = Capture["minute"] /\ Landed("daily") = Capture["daily"]
  BY <1>2, LandedRecords
<1> QED
  BY <1>3 DEF Reconciles, _market_views

\* A commit keeps the invariant when the tables it leaves are again made of runs, and in order.
LEMMA CommitKeeps ==
    ASSUME RestInv, Publish, RowsAreRevisions', RecordsAreLanded',
           \A s \in lake'.securities : SecurityFromRun(s)',
           lake' = [records |-> lake'.records, publications |-> lake'.publications,
                    securities |-> lake'.securities, daily |-> lake'.daily,
                    bars |-> lake'.bars, index_bars |-> lake'.index_bars,
                    indices |-> lake'.indices],
           lake.records \subseteq lake'.records, lake.bars \subseteq lake'.bars,
           lake.publications \subseteq lake'.publications,
           \A p \in lake'.publications : p \in lake.publications \/ p[1] = task.run,
           task.step = 1 => \A q \in DOMAIN Capture : Capture[q].value # None =>
              [run |-> task.run, request |-> q, record |-> Capture[q]] \in lake'.records,
           task.step = 2 => \E p \in lake'.publications : p[1] = task.run,
           task.step = 7 => \E b \in lake'.bars : b.value = Capture["daily"].value,
           OrderInv => /\ RowsInOrder' /\ OneCurrentSecurity'
                       /\ task.step = 3 => OpenRowsYield(lake'.securities)
    PROVE  RestInv'
<1>0. BaseInv
  BY DEF RestInv
<1>1. /\ task.name = "publish" /\ task.run \in 1..latest /\ task.run \in 1..Runs
      /\ store.runs[task.run] # None /\ Capture = store.runs[task.run] /\ task.step \in 1..9
      /\ UNCHANGED <<provider, revisions, now, latest, store, overtaken>>
      /\ task' = [name |-> task'.name, run |-> task'.run, step |-> task'.step,
                  index |-> task'.index]
      /\ \/ task'.name = "idle"
         \/ /\ task'.name = "publish" /\ task'.run = task.run /\ task.step # 9
            /\ task'.step = task.step + 1 /\ (task.step = 5 => Reconciles)
      /\ \A r \in done' : r \in done \/ (r = task.run /\ task.step = 9)
  BY <1>0, PublishingRun
<1>2. RestTypes'
  BY <1>0, <1>1 DEF BaseInv, RestTypes
<1>3. TaskAtWork'
  <2>1. now # 0
    BY <1>0, <1>1 DEF BaseInv, TaskAtWork
  <2> QED
    BY <1>1, <2>1 DEF TaskAtWork
<1>4. RequestsStored' /\ ManifestsNameRequests'
  BY <1>0, <1>1 DEF BaseInv, RequestsStored, ManifestsNameRequests, Manifested
<1>5. DoneHaveBars' /\ PublicationsOfRuns'
  <2>1. ASSUME NEW r \in done'
        PROVE  /\ r \in 1..Runs /\ store.runs[r] # None
               /\ \E b \in lake'.bars : b.value = store.runs[r]["daily"].value
    <3>1. CASE r \in done
      BY <1>0, <3>1 DEF BaseInv, LakeFromRuns, DoneHaveBars
    <3>2. CASE r = task.run /\ task.step = 9
      BY <1>0, <1>1, <3>2 DEF BaseInv, PublishedSoFar
    <3> QED
      BY <1>1, <2>1, <3>1, <3>2
  <2>2. PublicationsOfRuns'
    BY <1>0, <1>1 DEF BaseInv, LakeFromRuns, PublicationsOfRuns
  <2> QED
    BY <1>1, <2>1, <2>2 DEF DoneHaveBars
<1>6. PublishedSoFar'
  <2>1. CASE task'.name = "idle"
    BY <2>1 DEF PublishedSoFar
  <2>2. CASE /\ task'.name = "publish" /\ task'.run = task.run /\ task.step # 9
             /\ task'.step = task.step + 1 /\ (task.step = 5 => Reconciles)
    <3>1. Capture' = Capture
      BY <1>1, <2>2 DEF Capture
    <3>2. \A q \in DOMAIN Capture : Capture[q].value # None =>
             [run |-> task.run, request |-> q, record |-> Capture[q]] \in lake'.records
      BY <1>0, <1>1 DEF BaseInv, PublishedSoFar
    <3>3. task.step >= 5 => Capture["minute"].value = Capture["daily"].value
      BY <1>0, <1>1, <2>2, Reconciled DEF BaseInv, PublishedSoFar
    <3>4. task.step >= 7 => \E b \in lake'.bars : b.value = Capture["daily"].value
      BY <1>0, <1>1 DEF BaseInv, PublishedSoFar
    <3>5. task.step >= 2 => Published(task.run)'
      <4>1. task.step >= 3 => Published(task.run)
        BY <1>0, <1>1 DEF BaseInv, PublishedSoFar
      <4>2. task.step >= 2 => \E p \in lake'.publications : p[1] = task.run
        BY <1>1, <4>1 DEF Published
      <4> QED
        BY <1>1, <2>2, <4>2 DEF Published
    <3> QED
      BY <1>1, <2>2, <3>1, <3>2, <3>3, <3>4, <3>5 DEF PublishedSoFar
  <2> QED
    BY <1>1, <2>1, <2>2
<1>7. BaseInv'
  BY <1>2, <1>3, <1>4, <1>5, <1>6 DEF BaseInv, LakeFromRuns
<1>8. ASSUME OrderInv PROVE OrderInv'
  <2>1. RowsInOrder' /\ OneCurrentSecurity' /\ (task.step = 3 => OpenRowsYield(lake'.securities))
    BY <1>8
  <2>2. RequestsInOrder'
    BY <1>1, <1>8 DEF OrderInv, RequestsInOrder
  <2>3. NothingNewer'
    <3>1. CASE task'.name = "idle"
      BY <3>1 DEF NothingNewer
    <3>2. CASE /\ task'.name = "publish" /\ task'.run = task.run
               /\ task'.step = task.step + 1
      <4>1. \A p \in lake'.publications : p[1] <= task'.run
        <5>1. task.run <= task.run
          BY <1>1
        <5> QED
          BY <1>1, <1>8, <3>2, <5>1 DEF OrderInv, NothingNewer
      <4>2. task'.step = 4 => OpenRowsYield(lake'.securities)
        BY <1>1, <2>1, <3>2
      <4>3. OpenRowsYield(lake'.securities) => OpenRowsYield(lake.securities)'
        BY <1>1, <3>2 DEF OpenRowsYield, Capture, InfoAt
      <4> QED
        BY <3>2, <4>1, <4>2, <4>3 DEF NothingNewer
    <3> QED
      BY <1>1, <3>1, <3>2
  <2> QED
    BY <2>1, <2>2, <2>3 DEF OrderInv
<1> QED
  BY <1>1, <1>7, <1>8 DEF RestInv

LEMMA SameRows ==
    ASSUME BaseInv, store' = store, lake.publications \subseteq lake'.publications,
           \A table \in RevisionTables : lake'[table] = lake[table]
    PROVE  RowsAreRevisions' /\ (OrderInv => RowsInOrder')
<1>1. ASSUME NEW table \in RevisionTables
      PROVE  Numbered(lake'[table]) /\ \A x \in lake'[table] : FromRun(table, x)'
  BY <1>1 DEF BaseInv, LakeFromRuns, RowsAreRevisions, FromRun, Published
<1>2. OrderInv => RowsInOrder'
  BY DEF OrderInv, RowsInOrder
<1> QED
  BY <1>1, <1>2 DEF RowsAreRevisions

LEMMA SameSecurities ==
    ASSUME BaseInv, store' = store, lake.publications \subseteq lake'.publications,
           lake'.securities = lake.securities
    PROVE  (\A s \in lake'.securities : SecurityFromRun(s)') /\ (OrderInv => OneCurrentSecurity')
<1>1. ASSUME NEW s \in lake'.securities PROVE SecurityFromRun(s)'
  <2>1. SecurityFromRun(s)
    BY <1>1 DEF BaseInv, LakeFromRuns
  <2>2. \A r \in 1..Runs : (Published(r) => Published(r)') /\ InfoAt(r)' = InfoAt(r)
    BY DEF Published, InfoAt
  <2> QED
    BY <2>1, <2>2 DEF SecurityFromRun
<1>2. OrderInv => OneCurrentSecurity'
  BY DEF OrderInv, OneCurrentSecurity
<1> QED
  BY <1>1, <1>2

LEMMA SameRecords ==
    ASSUME BaseInv, store' = store, lake'.records = lake.records PROVE RecordsAreLanded'
BY DEF BaseInv, LakeFromRuns, RecordsAreLanded

\* The landing, validation and index list commits.
LEMMA LandingCommits ==
    ASSUME RestInv, Publish, task.step \in {1, 2, 5, 9} PROVE RestInv'
<1>0. BaseInv
  BY DEF RestInv
<1>1. /\ task.run \in 1..Runs /\ store.runs[task.run] # None /\ Capture = store.runs[task.run]
      /\ store' = store /\ lake' = Commit(task.step, lake)
  BY <1>0, PublishingRun
<1>2. /\ \A table \in RevisionTables : lake'[table] = lake[table]
      /\ lake'.securities = lake.securities
      /\ lake' = [records |-> lake'.records, publications |-> lake'.publications,
                  securities |-> lake'.securities, daily |-> lake'.daily, bars |-> lake'.bars,
                  index_bars |-> lake'.index_bars, indices |-> lake'.indices]
      /\ task.step # 1 => lake'.records = lake.records
      /\ lake.publications \subseteq lake'.publications
      /\ \A p \in lake'.publications : p \in lake.publications \/ p[1] = task.run
      /\ task.step = 2 => \E p \in lake'.publications : p[1] = task.run
      /\ task.step = 1 => lake'.records = lake.records \cup
            {[run |-> task.run, request |-> q, record |-> Capture[q]] :
                q \in {q \in DOMAIN Capture : Capture[q].value # None}}
  <2>1. CASE task.step = 1
    <3>1. lake' = [lake EXCEPT !.records = lake.records \cup
            {[run |-> task.run, request |-> q, record |-> Capture[q]] :
                q \in {q \in DOMAIN Capture : Capture[q].value # None}}]
      BY <1>1, <2>1 DEF Commit, LandRecords
    <3>2. PICK rows : rows = lake.records \cup
            {[run |-> task.run, request |-> q, record |-> Capture[q]] :
                q \in {q \in DOMAIN Capture : Capture[q].value # None}}
      OBVIOUS
    <3>3. lake' = [lake EXCEPT !.records = rows]
      BY <3>1, <3>2
    <3>4. /\ lake'.records = rows /\ lake'.publications = lake.publications
          /\ lake'.securities = lake.securities /\ lake'.daily = lake.daily
          /\ lake'.bars = lake.bars /\ lake'.index_bars = lake.index_bars
          /\ lake' = [records |-> lake'.records, publications |-> lake'.publications,
                      securities |-> lake'.securities, daily |-> lake'.daily,
                      bars |-> lake'.bars, index_bars |-> lake'.index_bars,
                      indices |-> lake'.indices]
      BY <1>0, <3>3 DEF BaseInv, RestTypes
    <3> QED
      BY <2>1, <3>2, <3>4 DEF RevisionTables
  <2>2. CASE task.step = 2
    <3>1. PICK rows : rows = lake.publications \cup {<<task.run, q>> : q \in DOMAIN Capture}
      OBVIOUS
    <3>2. lake' = [lake EXCEPT !.publications = rows]
      BY <1>1, <2>2, <3>1 DEF Commit, LandPublications
    <3>3. /\ lake'.records = lake.records /\ lake'.securities = lake.securities
          /\ lake'.daily = lake.daily /\ lake'.bars = lake.bars
          /\ lake'.index_bars = lake.index_bars
          /\ lake' = [records |-> lake'.records, publications |-> lake'.publications,
                      securities |-> lake'.securities, daily |-> lake'.daily,
                      bars |-> lake'.bars, index_bars |-> lake'.index_bars,
                      indices |-> lake'.indices]
      BY <1>0, <3>2 DEF BaseInv, RestTypes
    <3>4. lake'.publications = rows
      BY <1>0, <3>2 DEF BaseInv, RestTypes
    <3>5. \E p \in rows : p[1] = task.run
      <4>1. "info" \in DOMAIN Capture
        BY <1>0, <1>1, CaptureFacts DEF MarketRequests
      <4>2. <<task.run, "info">> \in rows
        BY <3>1, <4>1
      <4> QED
        BY <4>2
    <3>6. \A p \in rows : p \in lake.publications \/ p[1] = task.run
      BY <3>1
    <3>7. lake.publications \subseteq rows
      BY <3>1
    <3> QED
      BY <2>2, <3>3, <3>4, <3>5, <3>6, <3>7 DEF RevisionTables
  <2>3. CASE task.step = 5
    BY <1>0, <1>1, <2>3 DEF Commit, BaseInv, RestTypes, RevisionTables
  <2>4. CASE task.step = 9
    <3>1. PICK rows : rows = lake.indices \cup {Landed("index_summary").value}
      OBVIOUS
    <3>2. lake' = [lake EXCEPT !.indices = rows]
      BY <1>1, <2>4, <3>1 DEF Commit, _publish_indices
    <3>3. /\ lake'.publications = lake.publications
          /\ lake'.records = lake.records /\ lake'.securities = lake.securities
          /\ lake'.daily = lake.daily /\ lake'.bars = lake.bars
          /\ lake'.index_bars = lake.index_bars
          /\ lake' = [records |-> lake'.records, publications |-> lake'.publications,
                      securities |-> lake'.securities, daily |-> lake'.daily,
                      bars |-> lake'.bars, index_bars |-> lake'.index_bars,
                      indices |-> lake'.indices]
      BY <1>0, <3>2 DEF BaseInv, RestTypes
    <3> QED
      BY <2>4, <3>3 DEF RevisionTables
  <2> QED
    BY <2>1, <2>2, <2>3, <2>4
<1>3. RecordsAreLanded'
  <2>1. CASE task.step = 1
    <3> SUFFICES ASSUME NEW x \in lake'.records
                 PROVE  /\ x = [run |-> x.run, request |-> x.request, record |-> x.record]
                        /\ x.run \in 1..Runs /\ store.runs[x.run] # None
                        /\ x.request \in DOMAIN store.runs[x.run]
                        /\ x.record = store.runs[x.run][x.request]
      BY <1>1 DEF RecordsAreLanded
    <3>1. CASE x \in lake.records
      BY <1>0, <3>1 DEF BaseInv, LakeFromRuns, RecordsAreLanded
    <3>2. CASE x \notin lake.records
      <4>1. PICK q \in DOMAIN Capture :
               x = [run |-> task.run, request |-> q, record |-> Capture[q]]
        BY <1>2, <2>1, <3>2
      <4> QED
        BY <1>1, <4>1
    <3> QED
      BY <3>1, <3>2
  <2>2. CASE task.step # 1
    BY <1>0, <1>1, <1>2, <2>2, SameRecords
  <2> QED
    BY <2>1, <2>2
<1>4. /\ RowsAreRevisions' /\ (\A s \in lake'.securities : SecurityFromRun(s)')
      /\ OrderInv => RowsInOrder' /\ OneCurrentSecurity'
  BY <1>0, <1>1, <1>2, SameRows, SameSecurities
<1>5. /\ lake.records \subseteq lake'.records
      /\ lake'.bars = lake.bars
      /\ task.step = 1 => \A q \in DOMAIN Capture : Capture[q].value # None =>
            [run |-> task.run, request |-> q, record |-> Capture[q]] \in lake'.records
  BY <1>2 DEF RevisionTables
<1> QED
  BY <1>2, <1>3, <1>4, <1>5, CommitKeeps

\* A table of revisions takes what the run brings, received with one of its requests.
LEMMA RevisionCommit ==
    ASSUME BaseInv, Publish, task.step >= 3,
           NEW table \in RevisionTables, NEW q \in DOMAIN Capture,
           lake'.publications = lake.publications,
           lake'[table] = Revised(lake[table], Bring(table, Capture), Capture[q].at,
                                  Shown(table, Capture)),
           \A t \in RevisionTables : t # table => lake'[t] = lake[t]
    PROVE  /\ RowsAreRevisions' /\ lake[table] \subseteq lake'[table]
           /\ \E x \in lake'[table] : x.source = Bring(table, Capture)
           /\ OrderInv => RowsInOrder'
<1>1. /\ task.name = "publish" /\ task.run \in 1..Runs /\ store.runs[task.run] # None
      /\ Capture = store.runs[task.run] /\ store' = store /\ Published(task.run)
  <2>1. /\ task.name = "publish" /\ task.run \in 1..Runs /\ store.runs[task.run] # None
        /\ Capture = store.runs[task.run] /\ store' = store
    BY PublishingRun
  <2> QED
    BY <2>1 DEF BaseInv, PublishedSoFar
<1>2. Numbered(lake[table]) /\ \A x \in lake[table] : FromRun(table, x)
  BY DEF BaseInv, LakeFromRuns, RowsAreRevisions
<1>3. PICK rows, source, at, value :
         /\ rows = lake[table] /\ source = Bring(table, Capture) /\ at = Capture[q].at
         /\ value = Shown(table, Capture)
  OBVIOUS
<1>4. ASSUME OrderInv PROVE IsNewest(rows, source, at)
  <2> SUFFICES ASSUME NEW x \in rows, x.run # task.run PROVE x.at < at
    BY <1>1, <1>2, <1>3 DEF IsNewest, FromRun
  <2>1. Published(x.run) /\ x.run \in 1..Runs /\ store.runs[x.run] # None
    BY <1>2, <1>3 DEF FromRun, Published
  <2>2. PICK u : u = x.run
    OBVIOUS
  <2>3. PICK p \in DOMAIN store.runs[u] : x.at = store.runs[u][p].at
    BY <1>2, <1>3, <2>2 DEF FromRun
  <2>4. u < task.run
    <3>1. PICK o \in lake.publications : o[1] = u
      BY <2>1, <2>2 DEF Published
    <3>2. o[1] <= task.run
      BY <1>1, <1>4, <3>1 DEF OrderInv, NothingNewer
    <3> QED
      BY <1>1, <2>1, <2>2, <3>1, <3>2
  <2>5. store.runs[u][p].at < store.runs[task.run][q].at
    BY <1>1, <1>4, <2>1, <2>2, <2>3, <2>4, CapturesInOrder
  <2> QED
    BY <1>1, <1>3, <2>3, <2>5
<1>5. /\ Numbered(Revised(rows, source, at, value))
      /\ InOrder(rows) /\ IsNewest(rows, source, at) => InOrder(Revised(rows, source, at, value))
  BY <1>2, <1>3, RevisedStep
<1>6. Numbered(lake'[table])
  BY <1>3, <1>5
<1>7. ASSUME NEW x \in lake'[table]
      PROVE  x \in lake[table] \/ (/\ x.run = task.run /\ x.source = source /\ x.at = at
                                   /\ x.value = value)
  BY <1>3, <1>7 DEF Revised
<1>8. lake[table] \subseteq lake'[table]
  BY <1>3 DEF Revised
<1>9. \E x \in lake'[table] : x.source = Bring(table, Capture)
  <2>1. CASE \E x \in rows : x.source = source
    BY <1>3, <1>8, <2>1
  <2>2. CASE ~\E x \in rows : x.source = source
    <3>1. PICK rev : rev = IF rows = {} THEN 0 ELSE Max({x.rev : x \in rows}) + 1
      OBVIOUS
    <3>2. PICK new : new = [rev |-> rev, source |-> source, at |-> at, value |-> value,
                            run |-> task.run]
      OBVIOUS
    <3>3. lake'[table] = rows \cup {new}
      BY <1>3, <2>2, <3>1, <3>2 DEF Revised
    <3> QED
      BY <1>3, <3>2, <3>3
  <2> QED
    BY <2>1, <2>2
<1>10. ASSUME NEW x \in lake'[table] PROVE FromRun(table, x)'
  <2>1. \A r : Published(r)' <=> Published(r)
    BY <1>1 DEF Published
  <2>2. CASE x \in lake[table]
    <3>1. FromRun(table, x)
      BY <1>2, <2>2
    <3> QED
      BY <1>1, <2>1, <3>1 DEF FromRun
  <2>3. CASE x \notin lake[table]
    <3>1. x.run = task.run /\ x.source = source /\ x.at = at /\ x.value = value
      BY <1>7, <1>10, <2>3
    <3> QED
      BY <1>1, <1>3, <2>1, <3>1 DEF FromRun
  <2> QED
    BY <2>2, <2>3
<1>11. ASSUME NEW t \in RevisionTables, t # table
       PROVE  Numbered(lake'[t]) /\ \A x \in lake'[t] : FromRun(t, x)'
  BY <1>1, <1>11 DEF BaseInv, LakeFromRuns, RowsAreRevisions, FromRun, Published
<1>12. OrderInv => RowsInOrder'
  <2> SUFFICES ASSUME OrderInv, NEW t \in RevisionTables PROVE InOrder(lake'[t])
    BY DEF RowsInOrder
  <2>1. \A u \in RevisionTables : InOrder(lake[u])
    BY DEF OrderInv, RowsInOrder
  <2>2. CASE t = table
    BY <1>3, <1>4, <1>5, <2>1, <2>2
  <2>3. CASE t # table
    BY <2>1, <2>3
  <2> QED
    BY <2>2, <2>3
<1> QED
  BY <1>6, <1>8, <1>9, <1>10, <1>11, <1>12 DEF RowsAreRevisions

\* The commits of the daily, minute and index bars.
LEMMA RevisionCommits ==
    ASSUME RestInv, Publish, task.step \in {6, 7, 8} PROVE RestInv'
<1>0. BaseInv
  BY DEF RestInv
<1>1. /\ task.name = "publish" /\ task.run \in 1..Runs /\ store.runs[task.run] # None
      /\ Capture = store.runs[task.run]
      /\ store' = store /\ lake' = Commit(task.step, lake)
  BY <1>0, PublishingRun
<1>2. {"daily", "master", "summary", "minute"} \subseteq DOMAIN Capture
  BY <1>0, <1>1, CaptureFacts DEF MarketRequests
<1>3. /\ Landed("daily") = Capture["daily"] /\ Landed("master") = Capture["master"]
      /\ Landed("summary") = Capture["summary"] /\ Landed("minute") = Capture["minute"]
  BY <1>0, <1>1, <1>2, LandedRecords
<1>4. CASE task.step = 6
  <2>1. PICK rows : rows = Revised(lake.daily, Bring("daily", Capture),
                      Max({Capture["daily"].at, Capture["master"].at, Capture["summary"].at}),
                      Capture["daily"].value)
    OBVIOUS
  <2>2. lake' = [lake EXCEPT !.daily = rows]
    <3>1. PICK parts : parts = <<Landed("daily"), Landed("master"), Landed("summary")>>
      OBVIOUS
    <3>2. parts = <<Capture["daily"], Capture["master"], Capture["summary"]>>
      BY <1>3, <3>1
    <3>3. [i \in DOMAIN parts |-> parts[i].value] = Bring("daily", Capture)
      BY <3>2 DEF Bring
    <3>4. {x.at : x \in ToSet(parts)}
             = {Capture["daily"].at, Capture["master"].at, Capture["summary"].at}
      <4>1. ToSet(parts) = {Capture["daily"], Capture["master"], Capture["summary"]}
        BY <3>2 DEF ToSet
      <4> QED
        BY <4>1
    <3>5. lake' = [lake EXCEPT !.daily =
                      Revised(lake.daily, [i \in DOMAIN parts |-> parts[i].value],
                              Max({x.at : x \in ToSet(parts)}), parts[1].value)]
      BY <1>1, <1>4, <3>1 DEF Commit, _publish_daily, _market_views
    <3>6. parts[1].value = Capture["daily"].value
      BY <3>2
    <3> QED
      BY <2>1, <3>3, <3>4, <3>5, <3>6
  <2>3. PICK q \in DOMAIN Capture : Capture[q].at =
           Max({Capture["daily"].at, Capture["master"].at, Capture["summary"].at})
    <3>1. /\ Capture["daily"].at \in Nat /\ Capture["master"].at \in Nat
          /\ Capture["summary"].at \in Nat
      <4>1. DOMAIN DayOf \subseteq Nat
        BY RestAssumption
      <4> QED
        BY <1>0, <1>1, <1>2, <4>1, CaptureFacts
    <3> QED
      BY <1>2, <3>1, MaxOfThree
  <2>4. /\ lake' = [records |-> lake'.records, publications |-> lake'.publications,
                    securities |-> lake'.securities, daily |-> lake'.daily,
                    bars |-> lake'.bars, index_bars |-> lake'.index_bars,
                    indices |-> lake'.indices]
        /\ lake'.publications = lake.publications /\ lake'.records = lake.records /\ lake'.securities = lake.securities
        /\ lake'.bars = lake.bars /\ lake'.index_bars = lake.index_bars /\ lake'.daily = rows
    BY <1>0, <2>2 DEF BaseInv, RestTypes
  <2>5. RowsAreRevisions' /\ (OrderInv => RowsInOrder')
    <3>1. "daily" \in RevisionTables /\ \A t \in RevisionTables : t # "daily" => lake'[t] = lake[t]
      BY <2>4 DEF RevisionTables
    <3>2. lake'["daily"] = Revised(lake["daily"], Bring("daily", Capture), Capture[q].at,
                                   Shown("daily", Capture))
      BY <2>1, <2>3, <2>4 DEF Shown
    <3> QED
      BY <1>0, <1>4, <2>4, <3>1, <3>2, RevisionCommit
  <2>6. /\ RecordsAreLanded' /\ (\A s \in lake'.securities : SecurityFromRun(s)')
        /\ OrderInv => OneCurrentSecurity'
    BY <1>0, <1>1, <2>4, SameRecords, SameSecurities
  <2> QED
    BY <1>1, <1>4, <2>4, <2>5, <2>6, CommitKeeps
<1>5. CASE task.step = 7
  <2>1. PICK rows : rows = Revised(lake.bars, Bring("bars", Capture), Capture["minute"].at,
                                   Shown("bars", Capture))
    OBVIOUS
  <2>2. lake' = [lake EXCEPT !.bars = rows]
    BY <1>1, <1>3, <1>5, <2>1 DEF Commit, _publish_bars, _market_views, Bring, Shown
  <2>3. /\ lake' = [records |-> lake'.records, publications |-> lake'.publications,
                    securities |-> lake'.securities, daily |-> lake'.daily,
                    bars |-> lake'.bars, index_bars |-> lake'.index_bars,
                    indices |-> lake'.indices]
        /\ lake'.publications = lake.publications /\ lake'.records = lake.records /\ lake'.securities = lake.securities
        /\ lake'.daily = lake.daily /\ lake'.index_bars = lake.index_bars /\ lake'.bars = rows
    BY <1>0, <2>2 DEF BaseInv, RestTypes
  <2>4. /\ RowsAreRevisions' /\ lake.bars \subseteq lake'.bars
        /\ \E b \in lake'.bars : b.source = Bring("bars", Capture)
        /\ OrderInv => RowsInOrder'
    <3>1. "bars" \in RevisionTables /\ \A t \in RevisionTables : t # "bars" => lake'[t] = lake[t]
      BY <2>3 DEF RevisionTables
    <3>2. lake'["bars"] = Revised(lake["bars"], Bring("bars", Capture), Capture["minute"].at,
                                  Shown("bars", Capture))
      BY <2>1, <2>3
    <3> QED
      BY <1>0, <1>2, <1>5, <2>3, <3>1, <3>2, RevisionCommit
  <2>5. \E b \in lake'.bars : b.value = Capture["daily"].value
    <3>1. PICK b \in lake'.bars : b.source = Bring("bars", Capture)
      BY <2>4
    <3>2. FromRun("bars", b)'
      BY <2>4 DEF RowsAreRevisions, RevisionTables
    <3>3. b.value = b.source
      BY <1>1, <3>2 DEF FromRun, Shown
    <3>4. Capture["minute"].value = Capture["daily"].value
      BY <1>0, <1>1, <1>5 DEF BaseInv, PublishedSoFar
    <3> QED
      BY <3>1, <3>3, <3>4 DEF Bring
  <2>6. /\ RecordsAreLanded' /\ (\A s \in lake'.securities : SecurityFromRun(s)')
        /\ OrderInv => OneCurrentSecurity'
    BY <1>0, <1>1, <2>3, SameRecords, SameSecurities
  <2> QED
    BY <1>1, <1>5, <2>3, <2>4, <2>5, <2>6, CommitKeeps
<1>6. CASE task.step = 8
  <2>1. CASE IndexStatus(Capture) = "index_unavailable"
    <3>1. lake' = lake
      BY <1>1, <1>6, <2>1 DEF Commit, _publish_index_bars
    <3>2. lake' = [records |-> lake'.records, publications |-> lake'.publications,
                   securities |-> lake'.securities, daily |-> lake'.daily,
                   bars |-> lake'.bars, index_bars |-> lake'.index_bars,
                   indices |-> lake'.indices]
      BY <1>0, <3>1 DEF BaseInv, RestTypes
    <3>3. /\ RecordsAreLanded' /\ (\A s \in lake'.securities : SecurityFromRun(s)')
          /\ RowsAreRevisions' /\ (OrderInv => RowsInOrder' /\ OneCurrentSecurity')
      BY <1>0, <1>1, <3>1, SameRows, SameRecords, SameSecurities
    <3> QED
      BY <1>1, <1>6, <3>1, <3>2, <3>3, CommitKeeps
  <2>2. CASE IndexStatus(Capture) # "index_unavailable"
    <3>1. "index_captured" \in DOMAIN Capture /\ Landed("index_captured") = Capture["index_captured"]
      BY <1>0, <1>1, <1>6, <2>2, LandedRecords DEF IndexStatus
    <3>2. PICK rows : rows = Revised(lake.index_bars, Bring("index_bars", Capture),
                               Capture["index_captured"].at, Shown("index_bars", Capture))
      OBVIOUS
    <3>3. lake' = [lake EXCEPT !.index_bars = rows]
      BY <1>1, <1>6, <2>2, <3>1, <3>2
         DEF Commit, _publish_index_bars, _market_views, Bring, Shown
    <3>4. /\ lake' = [records |-> lake'.records, publications |-> lake'.publications,
                      securities |-> lake'.securities, daily |-> lake'.daily,
                      bars |-> lake'.bars, index_bars |-> lake'.index_bars,
                      indices |-> lake'.indices]
          /\ lake'.publications = lake.publications /\ lake'.records = lake.records /\ lake'.securities = lake.securities
          /\ lake'.daily = lake.daily /\ lake'.bars = lake.bars /\ lake'.index_bars = rows
      BY <1>0, <3>3 DEF BaseInv, RestTypes
    <3>5. RowsAreRevisions' /\ (OrderInv => RowsInOrder')
      <4>1. /\ "index_bars" \in RevisionTables
            /\ \A t \in RevisionTables : t # "index_bars" => lake'[t] = lake[t]
        BY <3>4 DEF RevisionTables
      <4>2. lake'["index_bars"] = Revised(lake["index_bars"], Bring("index_bars", Capture),
                                          Capture["index_captured"].at,
                                          Shown("index_bars", Capture))
        BY <3>2, <3>4
      <4> QED
        BY <1>0, <1>6, <3>1, <3>4, <4>1, <4>2, RevisionCommit
    <3>6. /\ RecordsAreLanded' /\ (\A s \in lake'.securities : SecurityFromRun(s)')
          /\ OrderInv => OneCurrentSecurity'
      BY <1>0, <1>1, <3>4, SameRecords, SameSecurities
    <3> QED
      BY <1>1, <1>6, <3>4, <3>5, <3>6, CommitKeeps
  <2> QED
    BY <2>1, <2>2
<1> QED
  BY <1>4, <1>5, <1>6

LEMMA DaysInOrder ==
    /\ DOMAIN DayOf \subseteq Nat /\ \A t \in DOMAIN DayOf : DayOf[t] \in Nat
    /\ \A t, u \in DOMAIN DayOf : t <= u => DayOf[t] <= DayOf[u]
<1>1. DayOf \in Seq(Nat) /\ DOMAIN DayOf \subseteq Nat
  BY RestAssumption
<1>2. ASSUME NEW t \in DOMAIN DayOf, NEW u \in DOMAIN DayOf, t <= u
      PROVE  DayOf[t] <= DayOf[u]
  <2>1. CASE t = u
    BY <1>1, <2>1
  <2>2. CASE t < u
    BY <2>2, RestAssumption
  <2> QED
    BY <1>1, <1>2, <2>1, <2>2
<1> QED
  BY <1>1, <1>2

\* The day a run received the security on.
LEMMA InfoDay ==
    ASSUME BaseInv, NEW r \in 1..Runs, store.runs[r] # None
    PROVE  InfoAt(r) \in DOMAIN DayOf /\ InfoAt(r) \in Nat /\ DayOf[InfoAt(r)] \in Nat
<1>1. "info" \in DOMAIN store.runs[r]
  BY CaptureFacts DEF MarketRequests
<1>2. InfoAt(r) \in DOMAIN DayOf
  BY <1>1, CaptureFacts DEF InfoAt
<1> QED
  BY <1>2, DaysInOrder

LEMMA CandidateIs ==
    ASSUME BaseInv, task.name = "publish", task.step >= 2
    PROVE  /\ SecurityCandidate = [from |-> DayOf[InfoAt(task.run)], to |-> None,
                                   info |-> Capture["info"].value, at |-> InfoAt(task.run)]
           /\ DayOf[InfoAt(task.run)] \in Nat /\ InfoAt(task.run) \in Nat
<1>1. /\ task.run \in 1..Runs /\ store.runs[task.run] # None
      /\ Capture = store.runs[task.run]
  BY RestAssumption DEF BaseInv, RestTypes, TaskAtWork, Capture
<1>2. Landed("info") = Capture["info"]
  BY <1>1, CaptureFacts, LandedRecords DEF MarketRequests
<1>3. SecurityCandidate = [from |-> DayOf[InfoAt(task.run)], to |-> None,
                           info |-> Capture["info"].value, at |-> InfoAt(task.run)]
  BY <1>1, <1>2 DEF SecurityCandidate, InfoAt
<1> QED
  BY <1>1, <1>3, InfoDay

\* Every row begins on a day, and a closed one ends no earlier.
LEMMA SecurityDays ==
    ASSUME BaseInv, NEW s \in lake.securities
    PROVE  s.from \in Nat /\ (s.to # None => s.to \in Int /\ s.from <= s.to)
<1>1. SecurityFromRun(s)
  BY DEF BaseInv, LakeFromRuns
<1>2. PICK r \in 1..Runs : Published(r) /\ s.at = InfoAt(r)
  BY <1>1 DEF SecurityFromRun
<1>3. s.from \in Nat
  BY <1>1, <1>2, InfoDay DEF SecurityFromRun, Published
<1>4. ASSUME s.to # None PROVE s.to \in Int /\ s.from <= s.to
  <2>1. PICK u \in 1..Runs : Published(u) /\ s.to = DayOf[InfoAt(u)] - 1
    BY <1>1, <1>4 DEF SecurityFromRun
  <2>2. DayOf[InfoAt(u)] \in Nat
    BY <2>1, InfoDay DEF Published
  <2> QED
    BY <1>1, <1>4, <2>1, <2>2 DEF SecurityFromRun
<1> QED
  BY <1>3, <1>4

\* The captured security is no older than the rows, and the closed ones ended before it.
LEMMA CandidateIsNewest ==
    ASSUME BaseInv, OrderInv, task.name = "publish", NEW s \in lake.securities
    PROVE  /\ s.from <= DayOf[InfoAt(task.run)]
           /\ s.to # None => s.to < DayOf[InfoAt(task.run)]
<1>1. /\ task.run \in 1..Runs /\ store.runs[task.run] # None
  BY RestAssumption DEF BaseInv, RestTypes, TaskAtWork
<1>2. ASSUME NEW r \in 1..Runs, Published(r)
      PROVE  /\ DayOf[InfoAt(r)] \in Nat /\ DayOf[InfoAt(task.run)] \in Nat
             /\ DayOf[InfoAt(r)] <= DayOf[InfoAt(task.run)]
  <2>1. /\ InfoAt(r) \in DOMAIN DayOf /\ InfoAt(task.run) \in DOMAIN DayOf
        /\ InfoAt(r) \in Nat /\ InfoAt(task.run) \in Nat
        /\ DayOf[InfoAt(r)] \in Nat /\ DayOf[InfoAt(task.run)] \in Nat
    BY <1>1, <1>2, InfoDay DEF Published
  <2>2. r <= task.run
    <3>1. PICK p \in lake.publications : p[1] = r
      BY <1>2 DEF Published
    <3> QED
      BY <3>1 DEF OrderInv, NothingNewer
  <2>3. CASE r = task.run
    BY <2>1, <2>3
  <2>4. CASE r # task.run
    <3>1. r < task.run
      BY <1>1, <2>2, <2>4
    <3>2. "info" \in DOMAIN store.runs[r] /\ "info" \in DOMAIN store.runs[task.run]
      BY <1>1, <1>2, CaptureFacts DEF Published, MarketRequests
    <3>3. InfoAt(r) < InfoAt(task.run)
      BY <1>1, <1>2, <3>1, <3>2, CapturesInOrder DEF InfoAt, Published
    <3>4. InfoAt(r) <= InfoAt(task.run)
      BY <2>1, <3>3
    <3> QED
      BY <2>1, <3>4, DaysInOrder
  <2> QED
    BY <2>3, <2>4
<1>3. SecurityFromRun(s)
  BY DEF BaseInv, LakeFromRuns
<1>4. s.from <= DayOf[InfoAt(task.run)]
  <2>1. PICK r \in 1..Runs : Published(r) /\ s.at = InfoAt(r)
    BY <1>3 DEF SecurityFromRun
  <2> QED
    BY <1>2, <1>3, <2>1 DEF SecurityFromRun
<1>5. ASSUME s.to # None PROVE s.to < DayOf[InfoAt(task.run)]
  <2>1. PICK u \in 1..Runs : Published(u) /\ s.to = DayOf[InfoAt(u)] - 1
    BY <1>3, <1>5 DEF SecurityFromRun
  <2>2. /\ DayOf[InfoAt(u)] \in Nat /\ DayOf[InfoAt(task.run)] \in Nat
        /\ DayOf[InfoAt(u)] <= DayOf[InfoAt(task.run)]
    BY <1>2, <2>1
  <2> QED
    BY <2>1, <2>2
<1> QED
  BY <1>4, <1>5

\* No two rows are effective on one day.
Disjoint(rows) ==
    \A s, t \in rows : s # t => \/ s.to # None /\ s.to < t.from
                                \/ t.to # None /\ t.to < s.from

\* Both commits of the securities leave the other tables alone.
LEMMA SecurityCommitKeeps ==
    ASSUME RestInv, Publish, task.step \in {3, 4}, NEW rows,
           lake' = [lake EXCEPT !.securities = rows],
           \A s \in rows : SecurityFromRun(s),
           OrderInv => Disjoint(rows) /\ (task.step = 3 => OpenRowsYield(rows))
    PROVE  RestInv'
<1>0. BaseInv
  BY DEF RestInv
<1>1. store' = store
  BY <1>0, PublishingRun
<1>2. /\ lake' = [records |-> lake'.records, publications |-> lake'.publications,
                  securities |-> lake'.securities, daily |-> lake'.daily,
                  bars |-> lake'.bars, index_bars |-> lake'.index_bars,
                  indices |-> lake'.indices]
      /\ lake'.publications = lake.publications
      /\ lake'.records = lake.records /\ lake'.securities = rows
      /\ lake'.daily = lake.daily /\ lake'.bars = lake.bars /\ lake'.index_bars = lake.index_bars
  BY <1>0 DEF BaseInv, RestTypes
<1>3. RowsAreRevisions' /\ RecordsAreLanded' /\ (OrderInv => RowsInOrder')
  BY <1>0, <1>1, <1>2, SameRows, SameRecords DEF RevisionTables
<1>4. \A s \in lake'.securities : SecurityFromRun(s)'
  BY <1>1, <1>2 DEF SecurityFromRun, InfoAt, Published
<1>5. OrderInv => OneCurrentSecurity'
  BY <1>2 DEF OneCurrentSecurity, Disjoint
<1>6. OrderInv /\ task.step = 3 => OpenRowsYield(lake'.securities)
  BY <1>2
<1> QED
  BY <1>2, <1>3, <1>4, <1>5, <1>6, CommitKeeps

\* The open row, unless it is of the same day or says the same, ends the day before.
LEMMA CloseCommit == ASSUME RestInv, Publish, task.step = 3 PROVE RestInv'
<1>0. BaseInv
  BY DEF RestInv
<1>1. /\ task.name = "publish" /\ task.run \in 1..Runs /\ store.runs[task.run] # None
      /\ lake' = Commit(task.step, lake) /\ Published(task.run)
  <2>1. /\ task.name = "publish" /\ task.run \in 1..Runs /\ store.runs[task.run] # None
        /\ lake' = Commit(task.step, lake)
    BY <1>0, PublishingRun
  <2> QED
    BY <1>0, <2>1 DEF BaseInv, PublishedSoFar
<1>2. PICK from, info : from = DayOf[InfoAt(task.run)] /\ info = Capture["info"].value
  OBVIOUS
<1>3. SecurityCandidate.from = from /\ SecurityCandidate.info = info /\ from \in Nat
  BY <1>0, <1>1, <1>2, CandidateIs
<1>4. (\A s \in lake.securities : SecurityFromRun(s)) /\ (OrderInv => Disjoint(lake.securities))
  BY <1>0 DEF BaseInv, LakeFromRuns, OrderInv, OneCurrentSecurity, Disjoint
<1>5. CASE ~SecurityChanged(SecurityCandidate)
  <2>1. lake' = lake
    BY <1>1, <1>5 DEF Commit, CloseSecurity
  <2>2. PICK rows : rows = lake.securities
    OBVIOUS
  <2>3. lake' = [lake EXCEPT !.securities = rows]
    BY <1>0, <2>1, <2>2 DEF BaseInv, RestTypes
  <2>4. OpenRowsYield(rows)
    BY <1>2, <1>3, <1>5, <2>2 DEF SecurityChanged, OpenRowsYield
  <2> QED
    BY <1>4, <2>2, <2>3, <2>4, SecurityCommitKeeps
<1>6. CASE SecurityChanged(SecurityCandidate)
  <2> DEFINE Closed(s) == IF s.to = None /\ s.from < from THEN [s EXCEPT !.to = from - 1] ELSE s
  <2>1. PICK rows : rows = {Closed(s) : s \in lake.securities}
    OBVIOUS
  <2>2. lake' = [lake EXCEPT !.securities = rows]
    BY <1>1, <1>3, <1>6, <2>1 DEF Commit, CloseSecurity
  <2>3. None \notin Int /\ from - 1 \in Int
    BY <1>3, RestAssumption
  <2>4. ASSUME NEW s \in lake.securities
        PROVE  /\ Closed(s).from = s.from /\ (s.to # None => Closed(s) = s)
               /\ Closed(s).to = None => s.to = None /\ ~(s.from < from) /\ Closed(s) = s
               /\ Closed(s) # s => Closed(s).to = from - 1 /\ s.from < from
               /\ Closed(s) = [from |-> Closed(s).from, to |-> Closed(s).to,
                               info |-> Closed(s).info, at |-> Closed(s).at]
               /\ Closed(s).at = s.at
    <3>1. s = [from |-> s.from, to |-> s.to, info |-> s.info, at |-> s.at]
      BY <1>4 DEF SecurityFromRun
    <3>3. CASE s.to = None /\ s.from < from
      BY <2>3, <3>1, <3>3
    <3>4. CASE ~(s.to = None /\ s.from < from)
      BY <3>1, <3>4
    <3> QED
      BY <3>3, <3>4
  <2> HIDE DEF Closed
  <2>5. \A s \in rows : SecurityFromRun(s)
    <3> SUFFICES ASSUME NEW s \in lake.securities PROVE SecurityFromRun(Closed(s))
      BY <2>1
    <3>1. CASE Closed(s) = s
      BY <1>4, <3>1
    <3>2. CASE Closed(s) # s
      <4>1. Closed(s).to = DayOf[InfoAt(task.run)] - 1 /\ s.from <= from - 1
        <5>1. s.from \in Nat
          BY <1>0, SecurityDays
        <5> QED
          BY <1>2, <1>3, <2>4, <3>2, <5>1
      <4> QED
        BY <1>1, <1>2, <1>4, <2>4, <3>2, <4>1 DEF SecurityFromRun
    <3> QED
      BY <3>1, <3>2
  <2>6. ASSUME OrderInv PROVE Disjoint(rows) /\ OpenRowsYield(rows)
    <3>1. ASSUME NEW s \in lake.securities
          PROVE  /\ s.from \in Nat /\ s.from <= from
                 /\ s.to # None => s.to \in Int /\ s.from <= s.to /\ s.to < from
      <4>1. s.from \in Nat /\ (s.to # None => s.to \in Int /\ s.from <= s.to)
        BY <1>0, SecurityDays
      <4>2. s.from <= from /\ (s.to # None => s.to < from)
        BY <1>0, <1>1, <1>2, <2>6, CandidateIsNewest
      <4> QED
        BY <4>1, <4>2
    <3>2. \A s, t \in rows : s # t => \/ s.to # None /\ s.to < t.from
                                      \/ t.to # None /\ t.to < s.from
      <4> SUFFICES ASSUME NEW s \in lake.securities, NEW t \in lake.securities,
                          Closed(s) # Closed(t)
                   PROVE  \/ Closed(s).to # None /\ Closed(s).to < Closed(t).from
                          \/ Closed(t).to # None /\ Closed(t).to < Closed(s).from
        BY <2>1
      <4>1. \/ s.to # None /\ s.to < t.from
            \/ t.to # None /\ t.to < s.from
        BY <1>4, <2>6 DEF Disjoint
      <4> QED
        BY <2>4, <4>1
    <3>3. \A s \in rows : s.to = None => s.from = DayOf[InfoAt(task.run)]
      <4> SUFFICES ASSUME NEW s \in lake.securities, Closed(s).to = None
                   PROVE  Closed(s).from = from
        BY <1>2, <2>1
      <4>1. Closed(s).from = s.from /\ ~(s.from < from)
        BY <2>4
      <4> QED
        BY <1>3, <3>1, <4>1
    <3> QED
      BY <3>2, <3>3 DEF Disjoint, OpenRowsYield
  <2> QED
    BY <2>2, <2>5, <2>6, SecurityCommitKeeps
<1> QED
  BY <1>5, <1>6

\* The new row is inserted, or takes the place of the open row of the same day.
LEMMA UpsertCommit == ASSUME RestInv, Publish, task.step = 4 PROVE RestInv'
<1>0. BaseInv
  BY DEF RestInv
<1>1. /\ task.name = "publish" /\ task.run \in 1..Runs /\ store.runs[task.run] # None
      /\ lake' = Commit(task.step, lake) /\ Published(task.run)
  <2>1. /\ task.name = "publish" /\ task.run \in 1..Runs /\ store.runs[task.run] # None
        /\ lake' = Commit(task.step, lake)
    BY <1>0, PublishingRun
  <2> QED
    BY <1>0, <2>1 DEF BaseInv, PublishedSoFar
<1>2. PICK new : new = [from |-> DayOf[InfoAt(task.run)], to |-> None,
                        info |-> Capture["info"].value, at |-> InfoAt(task.run)]
  OBVIOUS
<1>3. SecurityCandidate = new /\ new.from \in Nat
  BY <1>0, <1>1, <1>2, CandidateIs
<1>4. (\A s \in lake.securities : SecurityFromRun(s)) /\ (OrderInv => Disjoint(lake.securities))
  BY <1>0 DEF BaseInv, LakeFromRuns, OrderInv, OneCurrentSecurity, Disjoint
<1>5. SecurityFromRun(new)
  BY <1>1, <1>2 DEF SecurityFromRun
<1>6. CASE ~SecurityChanged(new)
  <2>1. PICK rows : rows = lake.securities
    OBVIOUS
  <2>2. lake' = [lake EXCEPT !.securities = rows]
    BY <1>0, <1>1, <1>3, <1>6, <2>1 DEF Commit, UpsertSecurity, BaseInv, RestTypes
  <2> QED
    BY <1>4, <2>1, <2>2, SecurityCommitKeeps
<1>7. CASE SecurityChanged(new)
  <2>2. PICK same : same = {s \in lake.securities : s.from = new.from}
    OBVIOUS
  <2>3. PICK rows : rows = IF same = {} THEN lake.securities \cup {new}
                           ELSE {IF s.from = new.from /\ new.at > s.at THEN new ELSE s :
                                    s \in lake.securities}
    OBVIOUS
  <2>4. lake' = [lake EXCEPT !.securities = rows]
    <3>1. lake' = UpsertSecurity(lake)
      BY <1>1 DEF Commit
    <3>2. CASE same = {}
      BY <1>3, <1>7, <2>2, <2>3, <3>1, <3>2 DEF UpsertSecurity
    <3>3. CASE same # {}
      <4>1. lake' = [lake EXCEPT !.securities =
                        {IF s.from = new.from /\ new.at > s.at THEN new ELSE s :
                            s \in lake.securities}]
        BY <1>3, <1>7, <2>2, <3>1, <3>3, Zenon DEF UpsertSecurity
      <4> QED
        BY <2>3, <3>3, <4>1
    <3> QED
      BY <3>2, <3>3
  <2>5. \A s \in rows : s \in lake.securities \/ s = new
    BY <2>3
  <2>6. \A s \in rows : SecurityFromRun(s)
    BY <1>4, <1>5, <2>5
  <2>7. OrderInv => Disjoint(rows)
    <3> SUFFICES ASSUME OrderInv PROVE Disjoint(rows)
      OBVIOUS
    <3>1. ASSUME NEW s \in lake.securities
          PROVE  /\ s.from \in Nat /\ s.from <= new.from
                 /\ s.to # None => s.to \in Int /\ s.from <= s.to /\ s.to < new.from
                 /\ s.to = None => s.from = new.from
      <4>1. s.from \in Nat /\ (s.to # None => s.to \in Int /\ s.from <= s.to)
        BY <1>0, SecurityDays
      <4>2. s.from <= new.from /\ (s.to # None => s.to < new.from)
        BY <1>0, <1>1, <1>2, CandidateIsNewest
      <4>3. OpenRowsYield(lake.securities)
        BY <1>1 DEF OrderInv, NothingNewer
      <4>4. s.to = None => s.from = new.from
        BY <1>2, <1>7, <4>3 DEF OpenRowsYield, SecurityChanged
      <4> QED
        BY <4>1, <4>2, <4>4
    <3>2. \A s \in lake.securities : s.from = new.from <=> s.to = None
      BY <3>1
    <3>3. \A s, t \in lake.securities : s.to = None /\ t.to = None => s = t
      BY <1>4 DEF Disjoint
    <3>4. new \in rows => \A s \in rows : s = new \/ s.to # None
      <4> SUFFICES ASSUME new \in rows, NEW s \in rows, s # new, s.to = None PROVE FALSE
        OBVIOUS
      <4>1. s \in lake.securities /\ s.from = new.from
        BY <2>5, <3>2
      <4>2. s \in same
        BY <2>2, <4>1
      <4>3. PICK u \in lake.securities :
               new = IF u.from = new.from /\ new.at > u.at THEN new ELSE u
        BY <2>3, <4>2
      <4>4. PICK v \in lake.securities :
               s = IF v.from = new.from /\ new.at > v.at THEN new ELSE v
        BY <2>3, <4>2
      <4>5. u.to = None /\ v.to = None
        BY <1>2, <3>2, <4>3, <4>4
      <4> QED
        BY <3>2, <3>3, <4>1, <4>3, <4>4, <4>5
    <3> SUFFICES ASSUME NEW s \in rows, NEW t \in rows, s # t
                 PROVE  \/ s.to # None /\ s.to < t.from
                        \/ t.to # None /\ t.to < s.from
      BY DEF Disjoint
    <3>5. CASE s \in lake.securities /\ t \in lake.securities
      BY <1>4, <3>5 DEF Disjoint
    <3>6. CASE s = new
      BY <2>5, <3>1, <3>4, <3>6
    <3>7. CASE t = new
      BY <2>5, <3>1, <3>4, <3>7
    <3> QED
      BY <2>5, <3>5, <3>6, <3>7
  <2> QED
    BY <2>4, <2>6, <2>7, SecurityCommitKeeps
<1> QED
  BY <1>6, <1>7

LEMMA RestStep == RestInv /\ [RestNext]_restVars => RestInv'
<1> SUFFICES ASSUME RestInv, [RestNext]_restVars PROVE RestInv'
  OBVIOUS
<1>1. CASE UNCHANGED restVars
  <2>1. TaskAtWork' /\ PublishedSoFar' /\ (OrderInv => NothingNewer')
    BY <1>1 DEF restVars, RestInv, BaseInv, TaskAtWork, PublishedSoFar, Published, Capture, OrderInv,
                NothingNewer, OpenRowsYield, InfoAt
  <2>2. now \in Int /\ latest \in Int /\ RestTypes'
    BY <1>1 DEF restVars, RestInv, BaseInv, RestTypes
  <2>3. BaseInv'
    BY <1>1, <2>1, <2>2, StoreKept DEF restVars, RestInv
  <2>4. OrderInv => OrderInv'
    BY <1>1, <2>1, <2>2, OrderKept DEF restVars, RestInv
  <2> QED
    BY <1>1, <2>3, <2>4 DEF restVars, RestInv
<1>2. CASE Publish
  <2>1. task.step \in 1..9
    BY <1>2, PublishingRun DEF RestInv
  <2>2. task.step \in {1, 2, 5, 9} \/ task.step = 3 \/ task.step = 4 \/ task.step \in {6, 7, 8}
    BY <2>1
  <2> QED
    BY <1>2, <2>2, LandingCommits, CloseCommit, UpsertCommit, RevisionCommits
<1>3. CASE RestNext
  BY <1>2, <1>3, ReviseStep, KillTaskStep, StartCaptureStep, StartPublishStep, CaptureRequestStep,
     FinishCaptureStep DEF RestNext
<1> QED
  BY <1>1, <1>3

\* Whatever attempt is killed, retried, cleared or follows a provider revision, after every
\* commit the revisions of a bar are numbered without a gap and none is repeated
\* (rest_curated.py, _revised), and the daily bar of a published run has its minute bar
\* (_validate_market_data).  Until an operator captures or publishes a run after a newer one,
\* the numbers follow the order the records were received in, at most one row of the security
\* is open and no two are effective on one day (_publish_securities, two commits).
THEOREM Consistent == Spec => []RestTablesConsistent
<1>1. RestInv => RestTablesConsistent
  <2> SUFFICES ASSUME RestInv PROVE RestTablesConsistent
    OBVIOUS
  <2>1. RevisionsAreDense
    <3>1. \A table \in RevisionTables : Numbered(lake[table])
      BY DEF RestInv, BaseInv, LakeFromRuns, RowsAreRevisions
    <3> QED
      BY <3>1 DEF RevisionsAreDense, RevisionTables, Numbered
  <2>2. DailyReconciles
    <3> SUFFICES ASSUME NEW d \in lake.daily, d.run \in done
                 PROVE  \E b \in lake.bars : b.value = d.value
      BY DEF DailyReconciles
    <3>1. FromRun("daily", d)
      BY DEF RestInv, BaseInv, LakeFromRuns, RowsAreRevisions, RevisionTables
    <3> QED
      BY <3>1 DEF FromRun, Shown, RestInv, BaseInv, LakeFromRuns, DoneHaveBars
  <2>3. OrderInv => RevisionsFollowAvailability /\ OneCurrentSecurity
    BY DEF OrderInv, RowsInOrder, InOrder, RevisionsFollowAvailability, RevisionTables
  <2> QED
    BY <2>1, <2>2, <2>3 DEF RestTablesConsistent, RestInv
<1>2. RestInv /\ [RestNext]_restVars => RestInv'
  BY RestStep
<1> QED
  BY <1>1, <1>2, RestInitInv, RestPart, PTL
=============================================================================
