-------------------------- MODULE TradingDayProofs --------------------------
(***************************************************************************)
(* Proofs about a day of decisions (TradingDay), for every menu of         *)
(* provider batches, every schedule, policy and window, and any number of  *)
(* stream sessions.                                                        *)
(***************************************************************************)
EXTENDS TradingDay, SumTheorems, SequenceTheorems, TLAPS

-----------------------------------------------------------------------------
(***************************************************************************)
(* Sets of instants and of places.                                         *)
(***************************************************************************)
AtLeast(S, a) == a \in Int /\ S # {} /\ \A x \in S : x \in Int /\ a <= x

AtMost(S, b) == b \in Int /\ S # {} /\ \A x \in S : x \in Int /\ x <= b

LEMMA MinOf ==
    ASSUME NEW a, NEW S, AtLeast(S, a)
    PROVE  Min(S) \in S /\ \A y \in S : Min(S) <= y
<1> USE DEF AtLeast
<1>1. PICK B : B = {x - a : x \in S}
  OBVIOUS
<1>2. B \in SUBSET Nat /\ B # {}
  BY <1>1
<1>3. PICK n \in B : \A m \in B : ~(m < n)
  BY <1>2, FirstOf
<1>4. PICK x \in S : n = x - a
  BY <1>1
<1>5. ASSUME NEW y \in S PROVE x <= y
  <2>1. y - a \in B /\ y - a \in Nat /\ n \in Nat
    BY <1>1, <1>2
  <2>2. ~(y - a < n)
    BY <1>3, <2>1
  <2> QED
    BY <1>4, <2>1, <2>2
<1>6. \E z \in S : \A y \in S : z =< y
  BY <1>5
<1> QED
  BY <1>6 DEF Min

LEMMA MaxOf ==
    ASSUME NEW b, NEW S, AtMost(S, b)
    PROVE  Max(S) \in S /\ \A y \in S : Max(S) >= y
<1> USE DEF AtMost
<1>1. PICK B : B = {b - x : x \in S}
  OBVIOUS
<1>2. B \in SUBSET Nat /\ B # {}
  BY <1>1
<1>3. PICK n \in B : \A m \in B : ~(m < n)
  BY <1>2, FirstOf
<1>4. PICK x \in S : n = b - x
  BY <1>1
<1>5. ASSUME NEW y \in S PROVE x >= y
  <2>1. b - y \in B /\ b - y \in Nat /\ n \in Nat
    BY <1>1, <1>2
  <2>2. ~(b - y < n)
    BY <1>3, <2>1
  <2> QED
    BY <1>4, <2>1, <2>2
<1>6. \E z \in S : \A y \in S : z >= y
  BY <1>5
<1> QED
  BY <1>6 DEF Max

-----------------------------------------------------------------------------
(***************************************************************************)
(* The clocks: each one once, in order, and never before its second is     *)
(* over.                                                                   *)
(***************************************************************************)
LEMMA NextClockIs ==
    ASSUME NextClock # None
    PROVE  /\ NextClock \in Int /\ NextClock \in decision_times
           /\ eng.decided = None \/ NextClock > eng.decided
<1>1. PICK later : later = {t \in decision_times : eng.decided = None \/ t > eng.decided}
  OBVIOUS
<1>2. later # {} /\ NextClock = Min(later)
  BY <1>1 DEF NextClock
<1>3. Schedule.open \in Int /\ Schedule.close \in Int
  BY MarketAssumption
<1>4. \A t \in later : t \in Int /\ Schedule.open <= t
  BY <1>1, <1>3 DEF decision_times
<1>5. Min(later) \in later
  <2>1. AtLeast(later, Schedule.open)
    BY <1>2, <1>3, <1>4 DEF AtLeast
  <2> QED
    BY <2>1, MinOf
<1> QED
  BY <1>1, <1>2, <1>4, <1>5

LEMMA DueIs == ASSUME ClockDue PROVE NextClock # None /\ now > NextClock
BY DEF ClockDue

-----------------------------------------------------------------------------
(***************************************************************************)
(* The candidates of a clock: one of each strategy for each symbol.        *)
(***************************************************************************)
SnapsAt(snaps, t) == \A s \in Symbols : snaps[s].sym = s /\ snaps[s].at = t

\* The snapshots of a clock, marked or not.
LEMMA SnapsAtClock ==
    ASSUME NEW g, NEW t, NEW gap \in BOOLEAN
    PROVE  SnapsAt(MarkGap(snapshots(g, t), gap), t)
<1>1. ASSUME NEW s \in Symbols
      PROVE  snapshots(g, t)[s].sym = s /\ snapshots(g, t)[s].at = t
  BY <1>1 DEF snapshots, _snapshot
<1>2. PICK q : q = snapshots(g, t)
  OBVIOUS
<1>3. DOMAIN q = Symbols
  BY <1>2 DEF snapshots
<1>4. ASSUME NEW s \in Symbols
      PROVE  MarkGap(q, gap)[s].sym = q[s].sym /\ MarkGap(q, gap)[s].at = q[s].at
  BY <1>3, <1>4 DEF MarkGap
<1> QED
  BY <1>1, <1>2, <1>4 DEF SnapsAt

\* The candidate c is one of strategy n for the snapshot.
IsCandidate(c, n, snap) ==
    c = [strategy |-> n, sym |-> snap.sym, at |-> snap.at, block |-> c.block,
         strength |-> c.strength]

LEMMA Built ==
    ASSUME NEW n, NEW snap, NEW groups, NEW block, NEW c, c = _build(n, snap, groups, block)
    PROVE  IsCandidate(c, n, snap) /\ (block # None => c.block = block)
<1>1. PICK reason : reason = BlockReason(n, groups, block)
  OBVIOUS
<1>2. block # None => reason = block
  BY <1>1 DEF BlockReason
<1>3. c = [strategy |-> n, sym |-> snap.sym, at |-> snap.at, block |-> reason,
           strength |-> c.strength]
  BY <1>1 DEF _build
<1>4. c.block = reason
  BY <1>3
<1> QED
  BY <1>2, <1>3, <1>4 DEF IsCandidate

LEMMA ScoredAre ==
    ASSUME NEW snap, NEW peer, NEW context, NEW history
    PROVE  \E f : \A c \in Scored(snap, peer, context, history) :
             \E n \in BASELINE_NAMES :
               /\ c = f[n] /\ IsCandidate(c, n, snap)
               /\ Blocked(snap, context) # None => c.block # None
<1>1. CASE Blocked(snap, context) # None
  <2>1. PICK f : f = [n \in BASELINE_NAMES |->
                        _build(n, snap, <<None, None, None>>, Blocked(snap, context))]
    OBVIOUS
  <2>2. ASSUME NEW c \in Scored(snap, peer, context, history)
        PROVE  \E n \in BASELINE_NAMES : /\ c = f[n] /\ IsCandidate(c, n, snap)
                                         /\ c.block # None
    <3>1. PICK n \in BASELINE_NAMES :
             c = _build(n, snap, <<None, None, None>>, Blocked(snap, context))
      BY <1>1 DEF Scored
    <3>2. IsCandidate(c, n, snap) /\ c.block # None
      BY <1>1, <3>1, Built
    <3>3. c = f[n]
      BY <2>1, <3>1
    <3> QED
      BY <3>2, <3>3
  <2> QED
    BY <1>1, <2>2
<1>2. CASE Blocked(snap, context) = None
  <2>1. PICK a, b, r : /\ a = _mean_reversion(snap, context) /\ b = _momentum_pullback(snap)
                       /\ r = _relative(snap, peer, LaggedPeer(history, snap.sym, snap.at), context)
    OBVIOUS
  <2>2. Scored(snap, peer, context, history) = {a, b, r}
    BY <1>2, <2>1 DEF Scored
  <2>3. IsCandidate(a, "mean_reversion", snap)
    BY <2>1, Built DEF _mean_reversion
  <2>4. IsCandidate(b, "momentum_pullback", snap)
    BY <2>1, Built DEF _momentum_pullback
  <2>5. IsCandidate(r, "vic_vhm_relative", snap)
    BY <2>1, Built DEF _relative
  <2>6. PICK f : f = [n \in BASELINE_NAMES |-> IF n = "mean_reversion" THEN a
                        ELSE IF n = "momentum_pullback" THEN b ELSE r]
    OBVIOUS
  <2>7. /\ f["mean_reversion"] = a /\ f["momentum_pullback"] = b /\ f["vic_vhm_relative"] = r
        /\ {"mean_reversion", "momentum_pullback", "vic_vhm_relative"} = BASELINE_NAMES
    BY <2>6 DEF BASELINE_NAMES
  <2> QED
    BY <1>2, <2>2, <2>3, <2>4, <2>5, <2>7
<1> QED
  BY <1>1, <1>2

\* The candidates C are one of each strategy for each symbol, all of clock t.
OnePer(C, t) ==
    /\ \A c \in C : c.sym \in Symbols /\ c.at = t /\ c.strategy \in BASELINE_NAMES
    /\ \A a, b \in C : a.sym = b.sym /\ a.strategy = b.strategy => a = b

LEMMA CandidateParts ==
    ASSUME NEW c, NEW n, NEW snap, IsCandidate(c, n, snap)
    PROVE  c.strategy = n /\ c.sym = snap.sym /\ c.at = snap.at
<1>1. PICK b, k : b = c.block /\ k = c.strength
  OBVIOUS
<1>2. c = [strategy |-> n, sym |-> snap.sym, at |-> snap.at, block |-> b, strength |-> k]
  BY <1>1 DEF IsCandidate
<1> QED
  BY <1>2

LEMMA ScoredOnce ==
    ASSUME NEW snap, NEW peer, NEW context, NEW history,
           NEW a \in Scored(snap, peer, context, history),
           NEW b \in Scored(snap, peer, context, history)
    PROVE  /\ a.sym = snap.sym /\ a.at = snap.at /\ a.strategy \in BASELINE_NAMES
           /\ a.strategy = b.strategy => a = b
<1>1. PICK f : \A c \in Scored(snap, peer, context, history) :
                 \E n \in BASELINE_NAMES :
                   /\ c = f[n] /\ IsCandidate(c, n, snap)
                   /\ Blocked(snap, context) # None => c.block # None
  BY ScoredAre
<1>2. PICK m \in BASELINE_NAMES : a = f[m] /\ IsCandidate(a, m, snap)
  BY <1>1
<1>3. PICK n \in BASELINE_NAMES : b = f[n] /\ IsCandidate(b, n, snap)
  BY <1>1
<1>4. a.strategy = m /\ a.sym = snap.sym /\ a.at = snap.at
  BY <1>2, CandidateParts
<1>5. b.strategy = n
  BY <1>3, CandidateParts
<1> QED
  BY <1>2, <1>3, <1>4, <1>5

LEMMA CandidatesAre ==
    ASSUME NEW snaps, NEW t, SnapsAt(snaps, t), NEW context, NEW history
    PROVE  OnePer(score_buy_first_baselines(snaps, context, history), t)
<1>1. PICK C : C = score_buy_first_baselines(snaps, context, history)
  OBVIOUS
<1>2. \A c \in C : \E s \in Symbols : c \in Scored(snaps[s], snaps[Peer(s)], context, history)
  BY <1>1 DEF score_buy_first_baselines
<1>3. ASSUME NEW c \in C
      PROVE  c.sym \in Symbols /\ c.at = t /\ c.strategy \in BASELINE_NAMES
  <2>1. PICK s \in Symbols : c \in Scored(snaps[s], snaps[Peer(s)], context, history)
    BY <1>2
  <2>2. snaps[s].sym = s /\ snaps[s].at = t
    BY DEF SnapsAt
  <2> QED
    BY <2>1, <2>2, ScoredOnce
<1>4. ASSUME NEW a \in C, NEW b \in C, a.sym = b.sym, a.strategy = b.strategy PROVE a = b
  <2>1. PICK s \in Symbols : a \in Scored(snaps[s], snaps[Peer(s)], context, history)
    BY <1>2
  <2>2. PICK z \in Symbols : b \in Scored(snaps[z], snaps[Peer(z)], context, history)
    BY <1>2
  <2>3. snaps[s].sym = s /\ snaps[z].sym = z
    BY DEF SnapsAt
  <2>4. a.sym = s
    BY <2>1, <2>3, ScoredOnce
  <2>5. b.sym = z
    BY <2>2, <2>3, ScoredOnce
  <2>6. b \in Scored(snaps[s], snaps[Peer(s)], context, history)
    BY <1>4, <2>2, <2>4, <2>5
  <2> QED
    BY <1>4, <2>1, <2>6, ScoredOnce
<1> QED
  BY <1>1, <1>3, <1>4 DEF OnePer

-----------------------------------------------------------------------------
(***************************************************************************)
(* The selector at one clock.                                              *)
(***************************************************************************)
LEMMA WinnerFacts ==
    ASSUME NEW a, NEW C, NEW t, OnePer(C, t)
    PROVE  /\ \A c \in Winners(a, C, t) : /\ c \in C /\ c.sym \in Symbols /\ c.at = t
                                          /\ c.block = None /\ ~CoolingDown(a, c.sym, t)
           /\ \A b, c \in Winners(a, C, t) : b.sym = c.sym => b = c
<1>1. \A c \in Winners(a, C, t) : /\ c \in C /\ c \in Eligible(C, c.sym)
                                  /\ ~CoolingDown(a, c.sym, t)
                                  /\ \A r \in Eligible(C, c.sym) : r # c => Precedes(c, r)
  BY DEF Winners
<1>2. ASSUME NEW b \in Winners(a, C, t), NEW c \in Winners(a, C, t), b.sym = c.sym, b # c
      PROVE  FALSE
  <2>1. b \in C /\ c \in C /\ Precedes(b, c) /\ Precedes(c, b)
    BY <1>1, <1>2
  <2>2. PICK m, n : m = b.strategy /\ n = c.strategy
    OBVIOUS
  <2>3. m \in BASELINE_NAMES /\ n \in BASELINE_NAMES /\ m # n
    BY <1>2, <2>1, <2>2 DEF OnePer
  <2>4. PICK i \in Nat, k \in Nat : i = Policy.rules[m].priority /\ k = Policy.rules[n].priority
    BY <2>3, ArbitrationAssumption
  <2>5. i # k
    BY <2>3, <2>4, ArbitrationAssumption
  <2>6. i < k
    BY <2>1, <2>2, <2>4, <2>5 DEF Precedes
  <2>7. k < i
    BY <2>1, <2>2, <2>4, <2>5 DEF Precedes
  <2> QED
    BY <2>6, <2>7
<1>3. \A c \in Winners(a, C, t) : c.sym \in Symbols /\ c.at = t /\ c.block = None
  BY <1>1 DEF OnePer, Eligible
<1> QED
  BY <1>1, <1>2, <1>3

\* Two symbols, so at most two winners.
LEMMA TwoWinners ==
    ASSUME NEW W, \A c \in W : c.sym \in Symbols, \A b, c \in W : b.sym = c.sym => b = c
    PROVE  IsFiniteSet(W) /\ Cardinality(W) \in Nat /\ Cardinality(W) <= 2
<1>1. PICK f : f = [c \in W |-> c.sym]
  OBVIOUS
<1>2. f \in Injection(W, Symbols)
  BY <1>1 DEF Injection, IsInjective
<1>3. IsFiniteSet(Symbols) /\ Cardinality(Symbols) = 2
  BY BaselineAssumption
<1>4. IsFiniteSet(W) /\ Cardinality(W) <= 2
  BY <1>2, <1>3, FS_Injection
<1> QED
  BY <1>4, FS_CardinalityType

\* Candidates of different symbols are ordered.
LEMMA Ordered ==
    ASSUME NEW C, NEW t, OnePer(C, t), NEW b \in C, NEW c \in C, b.sym # c.sym
    PROVE  Precedes(b, c) \/ Precedes(c, b)
<1>1. PICK m, n, s, z : m = b.strategy /\ n = c.strategy /\ s = b.sym /\ z = c.sym
  OBVIOUS
<1>2. m \in BASELINE_NAMES /\ n \in BASELINE_NAMES /\ s \in Symbols /\ z \in Symbols /\ s # z
  BY <1>1 DEF OnePer
<1>3. PICK i \in Nat, k \in Nat : i = Policy.rules[m].priority /\ k = Policy.rules[n].priority
  BY <1>2, ArbitrationAssumption
<1>4. PICK p \in Nat, q \in Nat : p = SymbolRank[s] /\ q = SymbolRank[z] /\ p # q
  BY <1>2, ArbitrationAssumption
<1>5. p < q \/ q < p
  BY <1>4
<1>6. i < k \/ k < i \/ i = k
  BY <1>3
<1>7. /\ Precedes(b, c) <=> \/ i < k
                            \/ i = k /\ c.strength < b.strength
                            \/ i = k /\ ~(b.strength < c.strength) /\ p < q
      /\ Precedes(c, b) <=> \/ k < i
                            \/ k = i /\ b.strength < c.strength
                            \/ k = i /\ ~(c.strength < b.strength) /\ q < p
  BY <1>1, <1>3, <1>4, Zenon DEF Precedes
<1> QED
  BY <1>5, <1>6, <1>7, Zenon

\* No clock selects more than the capacity.
LEMMA SelectedFit ==
    ASSUME NEW a, NEW C, NEW t, OnePer(C, t)
    PROVE  /\ IsFiniteSet(Selected(a, C, t)) /\ Cardinality(Selected(a, C, t)) \in Nat
           /\ Cardinality(Selected(a, C, t)) <= Policy.capacity
<1>1. PICK W, S : W = Winners(a, C, t) /\ S = Selected(a, C, t)
  OBVIOUS
<1>2. S \in SUBSET W /\ \A c \in S : RankOf(c, W) < Policy.capacity
  BY <1>1 DEF Selected
<1>3. \A c \in W : c \in C /\ c.sym \in Symbols
  BY <1>1, WinnerFacts
<1>4. \A b, c \in W : b.sym = c.sym => b = c
  BY <1>1, WinnerFacts
<1>5. IsFiniteSet(S) /\ Cardinality(S) \in Nat /\ Cardinality(S) <= 2
  BY <1>2, <1>3, <1>4, TwoWinners
<1>6. IsFiniteSet(W)
  BY <1>3, <1>4, TwoWinners
<1>7. PICK K \in Nat \ {0} : K = Policy.capacity
  BY ArbitrationAssumption
<1>8. CASE K = 1
  <2>1. ASSUME NEW b \in W, NEW c \in S, Precedes(b, c), b # c PROVE FALSE
    <3>1. PICK R : R = {w \in W : w # c /\ Precedes(w, c)}
      OBVIOUS
    <3>2. b \in R /\ R \in SUBSET W
      BY <2>1, <3>1
    <3>3. IsFiniteSet(R) /\ Cardinality(R) \in Nat /\ Cardinality(R) # 0
      BY <1>6, <3>2, FS_Subset, FS_CardinalityType, FS_EmptySet
    <3>4. Cardinality(R) < 1
      BY <1>2, <1>7, <1>8, <3>1 DEF RankOf
    <3> QED
      BY <3>3, <3>4
  <2>2. ASSUME NEW b \in S, NEW c \in S, b # c PROVE FALSE
    <3>1. b.sym # c.sym /\ b \in C /\ c \in C /\ b \in W /\ c \in W
      BY <1>2, <1>3, <1>4, <2>2
    <3>2. Precedes(b, c) \/ Precedes(c, b)
      BY <3>1, Ordered
    <3> QED
      BY <2>1, <2>2, <3>1, <3>2
  <2>3. CASE S = {}
    <3>1. Cardinality(S) = 0
      BY <2>3, FS_EmptySet
    <3> QED
      BY <1>1, <1>5, <1>7, <3>1
  <2>4. CASE S # {}
    <3>1. PICK x : x \in S
      BY <2>4
    <3>2. S = {x}
      BY <2>2, <3>1
    <3>3. Cardinality(S) = 1
      BY <3>2, FS_Singleton
    <3> QED
      BY <1>1, <1>5, <1>7, <3>3
  <2> QED
    BY <2>3, <2>4
<1>9. CASE K # 1
  BY <1>1, <1>5, <1>7, <1>9
<1> QED
  BY <1>8, <1>9

\* What decide reports as selected, Selected chose.
LEMMA ResultFacts ==
    ASSUME NEW a, NEW C, NEW t, NEW r \in decide(a, C, t), r.status = "SELECTED"
    PROVE  r.cand \in Selected(a, C, t)
<1>1. PICK c \in C : r = Result(a, C, t, c)
  BY DEF decide
<1>2. ASSUME NEW reason, NEW by,
             r = [cand |-> c, status |-> "REJECTED", reason |-> reason, priority |-> None, by |-> by]
      PROVE  FALSE
  BY <1>2
<1>3. r.cand = c
  BY <1>1 DEF Result
<1>4. c \in Selected(a, C, t)
  <2> SUFFICES ASSUME c \notin Selected(a, C, t) PROVE FALSE
    OBVIOUS
  <2> QED
    BY <1>1, <1>2 DEF Result
<1> QED
  BY <1>3, <1>4

-----------------------------------------------------------------------------
(***************************************************************************)
(* The cooldown.  The arbitrator's clock is at or after every recorded     *)
(* one, and the selection it keeps of a symbol at or after each of the     *)
(* symbol's selections.                                                    *)
(***************************************************************************)
ChosenOf(d) == {r.cand : r \in {x \in d.results : x.status = "SELECTED"}}

Apart(a, b) == a.at - b.at >= Policy.cooldown \/ b.at - a.at >= Policy.cooldown

ClocksInv ==
    /\ arb.clock = None => out = {}
    /\ arb.clock # None => arb.clock \in Int
    /\ \A d \in out : d.at \in Int /\ d.at <= arb.clock

ChosenInv ==
    /\ \A d, e \in out : d.at = e.at => d = e
    /\ \A d \in out : /\ IsFiniteSet(ChosenOf(d)) /\ Cardinality(ChosenOf(d)) <= Policy.capacity
                      /\ \A c \in ChosenOf(d) : /\ c.at = d.at /\ c.sym \in DOMAIN arb.selected
                                                /\ arb.selected[c.sym].at \in Int
                                                /\ c.at <= arb.selected[c.sym].at
    /\ \A d, e \in out : \A a \in ChosenOf(d), b \in ChosenOf(e) :
          a # b /\ a.sym = b.sym => Apart(a, b)

CooldownInv == ClocksInv /\ ChosenInv

\* The arbitrator after the selections S of clock t.
LEMMA SelectedAfter ==
    ASSUME NEW a, NEW C, NEW t, OnePer(C, t)
    PROVE  LET b == ArbitratorDecided(a, C, t)
           IN  /\ b.clock = t
               /\ \A c \in Selected(a, C, t) : c.sym \in DOMAIN b.selected
                                               /\ b.selected[c.sym].at = t
               /\ \A s \in DOMAIN a.selected : s \in DOMAIN b.selected
                     /\ (b.selected[s] = a.selected[s] \/ b.selected[s].at = t)
<1>1. PICK S, b : S = Selected(a, C, t) /\ b = ArbitratorDecided(a, C, t)
  OBVIOUS
<1>2. \A c \in S : c.at = t
  BY <1>1, WinnerFacts DEF Selected
<1>3. b = [clock |-> t,
           selected |-> [s \in DOMAIN a.selected \cup {c.sym : c \in S} |->
             IF \E c \in S : c.sym = s THEN CHOOSE c \in S : c.sym = s ELSE a.selected[s]]]
  BY <1>1 DEF ArbitratorDecided
<1>4. PICK f : f = [s \in DOMAIN a.selected \cup {c.sym : c \in S} |->
             IF \E c \in S : c.sym = s THEN CHOOSE c \in S : c.sym = s ELSE a.selected[s]]
  OBVIOUS
<1>5. b.clock = t /\ b.selected = f
  BY <1>3, <1>4
<1>6. ASSUME NEW s \in DOMAIN a.selected \cup {c.sym : c \in S}, \E c \in S : c.sym = s
      PROVE  f[s].at = t
  <2>1. f[s] = CHOOSE c \in S : c.sym = s
    BY <1>4, <1>6
  <2>2. f[s] \in S
    BY <1>6, <2>1
  <2> QED
    BY <1>2, <2>2
<1>7. ASSUME NEW s \in DOMAIN a.selected, ~\E c \in S : c.sym = s
      PROVE  f[s] = a.selected[s]
  BY <1>4, <1>7
<1>8. DOMAIN f = DOMAIN a.selected \cup {c.sym : c \in S}
  BY <1>4
<1>9. \A c \in S : c.sym \in DOMAIN f /\ f[c.sym].at = t
  BY <1>6, <1>8
<1>10. \A s \in DOMAIN a.selected : s \in DOMAIN f /\ (f[s] = a.selected[s] \/ f[s].at = t)
  BY <1>6, <1>7, <1>8
<1> QED
  BY <1>1, <1>5, <1>9, <1>10

\* A recorded clock: what its selections keep of the invariant.
Recorded(d, C, t) ==
    /\ OnePer(C, t) /\ d.at = t /\ d.results = decide(arb, C, t)
    /\ arb' = ArbitratorDecided(arb, C, t) /\ out' = out \cup {d}

LEMMA RecordedChosen ==
    ASSUME NEW d, NEW C, NEW t, Recorded(d, C, t)
    PROVE  /\ ChosenOf(d) \in SUBSET Selected(arb, C, t)
           /\ \A c \in ChosenOf(d) : /\ c.at = t /\ ~CoolingDown(arb, c.sym, t)
                                     /\ c.sym \in DOMAIN arb'.selected
                                     /\ arb'.selected[c.sym].at = t
           /\ \A b, c \in ChosenOf(d) : b.sym = c.sym => b = c
<1>1. PICK S : S = Selected(arb, C, t)
  OBVIOUS
<1>2. \A r \in d.results : r.status = "SELECTED" => r.cand \in S
  BY <1>1, ResultFacts DEF Recorded
<1>3. ChosenOf(d) \in SUBSET S
  BY <1>2 DEF ChosenOf
<1>4. S \in SUBSET Winners(arb, C, t) /\ OnePer(C, t)
  BY <1>1 DEF Selected, Recorded
<1>5. \A c \in S : c.at = t /\ ~CoolingDown(arb, c.sym, t)
  BY <1>4, WinnerFacts
<1>6. \A b, c \in S : b.sym = c.sym => b = c
  BY <1>4, WinnerFacts
<1>7. \A c \in S : c.sym \in DOMAIN arb'.selected /\ arb'.selected[c.sym].at = t
  BY <1>1, SelectedAfter DEF Recorded
<1> QED
  BY <1>1, <1>3, <1>5, <1>6, <1>7

LEMMA RecordedCooldown ==
    ASSUME CooldownInv, NEW d, NEW C, NEW t \in Int, Recorded(d, C, t), ~DecideRefused(arb, t)
    PROVE  CooldownInv'
<1>1. None \notin Int
  BY MarketAssumption
<1>2. arb.clock = None \/ (arb.clock \in Int /\ arb.clock < t)
  BY DEF CooldownInv, ClocksInv, DecideRefused
<1>3. \A e \in out : e.at \in Int /\ e.at < t
  <2> SUFFICES ASSUME NEW e \in out PROVE e.at \in Int /\ e.at < t
    OBVIOUS
  <2>1. arb.clock # None /\ e.at \in Int /\ e.at <= arb.clock
    BY DEF CooldownInv, ClocksInv
  <2> QED
    BY <1>2, <2>1
<1>4. arb'.clock = t /\ d.at = t /\ out' = out \cup {d}
  BY SelectedAfter DEF Recorded
<1>5. ClocksInv'
  <2>1. \A e \in out' : e.at \in Int /\ e.at <= t
    BY <1>3, <1>4
  <2>2. t # None
    BY <1>1
  <2> QED
    BY <1>4, <2>1, <2>2 DEF ClocksInv
<1>6. PICK S : S = Selected(arb, C, t)
  OBVIOUS
<1>7. IsFiniteSet(S) /\ Cardinality(S) \in Nat /\ Cardinality(S) <= Policy.capacity
  BY <1>6, SelectedFit DEF Recorded
<1>8. ChosenOf(d) \in SUBSET S
  BY <1>6, RecordedChosen
<1>9. IsFiniteSet(ChosenOf(d)) /\ Cardinality(ChosenOf(d)) <= Policy.capacity
  <2>1. /\ IsFiniteSet(ChosenOf(d)) /\ Cardinality(ChosenOf(d)) <= Cardinality(S)
        /\ Cardinality(ChosenOf(d)) \in Nat
    BY <1>7, <1>8, FS_Subset, FS_CardinalityType
  <2>2. Policy.capacity \in Nat
    BY ArbitrationAssumption
  <2> QED
    BY <1>7, <2>1, <2>2
<1>10. \A e, g \in out' : e.at = g.at => e = g
  <2>1. \A e, g \in out : e.at = g.at => e = g
    BY DEF CooldownInv, ChosenInv
  <2> QED
    BY <1>3, <1>4, <2>1
<1>11. ASSUME NEW e \in out, NEW c \in ChosenOf(e)
       PROVE  /\ c.at = e.at /\ c.sym \in DOMAIN arb'.selected
              /\ arb'.selected[c.sym].at \in Int /\ c.at <= arb'.selected[c.sym].at
              /\ c.sym \in DOMAIN arb.selected /\ arb.selected[c.sym].at \in Int
              /\ c.at <= arb.selected[c.sym].at /\ c.at \in Int
  <2>1. PICK s, k : s = c.sym /\ k = c.at
    OBVIOUS
  <2>2. /\ k = e.at /\ s \in DOMAIN arb.selected /\ arb.selected[s].at \in Int
        /\ k <= arb.selected[s].at
    BY <2>1 DEF CooldownInv, ChosenInv
  <2>3. k \in Int /\ k < t
    BY <1>3, <2>2
  <2>4. /\ s \in DOMAIN arb'.selected
        /\ arb'.selected[s] = arb.selected[s] \/ arb'.selected[s].at = t
    BY <2>2, SelectedAfter DEF Recorded
  <2>5. arb'.selected[s].at \in Int /\ k <= arb'.selected[s].at
    BY <2>2, <2>3, <2>4
  <2> QED
    BY <2>1, <2>2, <2>3, <2>4, <2>5
<1>12. ASSUME NEW e \in out, NEW a \in ChosenOf(e), NEW b \in ChosenOf(d), a.sym = b.sym
       PROVE  Apart(a, b) /\ Apart(b, a)
  <2>1. PICK s, k : s = a.sym /\ k = a.at
    OBVIOUS
  <2>2. b.at = t /\ ~CoolingDown(arb, s, t)
    BY <1>12, <2>1, RecordedChosen
  <2>3. PICK l \in Int : s \in DOMAIN arb.selected /\ l = arb.selected[s].at /\ k <= l /\ k \in Int
    BY <1>11, <2>1
  <2>4. PICK w \in Nat : w = Policy.cooldown
    BY ArbitrationAssumption
  <2>5. ~(t < l + w)
    BY <2>2, <2>3, <2>4 DEF CoolingDown
  <2>6. t - k >= w
    BY <2>3, <2>4, <2>5
  <2> QED
    BY <2>1, <2>2, <2>4, <2>6 DEF Apart
<1>13. ASSUME NEW e \in out', NEW g \in out', NEW a \in ChosenOf(e), NEW b \in ChosenOf(g),
              a # b, a.sym = b.sym
       PROVE  Apart(a, b)
  <2>1. CASE e \in out /\ g \in out
    BY <1>13, <2>1 DEF CooldownInv, ChosenInv
  <2>2. CASE e \in out /\ g = d
    BY <1>12, <1>13, <2>2
  <2>3. CASE e = d /\ g \in out
    BY <1>12, <1>13, <2>3
  <2>4. CASE e = d /\ g = d
    BY <1>13, <2>4, RecordedChosen
  <2> QED
    BY <1>4, <2>1, <2>2, <2>3, <2>4
<1>14. \A e \in out' : /\ IsFiniteSet(ChosenOf(e)) /\ Cardinality(ChosenOf(e)) <= Policy.capacity
                       /\ \A c \in ChosenOf(e) : /\ c.at = e.at /\ c.sym \in DOMAIN arb'.selected
                                                 /\ arb'.selected[c.sym].at \in Int
                                                 /\ c.at <= arb'.selected[c.sym].at
  <2>1. \A e \in out : IsFiniteSet(ChosenOf(e)) /\ Cardinality(ChosenOf(e)) <= Policy.capacity
    BY DEF CooldownInv, ChosenInv
  <2>2. \A c \in ChosenOf(d) : /\ c.at = d.at /\ c.sym \in DOMAIN arb'.selected
                               /\ arb'.selected[c.sym].at \in Int
                               /\ c.at <= arb'.selected[c.sym].at
    <3> SUFFICES ASSUME NEW c \in ChosenOf(d)
                 PROVE  /\ c.at = d.at /\ c.sym \in DOMAIN arb'.selected
                        /\ arb'.selected[c.sym].at \in Int
                        /\ c.at <= arb'.selected[c.sym].at
      OBVIOUS
    <3>1. c.at = t /\ c.sym \in DOMAIN arb'.selected /\ arb'.selected[c.sym].at = t
      BY RecordedChosen
    <3>2. t <= t
      OBVIOUS
    <3> QED
      BY <1>4, <3>1, <3>2
  <2> QED
    BY <1>4, <1>9, <1>11, <2>1, <2>2
<1>15. ChosenInv'
  BY <1>10, <1>13, <1>14 DEF ChosenInv
<1> QED
  BY <1>5, <1>15 DEF CooldownInv

\* What Decide records: the decision of one clock.
RecordOf(d, C, t) ==
    LET snaps == MarkGap(snapshots(eng, t), GapKnown(t))
    IN  d = [at |-> t, upto |-> Len(applied), snaps |-> snaps, context |-> build(ctx, snaps, t),
             results |-> decide(arb, C, t)]

Deciding(d, C, t) ==
    /\ C = score_buy_first_baselines(d.snaps, d.context, feats)
    /\ RecordOf(d, C, t)
    /\ ~SnapshotsRefused(eng, t) /\ ~BuildRefused(ctx, t) /\ ~DecideRefused(arb, t)
    /\ eng' = EngineDecided(eng, t) /\ ctx' = ContextDecided(ctx, d.snaps, t)
    /\ arb' = ArbitratorDecided(arb, C, t) /\ out' = out \cup {d} /\ failed' = failed

LEMMA DecideCases ==
    ASSUME Decide
    PROVE  /\ UNCHANGED <<now, menu, sessions, down, applied, provider, report>>
           /\ report = None /\ ~failed /\ ClockDue
           /\ \/ failed' = TRUE /\ UNCHANGED <<eng, ctx, arb, feats, out>>
              \/ \E d, C : Deciding(d, C, NextClock)
<1>1. PICK t : t = NextClock
  OBVIOUS
<1>2. /\ UNCHANGED <<now, menu, sessions, down, applied, provider, report>>
      /\ report = None /\ ~failed /\ ClockDue
  BY DEF Decide
<1>3. CASE SnapshotsRefused(eng, t) \/ BuildRefused(ctx, t) \/ DecideRefused(arb, t)
  <2>1. failed' = TRUE /\ UNCHANGED <<eng, ctx, arb, feats, out>>
    BY <1>1, <1>3, Zenon DEF Decide
  <2> QED
    BY <1>2, <2>1
<1>4. CASE ~(SnapshotsRefused(eng, t) \/ BuildRefused(ctx, t) \/ DecideRefused(arb, t))
  <2>1. PICK snaps, context, C :
           /\ snaps = MarkGap(snapshots(eng, t), GapKnown(t))
           /\ context = build(ctx, snaps, t)
           /\ C = score_buy_first_baselines(snaps, context, feats)
           /\ eng' = EngineDecided(eng, t) /\ ctx' = ContextDecided(ctx, snaps, t)
           /\ arb' = ArbitratorDecided(arb, C, t)
           /\ out' = out \cup {[at |-> t, upto |-> Len(applied), snaps |-> snaps,
                                context |-> context, results |-> decide(arb, C, t)]}
           /\ failed' = failed
    BY <1>1, <1>4, Zenon DEF Decide
  <2>2. PICK d : d = [at |-> t, upto |-> Len(applied), snaps |-> snaps,
                      context |-> context, results |-> decide(arb, C, t)]
    OBVIOUS
  <2>3. d.snaps = snaps /\ d.context = context
    BY <2>2
  <2>4. RecordOf(d, C, t)
    BY <2>1, <2>2 DEF RecordOf
  <2>5. Deciding(d, C, t)
    BY <1>4, <2>1, <2>2, <2>3, <2>4 DEF Deciding
  <2> QED
    BY <1>1, <1>2, <2>5
<1> QED
  BY <1>3, <1>4

LEMMA RecordParts ==
    ASSUME NEW d, NEW C, NEW t, Deciding(d, C, t)
    PROVE  /\ d.at = t /\ d.upto = Len(applied) /\ d.results = decide(arb, C, t)
           /\ d.snaps = MarkGap(snapshots(eng, t), GapKnown(t))
           /\ d.context = build(ctx, d.snaps, t)
           /\ SnapsAt(d.snaps, t) /\ Recorded(d, C, t)
<1>1. PICK snaps, context, R : /\ snaps = MarkGap(snapshots(eng, t), GapKnown(t))
                               /\ context = build(ctx, snaps, t) /\ R = decide(arb, C, t)
  OBVIOUS
<1>2. d = [at |-> t, upto |-> Len(applied), snaps |-> snaps, context |-> context, results |-> R]
  BY <1>1 DEF Deciding, RecordOf
<1>3. /\ d.at = t /\ d.upto = Len(applied) /\ d.results = R /\ d.snaps = snaps
      /\ d.context = context
  BY <1>2
<1>4. GapKnown(t) \in BOOLEAN
  BY DEF GapKnown
<1>5. SnapsAt(snaps, t)
  BY <1>1, <1>4, SnapsAtClock
<1>6. OnePer(C, t)
  BY <1>3, <1>5, CandidatesAre DEF Deciding
<1>7. Recorded(d, C, t)
  BY <1>1, <1>3, <1>6 DEF Recorded, Deciding
<1> QED
  BY <1>1, <1>3, <1>5, <1>7

LEMMA CooldownInit == Init => CooldownInv
<1> SUFFICES ASSUME Init PROVE CooldownInv
  OBVIOUS
<1>1. out = {} /\ arb = InitArbitrator
  BY DEF Init
<1>2. arb.clock = None
  BY <1>1 DEF InitArbitrator
<1> QED
  BY <1>1, <1>2 DEF CooldownInv, ClocksInv, ChosenInv

LEMMA CooldownKept == ASSUME CooldownInv, UNCHANGED <<arb, out>> PROVE CooldownInv'
<1>1. ClocksInv'
  BY DEF CooldownInv, ClocksInv
<1>2. ChosenInv'
  BY DEF CooldownInv, ChosenInv
<1> QED
  BY <1>1, <1>2 DEF CooldownInv

\* The steps that are not Decide leave the records and the arbitrator alone.
LEMMA OtherSteps ==
    ASSUME [Next]_vars PROVE Decide \/ UNCHANGED <<arb, feats, out>>
<1>1. ASSUME NEW batch, Receive(batch) PROVE UNCHANGED <<arb, feats, out>>
  BY <1>1 DEF Receive
<1>2. ASSUME NEW kind, Disconnect(kind) PROVE UNCHANGED <<arb, feats, out>>
  BY <1>2 DEF Disconnect
<1>3. Connect => UNCHANGED <<arb, feats, out>>
  BY DEF Connect
<1>4. Certify => UNCHANGED <<arb, feats, out>>
  BY DEF Certify
<1>5. UNCHANGED vars => UNCHANGED <<arb, feats, out>>
  BY DEF vars
<1> QED
  BY <1>1, <1>2, <1>3, <1>4, <1>5 DEF Next

LEMMA CooldownStep == CooldownInv /\ [Next]_vars => CooldownInv'
<1> SUFFICES ASSUME CooldownInv, [Next]_vars PROVE CooldownInv'
  OBVIOUS
<1>1. CASE UNCHANGED <<arb, feats, out>>
  BY <1>1, CooldownKept
<1>2. CASE Decide
  <2>1. CASE UNCHANGED <<eng, ctx, arb, feats, out>>
    BY <2>1, CooldownKept
  <2>2. ASSUME NEW d, NEW C, Deciding(d, C, NextClock) PROVE CooldownInv'
    <3>1. PICK t : t = NextClock
      OBVIOUS
    <3>2. ClockDue
      BY <1>2, DecideCases
    <3>3. t \in Int
      BY <3>1, <3>2, DueIs, NextClockIs
    <3>4. Recorded(d, C, t) /\ ~DecideRefused(arb, t)
      BY <2>2, <3>1, RecordParts DEF Deciding
    <3> QED
      BY <3>3, <3>4, RecordedCooldown
  <2> QED
    BY <1>2, <2>1, <2>2, DecideCases
<1> QED
  BY <1>1, <1>2, OtherSteps

LEMMA CooldownImplied == CooldownInv => CooldownHolds
<1> SUFFICES ASSUME CooldownInv PROVE CooldownHolds
  OBVIOUS
<1>1. PICK chosen : chosen = UNION {{r.cand : r \in {x \in d.results : x.status = "SELECTED"}} : d \in out}
  OBVIOUS
<1>2. \A a \in chosen : \E d \in out : a \in ChosenOf(d)
  BY <1>1 DEF ChosenOf
<1>3. ASSUME NEW a \in chosen, NEW b \in chosen, a # b, a.sym = b.sym PROVE Apart(a, b)
  BY <1>2, <1>3 DEF CooldownInv, ChosenInv
<1>4. ASSUME NEW d \in out PROVE Cardinality({a \in chosen : a.at = d.at}) <= Policy.capacity
  <2>1. PICK H, K : H = ChosenOf(d) /\ K = {a \in chosen : a.at = d.at}
    OBVIOUS
  <2>2. K \in SUBSET H
    <3> SUFFICES ASSUME NEW a \in K PROVE a \in H
      OBVIOUS
    <3>1. PICK e \in out : a \in ChosenOf(e)
      BY <1>2, <2>1
    <3>2. a.at = e.at /\ a.at = d.at
      BY <2>1, <3>1 DEF CooldownInv, ChosenInv
    <3>3. e = d
      BY <3>1, <3>2 DEF CooldownInv, ChosenInv
    <3> QED
      BY <2>1, <3>1, <3>3
  <2>3. IsFiniteSet(H) /\ Cardinality(H) <= Policy.capacity
    BY <2>1 DEF CooldownInv, ChosenInv
  <2>4. Cardinality(K) <= Cardinality(H) /\ Cardinality(K) \in Nat /\ Cardinality(H) \in Nat
    BY <2>2, <2>3, FS_Subset, FS_CardinalityType
  <2>5. Policy.capacity \in Nat
    BY ArbitrationAssumption
  <2> QED
    BY <2>1, <2>3, <2>4, <2>5
<1> QED
  BY <1>1, <1>3, <1>4 DEF CooldownHolds, Apart

\* Two selections of one symbol are at least the cooldown apart, and no clock selects
\* more than the capacity (arbitration/engine.py, CandidateArbitrator.decide).
THEOREM Cooldown == Spec => []CooldownHolds
<1>1. Spec => []CooldownInv
  BY CooldownInit, CooldownStep, PTL DEF Spec
<1> QED
  BY <1>1, CooldownImplied, PTL

-----------------------------------------------------------------------------
(***************************************************************************)
(* Sequences, and the loops of the day: over the messages of a batch, the  *)
(* rows of a second, the segments of a capture and its envelopes.          *)
(***************************************************************************)
IsSequence(s) == \E S : s \in Seq(S)

LEMMA SequenceParts ==
    ASSUME NEW s, IsSequence(s)
    PROVE  Len(s) \in Nat /\ DOMAIN s = 1..Len(s) /\ s = [i \in 1..Len(s) |-> s[i]]
<1>1. PICK S : s \in Seq(S)
  BY DEF IsSequence
<1> QED
  BY <1>1

LEMMA EmptySequence == IsSequence(<<>>) /\ Len(<<>>) = 0 /\ DOMAIN <<>> = {}
<1>1. <<>> \in Seq({})
  OBVIOUS
<1>2. IsSequence(<<>>)
  BY <1>1 DEF IsSequence
<1>3. Len(<<>>) = 0 /\ DOMAIN <<>> = {}
  OBVIOUS
<1> QED
  BY <1>2, <1>3

LEMMA AppendSequence ==
    ASSUME NEW s, IsSequence(s), NEW e
    PROVE  /\ IsSequence(Append(s, e)) /\ Len(Append(s, e)) = Len(s) + 1
           /\ \A i \in 1..Len(s) : Append(s, e)[i] = s[i]
           /\ Append(s, e)[Len(s) + 1] = e
<1>1. PICK S : s \in Seq(S)
  BY DEF IsSequence
<1>2. PICK T : T = S \cup {e}
  OBVIOUS
<1>3. s \in Seq(T) /\ e \in T
  BY <1>1, <1>2, SeqMonotonic
<1>4. Append(s, e) \in Seq(T)
  BY <1>3, AppendProperties
<1>5. IsSequence(Append(s, e))
  BY <1>4 DEF IsSequence
<1> QED
  BY <1>3, <1>5, AppendProperties

LEMMA ConcatSequence ==
    ASSUME NEW s, IsSequence(s), NEW z, IsSequence(z)
    PROVE  /\ IsSequence(s \o z) /\ Len(s \o z) = Len(s) + Len(z)
           /\ \A i \in 1..Len(s) : (s \o z)[i] = s[i]
           /\ \A i \in 1..Len(z) : (s \o z)[Len(s) + i] = z[i]
<1>1. PICK S : s \in Seq(S)
  BY DEF IsSequence
<1>2. PICK Z : z \in Seq(Z)
  BY DEF IsSequence
<1>3. PICK T : T = S \cup Z
  OBVIOUS
<1>4. s \in Seq(T) /\ z \in Seq(T)
  BY <1>1, <1>2, <1>3, SeqMonotonic
<1>5. s \o z \in Seq(T) /\ Len(s \o z) = Len(s) + Len(z)
  BY <1>4, ConcatProperties
<1>6. IsSequence(s \o z)
  BY <1>5 DEF IsSequence
<1>7. \A i \in 1..(Len(s) + Len(z)) : (s \o z)[i] = IF i <= Len(s) THEN s[i] ELSE z[i - Len(s)]
  BY <1>4, ConcatProperties
<1>8. Len(s) \in Nat /\ Len(z) \in Nat
  BY SequenceParts
<1>9. \A i \in 1..Len(s) : (s \o z)[i] = s[i]
  BY <1>7, <1>8
<1>10. ASSUME NEW i \in 1..Len(z) PROVE (s \o z)[Len(s) + i] = z[i]
  <2>1. PICK k : k = Len(s) + i
    OBVIOUS
  <2>2. k \in 1..(Len(s) + Len(z)) /\ ~(k <= Len(s)) /\ k - Len(s) = i
    BY <1>8, <2>1
  <2> QED
    BY <1>7, <2>1, <2>2
<1> QED
  BY <1>5, <1>6, <1>9, <1>10

Replaces(z, s, i, e) == IsSequence(s) /\ i \in 1..Len(s) /\ z = [s EXCEPT ![i] = e]

LEMMA ExceptSequence ==
    ASSUME NEW s, NEW i, NEW e, NEW z, Replaces(z, s, i, e)
    PROVE  /\ IsSequence(z) /\ Len(z) = Len(s) /\ z[i] = e
           /\ \A k \in 1..Len(s) : k # i => z[k] = s[k]
<1>0. IsSequence(s) /\ i \in 1..Len(s) /\ z = [s EXCEPT ![i] = e]
  BY DEF Replaces
<1>1. PICK S : s \in Seq(S)
  BY <1>0 DEF IsSequence
<1>2. PICK T : T = S \cup {e}
  OBVIOUS
<1>3. s \in Seq(T) /\ e \in T
  BY <1>1, <1>2, SeqMonotonic
<1>4. z \in Seq(T) /\ Len(z) = Len(s)
  BY <1>0, <1>3, ExceptSeq
<1>5. IsSequence(z)
  BY <1>4 DEF IsSequence
<1>6. z[i] = e /\ \A k \in 1..Len(s) : k # i => z[k] = s[k]
  BY <1>0, <1>3
<1> QED
  BY <1>4, <1>5, <1>6

\* One round of a loop.
StepOf(loop, x, e) ==
    IF loop.over = "batch" THEN Sending(x, e)
    ELSE IF loop.over = "rows" THEN PipelineApply(x, e)
    ELSE IF loop.over = "day" THEN x \o e.env
    ELSE ReplayStep(loop.day, x, e)

OverBatch == [over |-> "batch"]
OverRows == [over |-> "rows"]
OverDay == [over |-> "day"]
OverReplay(day) == [over |-> "replay", day |-> day]

IsFold(g, loop, base, seq) ==
    g = [s \in SUBSET DOMAIN seq |->
            IF s = {} THEN base ELSE StepOf(loop, g[s \ {Max(s)}], seq[Max(s)])]

LEMMA IsFoldAt ==
    ASSUME NEW g, NEW loop, NEW base, NEW seq, IsFold(g, loop, base, seq),
           NEW s \in SUBSET DOMAIN seq
    PROVE  g[s] = IF s = {} THEN base ELSE StepOf(loop, g[s \ {Max(s)}], seq[Max(s)])
BY DEF IsFold

LEMMA IsFoldFrom ==
    ASSUME NEW g, NEW loop, NEW base, NEW seq, g = [s \in SUBSET DOMAIN seq |-> g[s]],
           \A s \in SUBSET DOMAIN seq :
              g[s] = IF s = {} THEN base ELSE StepOf(loop, g[s \ {Max(s)}], seq[Max(s)])
    PROVE  IsFold(g, loop, base, seq)
BY DEF IsFold

LEMMA MaxOfPlaces ==
    ASSUME NEW N \in Nat, NEW s \in SUBSET (1..N), s # {}
    PROVE  Max(s) \in s /\ \A y \in s : Max(s) >= y
<1>1. AtMost(s, N)
  BY DEF AtMost
<1> QED
  BY <1>1, MaxOf

LEMMA MinOfPlaces ==
    ASSUME NEW N \in Nat, NEW s \in SUBSET (1..N), s # {}
    PROVE  Min(s) \in s /\ \A y \in s : Min(s) <= y
<1>1. AtLeast(s, 0)
  BY DEF AtLeast
<1> QED
  BY <1>1, MinOf

LEMMA FoldsExist ==
    ASSUME NEW loop, NEW base, NEW seq, IsSequence(seq) PROVE \E g : IsFold(g, loop, base, seq)
<1> DEFINE D == DOMAIN seq
           Up(g, n) ==
             /\ g = [s \in SUBSET D |-> g[s]]
             /\ \A s \in SUBSET D : Cardinality(s) <= n =>
                   g[s] = IF s = {} THEN base ELSE StepOf(loop, g[s \ {Max(s)}], seq[Max(s)])
           B == {n \in Nat : ~\E g : Up(g, n)}
<1>0. IsFiniteSet(D) /\ \A s \in SUBSET D : s # {} => Max(s) \in s
  <2>1. PICK N \in Nat : D = 1..N
    BY SequenceParts
  <2>2. IsFiniteSet(D)
    BY <2>1, FS_Interval
  <2>3. \A s \in SUBSET (1..N) : s # {} => Max(s) \in s
    BY MaxOfPlaces
  <2> QED
    BY <2>1, <2>2, <2>3
<1>00. \A s \in SUBSET D : IsFiniteSet(s) /\ Cardinality(s) \in Nat
  BY <1>0, FS_Subset, FS_CardinalityType
<1> HIDE DEF D
<1>1. B = {}
  <2> SUFFICES ASSUME B # {} PROVE FALSE
    OBVIOUS
  <2>1. PICK n \in B : \A m \in B : ~(m < n)
    <3>1. B \in SUBSET Nat
      OBVIOUS
    <3> HIDE DEF B
    <3> QED
      BY <3>1, FirstOf
  <2>2. CASE n = 0
    <3>1. PICK g : g = [s \in SUBSET D |-> base]
      OBVIOUS
    <3>2. \A s \in SUBSET D : Cardinality(s) <= 0 => s = {}
      BY <1>00, FS_EmptySet
    <3>3. Up(g, 0)
      BY <3>1, <3>2
    <3> QED
      BY <2>1, <2>2, <3>3
  <2>3. CASE n # 0
    <3>0. n \in Nat
      BY <2>1
    <3>1. n - 1 \in Nat /\ n - 1 \notin B
      <4>1. n - 1 \in Nat /\ n - 1 < n
        BY <2>3, <3>0
      <4> HIDE DEF B
      <4> QED
        BY <2>1, <4>1
    <3>2. PICK g : Up(g, n - 1)
      BY <3>1
    <3>3. PICK h : h = [s \in SUBSET D |-> IF s = {} \/ Cardinality(s) <= n - 1 THEN g[s]
                                           ELSE StepOf(loop, g[s \ {Max(s)}], seq[Max(s)])]
      OBVIOUS
    <3>4. ASSUME NEW s \in SUBSET D, Cardinality(s) <= n
          PROVE  h[s] = IF s = {} THEN base ELSE StepOf(loop, h[s \ {Max(s)}], seq[Max(s)])
      <4>1. CASE s = {}
        <5>1. Cardinality(s) <= n - 1
          BY <3>1, <4>1, FS_EmptySet
        <5>2. g[s] = base
          BY <3>2, <4>1, <5>1
        <5> QED
          BY <3>3, <4>1, <5>2
      <4>2. CASE s # {}
        <5>1. PICK t, m : m = Max(s) /\ t = s \ {m}
          OBVIOUS
        <5>2. m \in s
          BY <1>0, <4>2, <5>1
        <5>3. t \in SUBSET D /\ Cardinality(t) <= n - 1 /\ Cardinality(s) \in Nat
          BY <1>00, <3>0, <3>4, <5>1, <5>2, Smaller
        <5>4. h[t] = g[t]
          BY <3>3, <5>3
        <5>5. h[s] = StepOf(loop, g[t], seq[m])
          BY <3>2, <3>3, <4>2, <5>1
        <5> QED
          BY <4>2, <5>1, <5>4, <5>5
      <4> QED
        BY <4>1, <4>2
    <3>5. h = [s \in SUBSET D |-> h[s]]
      BY <3>3
    <3>6. Up(h, n)
      BY <3>4, <3>5
    <3> QED
      BY <2>1, <3>6
  <2> QED
    BY <2>2, <2>3
<1>2. Cardinality(D) \in Nat
  BY <1>0, FS_CardinalityType
<1>3. PICK g : Up(g, Cardinality(D))
  BY <1>1, <1>2
<1>4. \A s \in SUBSET D : Cardinality(s) <= Cardinality(D)
  BY <1>0, FS_Subset
<1>5. IsFold(g, loop, base, seq)
  BY <1>3, <1>4, IsFoldFrom DEF D
<1> QED
  BY <1>5

\* The rounds of a fold, one by one.
LEMMA FoldRounds ==
    ASSUME NEW g, NEW loop, NEW base, NEW seq, IsSequence(seq), IsFold(g, loop, base, seq)
    PROVE  \E f : /\ f[0] = base /\ f[Len(seq)] = g[DOMAIN seq]
                  /\ \A n \in 1..Len(seq) : f[n] = StepOf(loop, f[n - 1], seq[n])
<1>1. PICK N \in Nat : N = Len(seq) /\ DOMAIN seq = 1..N
  BY SequenceParts
<1>2. PICK f : f = [n \in 0..N |-> g[1..n]]
  OBVIOUS
<1>3. f[0] = base
  <2>1. 1..0 = {} /\ 0 \in 0..N
    OBVIOUS
  <2>2. {} \in SUBSET DOMAIN seq
    OBVIOUS
  <2>3. g[{}] = base
    BY <2>2, IsFoldAt
  <2> QED
    BY <1>2, <2>1, <2>3
<1>4. f[N] = g[DOMAIN seq]
  BY <1>1, <1>2
<1>5. ASSUME NEW n \in 1..N PROVE f[n] = StepOf(loop, f[n - 1], seq[n])
  <2>1. PICK s, m : s = 1..n /\ m = Max(s)
    OBVIOUS
  <2>2. s \in SUBSET (1..N) /\ s # {} /\ n \in s
    BY <2>1
  <2>3. m \in s /\ m >= n
    BY <2>1, <2>2, MaxOfPlaces
  <2>4. m = n
    BY <2>1, <2>3
  <2>5. s \ {m} = 1..(n - 1)
    BY <2>1, <2>4
  <2>6. g[s] = StepOf(loop, g[s \ {m}], seq[m])
    <3>1. s \in SUBSET DOMAIN seq
      BY <1>1, <2>2
    <3>2. g[s] = IF s = {} THEN base ELSE StepOf(loop, g[s \ {Max(s)}], seq[Max(s)])
      BY <3>1, IsFoldAt
    <3> QED
      BY <2>1, <2>2, <3>2
  <2>7. f[n] = g[s] /\ f[n - 1] = g[1..(n - 1)]
    BY <1>2, <2>1
  <2> QED
    BY <2>4, <2>5, <2>6, <2>7
<1> QED
  BY <1>1, <1>3, <1>4, <1>5

\* The messages of a batch, one by one.
LEMMA BatchLoop ==
    ASSUME NEW batch, IsSequence(batch)
    PROVE  \E f : /\ f[0] = [p |-> provider, rows |-> <<>>] /\ f[Len(batch)] = Sent(batch)
                  /\ \A n \in 1..Len(batch) : f[n] = Sending(f[n - 1], batch[n])
<1>1. PICK L : L = OverBatch
  OBVIOUS
<1>2. \A x, e : StepOf(L, x, e) = Sending(x, e)
  BY <1>1 DEF StepOf, OverBatch
<1>3. PICK d : d = CHOOSE g : IsFold(g, L, [p |-> provider, rows |-> <<>>], batch)
  OBVIOUS
<1>4. IsFold(d, L, [p |-> provider, rows |-> <<>>], batch)
  BY <1>3, FoldsExist
<1>5. ASSUME NEW g
      PROVE  IsFold(g, L, [p |-> provider, rows |-> <<>>], batch) <=>
               g = [s \in SUBSET DOMAIN batch |->
                      IF s = {} THEN [p |-> provider, rows |-> <<>>] ELSE Sending(g[s \ {Max(s)}], batch[Max(s)])]
  <2>1. [s \in SUBSET DOMAIN batch |->
            IF s = {} THEN [p |-> provider, rows |-> <<>>] ELSE StepOf(L, g[s \ {Max(s)}], batch[Max(s)])] =
        [s \in SUBSET DOMAIN batch |->
            IF s = {} THEN [p |-> provider, rows |-> <<>>] ELSE Sending(g[s \ {Max(s)}], batch[Max(s)])]
    BY <1>2
  <2> QED
    BY <2>1 DEF IsFold
<1>6. Sent(batch) = d[DOMAIN batch]
  <2>1. PICK c : c = CHOOSE g : g = [s \in SUBSET DOMAIN batch |->
                                      IF s = {} THEN [p |-> provider, rows |-> <<>>] ELSE Sending(g[s \ {Max(s)}], batch[Max(s)])]
    OBVIOUS
  <2>2. c = d
    BY <1>3, <1>5, <2>1, Zenon
  <2>3. Sent(batch) = c[DOMAIN batch]
    BY <2>1 DEF Sent, FoldLeft, MapThenFoldSet
  <2> QED
    BY <2>2, <2>3
<1>7. PICK f : /\ f[0] = [p |-> provider, rows |-> <<>>] /\ f[Len(batch)] = d[DOMAIN batch]
               /\ \A n \in 1..Len(batch) : f[n] = StepOf(L, f[n - 1], batch[n])
  BY <1>4, FoldRounds
<1>8. \A n \in 1..Len(batch) : f[n] = Sending(f[n - 1], batch[n])
  BY <1>2, <1>7
<1>9. f[0] = [p |-> provider, rows |-> <<>>] /\ f[Len(batch)] = Sent(batch)
  BY <1>6, <1>7
<1> QED
  BY <1>8, <1>9, Zenon

\* The rows of a second, one by one.
LEMMA RowsLoop ==
    ASSUME NEW rows, IsSequence(rows)
    PROVE  \E f : /\ f[0] = Pipeline /\ f[Len(rows)] = FoldLeft(PipelineApply, Pipeline, rows)
                  /\ \A n \in 1..Len(rows) : f[n] = PipelineApply(f[n - 1], rows[n])
<1>1. PICK L : L = OverRows
  OBVIOUS
<1>2. \A x, e : StepOf(L, x, e) = PipelineApply(x, e)
  BY <1>1 DEF StepOf, OverRows
<1>3. PICK d : d = CHOOSE g : IsFold(g, L, Pipeline, rows)
  OBVIOUS
<1>4. IsFold(d, L, Pipeline, rows)
  BY <1>3, FoldsExist
<1>5. ASSUME NEW g
      PROVE  IsFold(g, L, Pipeline, rows) <=>
               g = [s \in SUBSET DOMAIN rows |->
                      IF s = {} THEN Pipeline ELSE PipelineApply(g[s \ {Max(s)}], rows[Max(s)])]
  <2>1. [s \in SUBSET DOMAIN rows |->
            IF s = {} THEN Pipeline ELSE StepOf(L, g[s \ {Max(s)}], rows[Max(s)])] =
        [s \in SUBSET DOMAIN rows |->
            IF s = {} THEN Pipeline ELSE PipelineApply(g[s \ {Max(s)}], rows[Max(s)])]
    BY <1>2
  <2> QED
    BY <2>1 DEF IsFold
<1>6. FoldLeft(PipelineApply, Pipeline, rows) = d[DOMAIN rows]
  <2>1. PICK c : c = CHOOSE g : g = [s \in SUBSET DOMAIN rows |->
                                      IF s = {} THEN Pipeline ELSE PipelineApply(g[s \ {Max(s)}], rows[Max(s)])]
    OBVIOUS
  <2>2. c = d
    BY <1>3, <1>5, <2>1, Zenon
  <2>3. FoldLeft(PipelineApply, Pipeline, rows) = c[DOMAIN rows]
    BY <2>1 DEF FoldLeft, MapThenFoldSet
  <2> QED
    BY <2>2, <2>3
<1>7. PICK f : /\ f[0] = Pipeline /\ f[Len(rows)] = d[DOMAIN rows]
               /\ \A n \in 1..Len(rows) : f[n] = StepOf(L, f[n - 1], rows[n])
  BY <1>4, FoldRounds
<1>8. \A n \in 1..Len(rows) : f[n] = PipelineApply(f[n - 1], rows[n])
  BY <1>2, <1>7
<1>9. f[0] = Pipeline /\ f[Len(rows)] = FoldLeft(PipelineApply, Pipeline, rows)
  BY <1>6, <1>7
<1> QED
  BY <1>8, <1>9, Zenon

\* The segments of a capture, one by one.
LEMMA DayLoop ==
    ASSUME NEW day, IsSequence(day)
    PROVE  \E f : /\ f[0] = <<>> /\ f[Len(day)] = DayEnvelopes(day)
                  /\ \A n \in 1..Len(day) : f[n] = f[n - 1] \o day[n].env
<1>1. PICK L : L = OverDay
  OBVIOUS
<1>2. \A x, e : StepOf(L, x, e) = x \o e.env
  BY <1>1 DEF StepOf, OverDay
<1>3. PICK d : d = CHOOSE g : IsFold(g, L, <<>>, day)
  OBVIOUS
<1>4. IsFold(d, L, <<>>, day)
  BY <1>3, FoldsExist
<1>5. ASSUME NEW g
      PROVE  IsFold(g, L, <<>>, day) <=>
               g = [s \in SUBSET DOMAIN day |->
                      IF s = {} THEN <<>> ELSE g[s \ {Max(s)}] \o day[Max(s)].env]
  <2>1. [s \in SUBSET DOMAIN day |->
            IF s = {} THEN <<>> ELSE StepOf(L, g[s \ {Max(s)}], day[Max(s)])] =
        [s \in SUBSET DOMAIN day |->
            IF s = {} THEN <<>> ELSE g[s \ {Max(s)}] \o day[Max(s)].env]
    BY <1>2
  <2> QED
    BY <2>1 DEF IsFold
<1>6. DayEnvelopes(day) = d[DOMAIN day]
  <2>1. PICK c : c = CHOOSE g : g = [s \in SUBSET DOMAIN day |->
                                      IF s = {} THEN <<>> ELSE g[s \ {Max(s)}] \o day[Max(s)].env]
    OBVIOUS
  <2>2. c = d
    BY <1>3, <1>5, <2>1, Zenon
  <2>3. DayEnvelopes(day) = c[DOMAIN day]
    BY <2>1 DEF DayEnvelopes, FoldLeft, MapThenFoldSet
  <2> QED
    BY <2>2, <2>3
<1>7. PICK f : /\ f[0] = <<>> /\ f[Len(day)] = d[DOMAIN day]
               /\ \A n \in 1..Len(day) : f[n] = StepOf(L, f[n - 1], day[n])
  BY <1>4, FoldRounds
<1>8. \A n \in 1..Len(day) : f[n] = f[n - 1] \o day[n].env
  BY <1>2, <1>7
<1>9. f[0] = <<>> /\ f[Len(day)] = DayEnvelopes(day)
  BY <1>6, <1>7
<1> QED
  BY <1>8, <1>9, Zenon

\* Induction up to a bound.
LEMMA UpTo ==
    ASSUME NEW N \in Nat, NEW B, 0 \in B, \A n \in 1..N : n - 1 \in B => n \in B
    PROVE  \A n \in 0..N : n \in B
<1> DEFINE C == {n \in 0..N : n \notin B}
<1>1. C = {}
  <2> SUFFICES ASSUME C # {} PROVE FALSE
    OBVIOUS
  <2>1. PICK n \in C : \A m \in C : ~(m < n)
    <3>1. C \in SUBSET Nat
      OBVIOUS
    <3> HIDE DEF C
    <3> QED
      BY <3>1, FirstOf
  <2>2. n \in 1..N /\ n - 1 \in 0..N /\ n - 1 < n
    BY <2>1
  <2>3. n - 1 \notin C
    <3> HIDE DEF C
    <3> QED
      BY <2>1, <2>2
  <2> QED
    BY <2>1, <2>2, <2>3
<1> QED
  BY <1>1

-----------------------------------------------------------------------------
(***************************************************************************)
(* The capture: every row carries its session, its place in it and the     *)
(* second it was received in.                                              *)
(***************************************************************************)
Totals(p) ==
    /\ DOMAIN p = Symbols \cup Indices
    /\ \A s \in Symbols \cup Indices : p[s].price \in Int /\ p[s].total \in Int

Envelopes(x) ==
    [ses : Nat, seq : Nat, at : Int, ok : {TRUE}, type : {x.type}, sym : {x.sym},
     ctx : {"indices", "markets", "symbols"}, et : Int, price : Int, qty : Int,
     side : {"U", x.side}, cum : Int, bids : Seq(Int \X Int), asks : Seq(Int \X Int),
     status : {x.via}, start : Int, open : Int, high : Int, low : Int, close : Int,
     volume : Int]

IsMessage(x) == x.qty \in Nat /\ x.dp \in Int /\ x.lag \in Int /\ None \notin Envelopes(x)

Messages(batch) == IsSequence(batch) /\ \A i \in 1..Len(batch) : IsMessage(batch[i])

IsRow(r) ==
    /\ r.ses \in Nat /\ r.seq \in Nat /\ r.at \in Int /\ r.et \in Int
    /\ r.qty \in Int /\ r.price \in Int /\ r.cum \in Int
    /\ r.ctx = "indices" => r.sym \in Indices
    /\ r # None

Captured(r, ses, seq, at) == IsRow(r) /\ r.ses = ses /\ r.seq = seq /\ r.at = at

LEMMA PricedTotals ==
    ASSUME NEW p, Totals(p), NEW x, x.qty \in Nat, x.dp \in Int PROVE Totals(Priced(p, x))
<1>1. CASE x.sym \notin DOMAIN p
  BY <1>1 DEF Priced
<1>2. CASE x.sym \in DOMAIN p
  <2>1. PICK s, price, total :
           /\ s = x.sym /\ price = p[s].price + x.dp
           /\ total = p[s].total + (IF x.type # "trade" \/ x.via = "repeat" THEN 0
                                    ELSE IF x.via = "lost" THEN x.qty + 1 ELSE x.qty)
    OBVIOUS
  <2>2. s \in Symbols \cup Indices
    BY <1>2, <2>1 DEF Totals
  <2>3. price \in Int /\ total \in Int
    BY <2>1, <2>2 DEF Totals
  <2>4. Priced(p, x) = [p EXCEPT ![s] = [price |-> price, total |-> total]]
    BY <1>2, <2>1 DEF Priced
  <2> QED
    BY <2>2, <2>3, <2>4 DEF Totals
<1> QED
  BY <1>1, <1>2

LEMMA EnvelopeRow ==
    ASSUME NEW x, IsMessage(x), NEW p, Totals(p), NEW ses \in Nat,
           NEW seq \in Nat, NEW at \in Int
    PROVE  Captured(Envelope(x, p, ses, seq, at), ses, seq, at)
<1>1. PICK price, cum :
         /\ price = (IF x.sym \in DOMAIN p THEN p[x.sym].price ELSE 0)
         /\ cum = (IF x.sym \in DOMAIN p THEN p[x.sym].total ELSE 0)
  OBVIOUS
<1>2. price \in Int /\ cum \in Int
  BY <1>1 DEF Totals
<1>3. PICK r : r = Envelope(x, p, ses, seq, at)
  OBVIOUS
<1> USE DEF IsMessage
<1>4. /\ r.ses = ses /\ r.seq = seq /\ r.at = at /\ r.et = at - x.lag
      /\ r.price = (IF x.side = "A" THEN 0 ELSE price)
      /\ r.qty = (IF x.side = "A" THEN 0 ELSE x.qty) /\ r.cum = cum
  BY <1>1, <1>3 DEF Envelope
<1>5. r.sym = x.sym /\ r.ctx = (IF x.sym \in Indices THEN "indices"
                              ELSE IF x.sym \in Markets THEN "markets" ELSE "symbols")
  BY <1>3 DEF Envelope
<1>6. r.ctx = "indices" => r.sym \in Indices
  BY <1>5
<1>7. r # None
  <2>1. PICK scope, start, side, qty, last :
           /\ scope = (IF x.sym \in Indices THEN "indices"
                       ELSE IF x.sym \in Markets THEN "markets" ELSE "symbols")
           /\ start = at - (at % Minute) /\ last = (IF x.side = "A" THEN 0 ELSE price)
           /\ side = (IF x.side = "A" THEN "U" ELSE x.side)
           /\ qty = (IF x.side = "A" THEN 0 ELSE x.qty)
    OBVIOUS
  <2>2. PICK bids, asks : /\ bids = <<<<price - 1, x.qty>>>> /\ asks = <<<<price + 1, 2>>>>
    OBVIOUS
  <2>3. /\ scope \in {"indices", "markets", "symbols"} /\ start \in Int /\ last \in Int
        /\ side \in {"U", x.side} /\ qty \in Int
    BY <1>2, <2>1, ContextAssumption
  <2>4. bids \in Seq(Int \X Int) /\ asks \in Seq(Int \X Int)
    BY <1>2, <2>2
  <2>5. r = [ses |-> ses, seq |-> seq, at |-> at, ok |-> TRUE, type |-> x.type, sym |-> x.sym,
             ctx |-> scope, et |-> at - x.lag, price |-> last, qty |-> qty, side |-> side,
             cum |-> cum, bids |-> bids, asks |-> asks, status |-> x.via, start |-> start,
             open |-> price, high |-> price, low |-> price, close |-> price, volume |-> x.qty]
    BY <1>1, <1>3, <2>1, <2>2 DEF Envelope
  <2>6. PICK et : et = at - x.lag
    OBVIOUS
  <2>7. et \in Int /\ x.qty \in Int
    BY <2>6
  <2>8. r \in Envelopes(x)
    BY <1>2, <2>3, <2>4, <2>5, <2>6, <2>7 DEF Envelopes
  <2> QED
    BY <2>8
<1> QED
  BY <1>2, <1>3, <1>4, <1>6, <1>7 DEF Captured, IsRow

\* What a second captures of a batch.
CapturedRows(rows, ses, from, at) ==
    /\ IsSequence(rows)
    /\ \A i \in 1..Len(rows) : Captured(rows[i], ses, from + i, at)

LEMMA SentFacts ==
    ASSUME now \in Int, Totals(provider), Current.id \in Nat, Len(Current.env) \in Nat,
           NEW batch, Messages(batch)
    PROVE  /\ Totals(Sent(batch).p)
           /\ CapturedRows(Sent(batch).rows, Current.id, Len(Current.env), now)
<1>1. PICK id \in Nat, from \in Nat, at \in Int :
         id = Current.id /\ from = Len(Current.env) /\ at = now
  OBVIOUS
<1>2. IsSequence(batch)
  BY DEF Messages
<1>3. PICK N \in Nat : N = Len(batch)
  BY <1>2, SequenceParts
<1>4. PICK f : /\ f[0] = [p |-> provider, rows |-> <<>>] /\ f[N] = Sent(batch)
               /\ \A n \in 1..N : f[n] = Sending(f[n - 1], batch[n])
  BY <1>2, <1>3, BatchLoop
<1> DEFINE Good(y) == Totals(y.p) /\ CapturedRows(y.rows, id, from, at)
           B == {n \in 0..N : Good(f[n])}
<1>5. 0 \in B
  <2>1. f[0].p = provider /\ f[0].rows = <<>>
    BY <1>4
  <2>2. CapturedRows(<<>>, id, from, at)
    BY EmptySequence DEF CapturedRows
  <2> QED
    BY <2>1, <2>2
<1>6. ASSUME NEW n \in 1..N, n - 1 \in B PROVE n \in B
  <2>1. PICK y, x : y = f[n - 1] /\ x = batch[n]
    OBVIOUS
  <2>2. Totals(y.p) /\ CapturedRows(y.rows, id, from, at)
    BY <1>6, <2>1
  <2>3. IsMessage(x) /\ x.qty \in Nat /\ x.dp \in Int
    BY <1>3, <2>1 DEF Messages, IsMessage
  <2>4. PICK p, k : p = Priced(y.p, x) /\ k = from + Len(y.rows) + 1
    OBVIOUS
  <2>5. Totals(p)
    BY <2>2, <2>3, <2>4, PricedTotals
  <2>6. IsSequence(y.rows) /\ Len(y.rows) \in Nat
    BY <2>2, SequenceParts DEF CapturedRows
  <2>7. k \in Nat
    BY <2>4, <2>6
  <2>8. PICK r : r = Envelope(x, p, id, k, at)
    OBVIOUS
  <2>9. Captured(r, id, k, at)
    BY <2>3, <2>5, <2>7, <2>8, EnvelopeRow
  <2>10. PICK z : z = Append(y.rows, r)
    OBVIOUS
  <2>11. f[n] = [p |-> p, rows |-> z]
    BY <1>1, <1>4, <2>1, <2>4, <2>8, <2>10 DEF Sending
  <2>12. /\ IsSequence(z) /\ Len(z) = Len(y.rows) + 1 /\ z[Len(y.rows) + 1] = r
         /\ \A i \in 1..Len(y.rows) : z[i] = y.rows[i]
    BY <2>6, <2>10, AppendSequence
  <2>13. ASSUME NEW i \in 1..Len(z) PROVE Captured(z[i], id, from + i, at)
    <3>1. CASE i \in 1..Len(y.rows)
      BY <2>2, <2>12, <3>1 DEF CapturedRows
    <3>2. CASE i = Len(y.rows) + 1
      <4>1. from + i = k
        BY <2>4, <2>6, <3>2
      <4> QED
        BY <2>9, <2>12, <3>2, <4>1
    <3>3. i \in 1..Len(y.rows) \/ i = Len(y.rows) + 1
      BY <2>6, <2>12
    <3> QED
      BY <3>1, <3>2, <3>3
  <2>14. CapturedRows(z, id, from, at)
    BY <2>12, <2>13 DEF CapturedRows
  <2>15. Good(f[n])
    BY <2>5, <2>11, <2>14
  <2> QED
    BY <2>15
<1>7. N \in B
  <2> HIDE DEF B
  <2>1. \A n \in 1..N : n - 1 \in B => n \in B
    BY <1>6
  <2>2. \A n \in 0..N : n \in B
    BY <1>5, <2>1, UpTo
  <2> QED
    BY <2>2
<1> QED
  BY <1>1, <1>4, <1>7

LEMMA FunctionSequence ==
    ASSUME NEW N \in Nat, NEW z, DOMAIN z = 1..N, z = [i \in DOMAIN z |-> z[i]]
    PROVE  IsSequence(z) /\ Len(z) = N
<1>1. PICK S : S = {z[i] : i \in 1..N}
  OBVIOUS
<1>2. z \in [1..N -> S]
  BY <1>1
<1>3. z \in Seq(S) /\ Len(z) = N
  BY <1>2, IsASeq
<1> QED
  BY <1>3 DEF IsSequence

IsManifest(x) ==
    /\ x = [id |-> x.id, symbols |-> x.symbols, connected |-> x.connected,
            disconnected |-> x.disconnected, published |-> x.published, kind |-> x.kind,
            hb |-> x.hb, env |-> x.env]
    /\ x.connected \in Int /\ x.disconnected \in Int

\* The rows of session ses, each at its place.
SessionRows(env, ses) ==
    /\ IsSequence(env)
    /\ \A k \in 1..Len(env) : Captured(env[k], ses, k, env[k].at)

CaptureInv ==
    /\ now \in Int /\ menu \in DOMAIN Menus /\ Totals(provider)
    /\ IsSequence(sessions) /\ Len(sessions) >= 1
    /\ \A i \in 1..Len(sessions) : /\ IsManifest(sessions[i]) /\ sessions[i].id = i
                                   /\ SessionRows(sessions[i].env, i)

LEMMA ExtendedRows ==
    ASSUME NEW env, NEW ses, SessionRows(env, ses), NEW rows, NEW at,
           CapturedRows(rows, ses, Len(env), at)
    PROVE  SessionRows(env \o rows, ses)
<1>1. IsSequence(env) /\ IsSequence(rows)
  BY DEF SessionRows, CapturedRows
<1>2. PICK z, m, l : z = env \o rows /\ m = Len(env) /\ l = Len(rows)
  OBVIOUS
<1>3. m \in Nat /\ l \in Nat
  BY <1>1, <1>2, SequenceParts
<1>4. /\ IsSequence(z) /\ Len(z) = m + l
      /\ \A k \in 1..m : z[k] = env[k]
      /\ \A k \in 1..l : z[m + k] = rows[k]
  BY <1>1, <1>2, ConcatSequence
<1>5. ASSUME NEW k \in 1..Len(z) PROVE Captured(z[k], ses, k, z[k].at)
  <2>1. CASE k \in 1..m
    BY <1>2, <1>4, <2>1 DEF SessionRows
  <2>2. CASE k \notin 1..m
    <3>1. PICK i : i = k - m
      OBVIOUS
    <3>2. i \in 1..l /\ k = m + i
      BY <1>3, <1>4, <2>2, <3>1
    <3>3. Captured(rows[i], ses, m + i, at)
      BY <1>2, <3>2 DEF CapturedRows
    <3>4. z[k] = rows[i]
      BY <1>4, <3>2
    <3> QED
      BY <3>2, <3>3, <3>4 DEF Captured
  <2> QED
    BY <2>1, <2>2
<1> QED
  BY <1>2, <1>4, <1>5 DEF SessionRows

\* The capture after a change of its last session.
LEMMA CaptureChanged ==
    ASSUME CaptureInv, now' \in Int, menu' = menu, Totals(provider'),
           NEW x, IsManifest(x), x.id = Len(sessions), SessionRows(x.env, Len(sessions)),
           sessions' = [sessions EXCEPT ![Len(sessions)] = x]
    PROVE  CaptureInv'
<1>1. PICK N \in Nat : N = Len(sessions) /\ DOMAIN sessions = 1..N /\ N >= 1
  BY SequenceParts DEF CaptureInv
<1>2. /\ IsSequence(sessions') /\ Len(sessions') = N /\ sessions'[N] = x
      /\ \A i \in 1..N : i # N => sessions'[i] = sessions[i]
  <2>1. PICK s, z : s = sessions /\ z = sessions'
    OBVIOUS
  <2>2. Replaces(z, s, N, x)
    BY <1>1, <2>1 DEF CaptureInv, Replaces
  <2>3. /\ IsSequence(z) /\ Len(z) = Len(s) /\ z[N] = x
        /\ \A k \in 1..Len(s) : k # N => z[k] = s[k]
    BY <2>2, ExceptSequence
  <2> QED
    BY <1>1, <2>1, <2>3
<1>3. \A i \in 1..N : /\ IsManifest(sessions'[i]) /\ sessions'[i].id = i
                      /\ SessionRows(sessions'[i].env, i)
  BY <1>1 DEF CaptureInv
<1> QED
  BY <1>1, <1>2, <1>3 DEF CaptureInv

LEMMA CaptureInit == Init => CaptureInv
<1> SUFFICES ASSUME Init PROVE CaptureInv
  OBVIOUS
<1>1. menu \in DOMAIN Menus /\ now = FirstBatch[menu] /\ now \in Int
  BY DayAssumption DEF Init
<1>2. provider = [s \in Symbols \cup Indices |-> [total |-> 0, price |-> BasePrice]]
  BY DEF Init
<1>3. Totals(provider)
  BY <1>2, DayAssumption DEF Totals
<1>4. PICK x : x = Open(1, Start)
  OBVIOUS
<1>5. sessions = <<x>>
  BY <1>4 DEF Init
<1>6. x.id = 1 /\ IsManifest(x) /\ x.env = <<>>
  BY <1>4, DayAssumption DEF Open, IsManifest
<1>7. SessionRows(x.env, 1)
  BY <1>6, EmptySequence DEF SessionRows
<1>8. IsSequence(sessions) /\ Len(sessions) = 1 /\ sessions[1] = x
  <2>1. <<x>> \in Seq({x})
    OBVIOUS
  <2> QED
    BY <1>5, <2>1 DEF IsSequence
<1> QED
  BY <1>1, <1>3, <1>6, <1>7, <1>8 DEF CaptureInv

\* A batch of the menu.
LEMMA BatchIs ==
    ASSUME CaptureInv, NEW batch, batch \in IF down THEN {<<>>} ELSE Menus[menu]
    PROVE  Messages(batch) /\ (down => batch = <<>>)
<1>1. CASE down
  BY <1>1, EmptySequence DEF Messages
<1>2. CASE ~down
  <2>1. menu \in DOMAIN Menus /\ batch \in Menus[menu]
    BY <1>2 DEF CaptureInv
  <2>2. batch \in Seq(Range(batch)) /\ DOMAIN batch = 1..Len(batch)
    <3>1. batch \in Seq(Range(batch))
      BY <2>1, DayAssumption, Zenon
    <3> QED
      BY <3>1
  <2>3. \A x \in Range(batch) : IsMessage(x)
    BY <2>1, DayAssumption DEF IsMessage, Envelopes
  <2>4. \A i \in DOMAIN batch : batch[i] \in Range(batch)
    BY DEF Range
  <2>5. \A i \in 1..Len(batch) : IsMessage(batch[i])
    BY <2>2, <2>3, <2>4
  <2> QED
    BY <1>2, <2>2, <2>5 DEF Messages, IsSequence
<1> QED
  BY <1>1, <1>2

LEMMA CurrentIs ==
    ASSUME CaptureInv
    PROVE  /\ Current = sessions[Len(sessions)] /\ Current.id = Len(sessions)
           /\ Len(sessions) \in Nat /\ Len(sessions) >= 1 /\ IsManifest(Current)
           /\ DOMAIN sessions = 1..Len(sessions)
           /\ SessionRows(Current.env, Current.id) /\ Len(Current.env) \in Nat
<1>1. PICK N \in Nat : N = Len(sessions) /\ DOMAIN sessions = 1..N /\ N >= 1
  BY SequenceParts DEF CaptureInv
<1>2. Current = sessions[N]
  BY <1>1 DEF Current
<1>3. sessions[N].id = N /\ SessionRows(sessions[N].env, N) /\ IsManifest(sessions[N])
  BY <1>1 DEF CaptureInv
<1>4. Len(sessions[N].env) \in Nat
  BY <1>3, SequenceParts DEF SessionRows
<1> QED
  BY <1>1, <1>2, <1>3, <1>4

\* What a second receives: nothing while the transport is down.
LEMMA ReceivedRows ==
    ASSUME CaptureInv, NEW batch, batch \in IF down THEN {<<>>} ELSE Menus[menu]
    PROVE  /\ Totals(Sent(batch).p) /\ IsSequence(Sent(batch).rows)
           /\ CapturedRows(Sent(batch).rows, Len(sessions), Len(Current.env), now)
<1>1. Messages(batch)
  BY BatchIs
<1>2. now \in Int /\ Totals(provider)
  BY DEF CaptureInv
<1>3. Current.id = Len(sessions) /\ Current.id \in Nat /\ Len(Current.env) \in Nat
  BY CurrentIs
<1>4. /\ Totals(Sent(batch).p)
      /\ CapturedRows(Sent(batch).rows, Current.id, Len(Current.env), now)
  BY <1>1, <1>2, <1>3, SentFacts
<1> QED
  BY <1>3, <1>4 DEF CapturedRows

LEMMA ReceiveCapture ==
    ASSUME CaptureInv, NEW batch, batch \in IF down THEN {<<>>} ELSE Menus[menu], Receive(batch)
    PROVE  CaptureInv'
<1>1. PICK sent : sent = Sent(batch)
  OBVIOUS
<1>2. /\ provider' = sent.p /\ now' = now + 1 /\ menu' = menu
      /\ sessions' = IF down THEN sessions
                     ELSE [sessions EXCEPT ![Len(sessions)].env = @ \o sent.rows,
                                           ![Len(sessions)].hb = now]
  BY <1>1 DEF Receive
<1>3. Totals(provider') /\ now' \in Int /\ menu' = menu
  BY <1>1, <1>2, ReceivedRows DEF CaptureInv
<1>4. CASE down
  BY <1>2, <1>3, <1>4 DEF CaptureInv
<1>5. CASE ~down
  <2>1. PICK N, c, rows : N = Len(sessions) /\ c = Current /\ rows = sent.rows
    OBVIOUS
  <2>2. /\ c = sessions[N] /\ c.id = N /\ N \in Nat /\ N >= 1 /\ IsManifest(c)
        /\ DOMAIN sessions = 1..N /\ SessionRows(c.env, N)
    BY <2>1, CurrentIs
  <2>3. CapturedRows(rows, N, Len(c.env), now)
    BY <1>1, <2>1, ReceivedRows
  <2>4. SessionRows(c.env \o rows, N)
    BY <2>2, <2>3, ExtendedRows
  <2>5. PICK x : x = [c EXCEPT !.env = c.env \o rows, !.hb = now]
    OBVIOUS
  <2>6. /\ x.id = c.id /\ x.env = c.env \o rows /\ IsManifest(x)
    BY <2>2, <2>5 DEF IsManifest
  <2>7. sessions' = [sessions EXCEPT ![N] = x]
    BY <1>2, <1>5, <2>1, <2>2, <2>5
  <2>8. x.id = N /\ SessionRows(x.env, N)
    BY <2>2, <2>4, <2>6
  <2> QED
    BY <1>3, <2>1, <2>6, <2>7, <2>8, CaptureChanged
<1> QED
  BY <1>4, <1>5

LEMMA ConnectCapture == ASSUME CaptureInv, Connect PROVE CaptureInv'
<1>1. PICK N \in Nat : N = Len(sessions) /\ N >= 1
  BY CurrentIs
<1>2. PICK x : x = Open(N + 1, now)
  OBVIOUS
<1>3. sessions' = Append(sessions, x) /\ UNCHANGED <<now, menu, provider>>
  BY <1>1, <1>2 DEF Connect
<1>4. x.id = N + 1 /\ IsManifest(x) /\ x.env = <<>>
  BY <1>2 DEF Open, IsManifest, CaptureInv
<1>5. SessionRows(x.env, N + 1)
  BY <1>4, EmptySequence DEF SessionRows
<1>6. /\ IsSequence(sessions') /\ Len(sessions') = N + 1 /\ sessions'[N + 1] = x
      /\ \A i \in 1..N : sessions'[i] = sessions[i]
  BY <1>1, <1>3, AppendSequence DEF CaptureInv
<1>7. \A i \in 1..N : /\ IsManifest(sessions[i]) /\ sessions[i].id = i
                      /\ SessionRows(sessions[i].env, i)
  BY <1>1 DEF CaptureInv
<1>8. ASSUME NEW i \in 1..(N + 1)
      PROVE  /\ IsManifest(sessions'[i]) /\ sessions'[i].id = i /\ SessionRows(sessions'[i].env, i)
  <2>1. i \in 1..N \/ i = N + 1
    OBVIOUS
  <2> QED
    BY <1>4, <1>5, <1>6, <1>7, <2>1
<1> QED
  BY <1>1, <1>3, <1>6, <1>8 DEF CaptureInv

\* A session ended by a disconnection or at the close.
LEMMA EndedCapture ==
    ASSUME CaptureInv, now' = now, menu' = menu, provider' = provider, NEW x,
           x.disconnected \in Int,
           x = [Current EXCEPT !.disconnected = x.disconnected, !.published = x.published,
                               !.hb = x.hb, !.kind = x.kind],
           sessions' = [sessions EXCEPT ![Len(sessions)] = x]
    PROVE  CaptureInv'
<1>1. PICK N, c : N = Len(sessions) /\ c = Current
  OBVIOUS
<1>2. /\ c = sessions[N] /\ c.id = N /\ N \in Nat /\ N >= 1 /\ IsManifest(c)
      /\ DOMAIN sessions = 1..N /\ SessionRows(c.env, N)
  BY <1>1, CurrentIs
<1>3. PICK a, b, h, k : a = x.disconnected /\ b = x.published /\ h = x.hb /\ k = x.kind
  OBVIOUS
<1>4. x = [c EXCEPT !.disconnected = a, !.published = b, !.hb = h, !.kind = k]
  BY <1>1, <1>3
<1>5. x.id = c.id /\ x.env = c.env /\ IsManifest(x)
  BY <1>2, <1>3, <1>4 DEF IsManifest
<1>6. now' \in Int /\ Totals(provider')
  BY DEF CaptureInv
<1>7. x.id = N /\ SessionRows(x.env, N)
  BY <1>2, <1>5
<1> QED
  BY <1>1, <1>5, <1>6, <1>7, CaptureChanged

LEMMA DisconnectCapture == ASSUME CaptureInv, NEW kind, Disconnect(kind) PROVE CaptureInv'
<1>1. PICK N, c : N = Len(sessions) /\ c = Current
  OBVIOUS
<1>2. /\ c = sessions[N] /\ N \in Nat /\ N >= 1 /\ DOMAIN sessions = 1..N /\ IsManifest(c)
  BY <1>1, CurrentIs
<1>3. PICK x : x = [c EXCEPT !.disconnected = now, !.published = now, !.kind = kind]
  OBVIOUS
<1>4. sessions' = [sessions EXCEPT ![N] = x]
  BY <1>1, <1>2, <1>3 DEF Disconnect
<1>5. x = [c EXCEPT !.disconnected = x.disconnected, !.published = x.published,
                    !.hb = x.hb, !.kind = x.kind]
  BY <1>2, <1>3 DEF IsManifest
<1>6. now' = now /\ menu' = menu /\ provider' = provider
  BY DEF Disconnect
<1>7. x.disconnected \in Int
  BY <1>2, <1>3 DEF IsManifest, CaptureInv
<1> QED
  BY <1>1, <1>4, <1>5, <1>6, <1>7, EndedCapture

LEMMA CertifyCapture == ASSUME CaptureInv, Certify PROVE CaptureInv'
<1>1. PICK N, c : N = Len(sessions) /\ c = Current
  OBVIOUS
<1>2. /\ c = sessions[N] /\ N \in Nat /\ N >= 1 /\ DOMAIN sessions = 1..N /\ IsManifest(c)
  BY <1>1, CurrentIs
<1>3. now' = now /\ menu' = menu /\ provider' = provider
  BY DEF Certify
<1>4. CASE down
  <2>1. sessions' = sessions
    BY <1>4 DEF Certify
  <2> QED
    BY <1>3, <2>1 DEF CaptureInv
<1>5. CASE ~down
  <2>1. PICK x : x = [c EXCEPT !.disconnected = Schedule.close, !.published = Schedule.close,
                               !.hb = Schedule.close, !.kind = "completed"]
    OBVIOUS
  <2>2. sessions' = [sessions EXCEPT ![N] = x]
    BY <1>1, <1>2, <1>5, <2>1 DEF Certify
  <2>3. x = [c EXCEPT !.disconnected = x.disconnected, !.published = x.published,
                      !.hb = x.hb, !.kind = x.kind]
    BY <1>2, <2>1 DEF IsManifest
  <2>4. x.disconnected \in Int
    BY <1>2, <2>1, MarketAssumption DEF IsManifest
  <2> QED
    BY <1>1, <1>3, <2>2, <2>3, <2>4, EndedCapture
<1> QED
  BY <1>4, <1>5

LEMMA CaptureStep == CaptureInv /\ [Next]_vars => CaptureInv'
<1> SUFFICES ASSUME CaptureInv, [Next]_vars PROVE CaptureInv'
  OBVIOUS
<1>1. ASSUME NEW batch, batch \in IF down THEN {<<>>} ELSE Menus[menu], Receive(batch)
      PROVE  CaptureInv'
  BY <1>1, ReceiveCapture
<1>2. ASSUME NEW kind, Disconnect(kind) PROVE CaptureInv'
  BY <1>2, DisconnectCapture
<1>3. CASE Connect
  BY <1>3, ConnectCapture
<1>4. CASE Decide
  BY <1>4, DecideCases DEF CaptureInv
<1>5. CASE Certify
  BY <1>5, CertifyCapture
<1>6. CASE UNCHANGED vars
  BY <1>6 DEF CaptureInv, vars
<1> QED
  BY <1>1, <1>2, <1>3, <1>4, <1>5, <1>6 DEF Next

-----------------------------------------------------------------------------
(***************************************************************************)
(* MarketState.apply: an envelope is rejected, or accepted and folded into *)
(* the hot state of its symbol.                                            *)
(***************************************************************************)
IsSymbol(x) ==
    x = [trade |-> x.trade, quote |-> x.quote, tradeTime |-> x.tradeTime,
         quoteTime |-> x.quoteTime, cum |-> x.cum, bar |-> x.bar, closed |-> x.closed]

HotState(sym) == sym = [s \in Symbols |-> sym[s]] /\ \A s \in Symbols : IsSymbol(sym[s])

IsMarket(m) ==
    /\ m = [active |-> m.active, lastSeq |-> m.lastSeq, lastAt |-> m.lastAt,
            issues |-> m.issues, sym |-> m.sym]
    /\ HotState(m.sym)

\* The hot state an envelope finds.
Found(m, e) == IF m.active # None /\ e.ses # m.active THEN [s \in Symbols |-> EmptySymbol]
               ELSE m.sym

Rejects(m, e, u) ==
    /\ u.kind = "none" /\ u.bars = <<>> /\ u.m.sym = Found(m, e)
    /\ u.m.issues = {} /\ ~u.raised /\ e.ctx # "indices" => decode_event(e) = "none"

Accepts(m, e, u) ==
    /\ e.sym \in Symbols /\ e.ctx # "indices" /\ ~u.raised
    /\ u.kind = decode_event(e) /\ u.kind \in {"trade", "quote", "auction"}
    /\ SymbolStep(Found(m, e)[e.sym], e, u.kind).issues = {}
    /\ u.bars = SymbolStep(Found(m, e)[e.sym], e, u.kind).bars
    /\ u.m.sym = [Found(m, e) EXCEPT ![e.sym] = SymbolStep(@, e, u.kind).sym]

LEMMA EmptySymbolIs == IsSymbol(EmptySymbol)
BY DEF IsSymbol, EmptySymbol

LEMMA FoundIs == ASSUME NEW m, IsMarket(m), NEW e PROVE HotState(Found(m, e))
<1>1. CASE m.active # None /\ e.ses # m.active
  <2>1. PICK z : z = [s \in Symbols |-> EmptySymbol]
    OBVIOUS
  <2>2. z = [s \in Symbols |-> z[s]] /\ \A s \in Symbols : z[s] = EmptySymbol
    BY <2>1
  <2> QED
    BY <1>1, <2>1, <2>2, EmptySymbolIs DEF Found, HotState
<1>2. CASE ~(m.active # None /\ e.ses # m.active)
  BY <1>2 DEF Found, IsMarket
<1> QED
  BY <1>1, <1>2

\* The kinds of event.
LEMMA Kinds == ASSUME NEW e PROVE decode_event(e) \in {"error", "trade", "quote", "auction", "none"}
<1>1. CASE ~e.ok
  <2>1. decode_event(e) = "error"
    BY <1>1, Zenon DEF decode_event
  <2> QED
    BY <2>1
<1>2. CASE e.ok /\ e.type = "trade"
  <2>1. decode_event(e) =
            IF e.et > e.at THEN "error"
            ELSE IF e.price = 0 /\ e.qty = 0 /\ e.side = "U" THEN "auction"
            ELSE IF e.price <= 0 \/ e.qty <= 0 \/ e.side \notin {"B", "S", "U"} \/ e.cum < e.qty
            THEN "error" ELSE "trade"
    BY <1>2, Zenon DEF decode_event
  <2> QED
    BY <2>1
<1>3. CASE e.ok /\ e.type = "quote"
  <2>1. e.type # "trade"
    BY <1>3
  <2>2. decode_event(e) = IF e.et > e.at \/ ~QuoteValid(e) THEN "error" ELSE "quote"
    BY <1>3, <2>1, Zenon DEF decode_event
  <2> QED
    BY <2>2
<1>4. CASE e.ok /\ e.type # "trade" /\ e.type # "quote"
  <2>1. decode_event(e) = "none"
    BY <1>4, Zenon DEF decode_event
  <2> QED
    BY <2>1
<1> QED
  BY <1>1, <1>2, <1>3, <1>4

\* A trade, in full.
LEMMA TradeIs ==
    ASSUME NEW e, decode_event(e) = "trade"
    PROVE  e.ok /\ e.type = "trade" /\ ~(e.et > e.at) /\ ~(e.price <= 0 \/ e.qty <= 0)
<1>1. e.ok
  <2> SUFFICES ASSUME ~e.ok PROVE FALSE
    OBVIOUS
  <2>1. decode_event(e) = "error"
    BY Zenon DEF decode_event
  <2> QED
    BY <2>1
<1>2. e.type = "trade"
  <2> SUFFICES ASSUME e.type # "trade" PROVE FALSE
    OBVIOUS
  <2>1. CASE e.type = "quote"
    <3>1. decode_event(e) = IF e.et > e.at \/ ~QuoteValid(e) THEN "error" ELSE "quote"
      BY <1>1, <2>1, Zenon DEF decode_event
    <3> QED
      BY <3>1
  <2>2. CASE e.type # "quote"
    <3>1. decode_event(e) = "none"
      BY <1>1, <2>2, Zenon DEF decode_event
    <3> QED
      BY <3>1
  <2> QED
    BY <2>1, <2>2
<1>3. decode_event(e) =
          IF e.et > e.at THEN "error"
          ELSE IF e.price = 0 /\ e.qty = 0 /\ e.side = "U" THEN "auction"
          ELSE IF e.price <= 0 \/ e.qty <= 0 \/ e.side \notin {"B", "S", "U"} \/ e.cum < e.qty
          THEN "error" ELSE "trade"
  BY <1>1, <1>2, Zenon DEF decode_event
<1> QED
  BY <1>1, <1>2, <1>3

LEMMA QuoteStep ==
    ASSUME NEW x, IsSymbol(x), NEW e, SymbolStep(x, e, "quote").issues = {}
    PROVE  /\ SymbolStep(x, e, "quote").bars = <<>> /\ ~Before(e.et, x.quoteTime)
           /\ SymbolStep(x, e, "quote").sym = [x EXCEPT !.quote = e, !.quoteTime = e.et]
<1>1. PICK step : step = SymbolStep(x, e, "quote")
  OBVIOUS
<1>2. step.issues = IF Before(e.et, x.quoteTime) THEN {"QUOTE_TIME_REGRESSION"} ELSE {}
  BY <1>1 DEF SymbolStep
<1>3. ~Before(e.et, x.quoteTime)
  BY <1>1, <1>2
<1>4. step.sym = [x EXCEPT !.quote = e, !.quoteTime = e.et]
  BY <1>1, <1>2, <1>3 DEF SymbolStep
<1>5. step.bars = <<>>
  BY <1>1 DEF SymbolStep
<1> QED
  BY <1>1, <1>3, <1>4, <1>5

LEMMA AuctionStep ==
    ASSUME NEW x, IsSymbol(x), NEW e, SymbolStep(x, e, "auction").issues = {}
    PROVE  /\ SymbolStep(x, e, "auction").bars = <<>> /\ ~Before(e.et, x.tradeTime)
           /\ SymbolStep(x, e, "auction").sym = [x EXCEPT !.tradeTime = e.et]
<1>1. PICK step : step = SymbolStep(x, e, "auction")
  OBVIOUS
<1>2. step.issues = IF Before(e.et, x.tradeTime) THEN {"TRADE_TIME_REGRESSION"} ELSE {}
  BY <1>1 DEF SymbolStep
<1>3. ~Before(e.et, x.tradeTime)
  BY <1>1, <1>2
<1>4. step.sym = [x EXCEPT !.tradeTime = e.et]
  BY <1>1, <1>2, <1>3 DEF SymbolStep
<1>5. step.bars = <<>>
  BY <1>1 DEF SymbolStep
<1> QED
  BY <1>1, <1>3, <1>4, <1>5

\* What a trade without an issue tells of the state it finds.
TradeFits(x, e) ==
    /\ ~Before(e.et, x.tradeTime)
    /\ x.cum = None \/ e.cum = x.cum + e.qty
    /\ x.closed = None \/ ~(bar_start(e.et) + BarInterval <= x.closed)

\* The state after it.
Traded(x, e, z, bars) ==
    /\ IsSymbol(z) /\ z.trade = e /\ z.quote = x.quote /\ z.quoteTime = x.quoteTime
    /\ z.tradeTime = e.et /\ z.cum = e.cum
    /\ z.bar = (IF Opens(x, e) THEN BarFromTrade(e)
                ELSE IF bar_start(e.et) < x.bar.start THEN x.bar ELSE BarAdd(x.bar, e))
    /\ z.closed = (IF x.bar # None /\ Opens(x, e) THEN BarEnd(x.bar) ELSE x.closed)
    /\ bars = (IF x.bar # None /\ Opens(x, e) THEN <<x.bar>> ELSE <<>>)

LEMMA TradeStep ==
    ASSUME NEW x, IsSymbol(x), NEW e, SymbolStep(x, e, "trade").issues = {}
    PROVE  /\ TradeFits(x, e)
           /\ Traded(x, e, SymbolStep(x, e, "trade").sym, SymbolStep(x, e, "trade").bars)
<1>1. PICK step, traded : step = SymbolStep(x, e, "trade") /\ traded = _apply_trade(x, e)
  OBVIOUS
<1>2. step.issues = TradeIssues(x, e)
  BY <1>1 DEF SymbolStep
<1>3. TradeIssues(x, e) = {}
  BY <1>1, <1>2
<1>4. TradeFits(x, e)
  BY <1>3 DEF TradeIssues, VolumeIssue, TradeFits
<1>5. step.sym = traded.sym /\ step.bars = traded.bars
  BY <1>1, <1>2, <1>3 DEF SymbolStep
<1>6. PICK bar, closed :
         /\ bar = (IF Opens(x, e) THEN BarFromTrade(e)
                   ELSE IF bar_start(e.et) < x.bar.start THEN x.bar ELSE BarAdd(x.bar, e))
         /\ closed = (IF x.bar # None /\ Opens(x, e) THEN BarEnd(x.bar) ELSE x.closed)
  OBVIOUS
<1>7. /\ traded.sym = [x EXCEPT !.bar = bar, !.closed = closed, !.trade = e, !.tradeTime = e.et,
                                !.cum = e.cum]
      /\ traded.bars = (IF x.bar # None /\ Opens(x, e) THEN <<x.bar>> ELSE <<>>)
  BY <1>1, <1>6 DEF _apply_trade, IsSymbol
<1>8. PICK z : z = traded.sym
  OBVIOUS
<1>9. z = [trade |-> e, quote |-> x.quote, tradeTime |-> e.et, quoteTime |-> x.quoteTime,
           cum |-> e.cum, bar |-> bar, closed |-> closed]
  BY <1>7, <1>8 DEF IsSymbol
<1>10. IsSymbol(z)
  BY <1>9 DEF IsSymbol
<1>11. Traded(x, e, z, traded.bars)
  BY <1>6, <1>7, <1>9, <1>10 DEF Traded
<1> QED
  BY <1>1, <1>4, <1>5, <1>8, <1>11

\* The hot state after a step of one symbol.
LEMMA HotStateAfter ==
    ASSUME NEW sym, HotState(sym), NEW s \in Symbols, NEW z, IsSymbol(z)
    PROVE  HotState([sym EXCEPT ![s] = z])
<1>1. PICK h : h = [sym EXCEPT ![s] = z]
  OBVIOUS
<1>2. h = [k \in Symbols |-> h[k]] /\ \A k \in Symbols : h[k] = IF k = s THEN z ELSE sym[k]
  BY <1>1 DEF HotState
<1> QED
  BY <1>1, <1>2 DEF HotState

LEMMA StepIs ==
    ASSUME NEW x, IsSymbol(x), NEW e, NEW kind \in {"trade", "quote", "auction"}
    PROVE  /\ IsSymbol(SymbolStep(x, e, kind).sym)
           /\ SymbolStep(x, e, kind).issues # {} =>
                 SymbolStep(x, e, kind).sym = x /\ SymbolStep(x, e, kind).bars = <<>>
<1>1. PICK step : step = SymbolStep(x, e, kind)
  OBVIOUS
<1>2. CASE step.issues # {}
  <2>1. step.sym = x /\ step.bars = <<>>
    BY <1>1, <1>2 DEF SymbolStep
  <2> QED
    BY <1>1, <2>1
<1>3. CASE step.issues = {}
  <2>1. CASE kind = "trade"
    <3>1. Traded(x, e, step.sym, step.bars)
      BY <1>1, <1>3, <2>1, TradeStep
    <3> QED
      BY <1>1, <1>3, <3>1 DEF Traded
  <2>2. CASE kind = "quote"
    <3>1. step.sym = [x EXCEPT !.quote = e, !.quoteTime = e.et]
      BY <1>1, <1>3, <2>2, QuoteStep
    <3>2. IsSymbol(step.sym)
      BY <3>1 DEF IsSymbol
    <3> QED
      BY <1>1, <1>3, <3>2
  <2>3. CASE kind = "auction"
    <3>1. step.sym = [x EXCEPT !.tradeTime = e.et]
      BY <1>1, <1>3, <2>3, AuctionStep
    <3>2. IsSymbol(step.sym)
      BY <3>1 DEF IsSymbol
    <3> QED
      BY <1>1, <1>3, <3>2
  <2> QED
    BY <2>1, <2>2, <2>3
<1> QED
  BY <1>2, <1>3

LEMMA SwitchedIs ==
    ASSUME NEW m, IsMarket(m), NEW e
    PROVE  /\ IsMarket(Switched(m, e)) /\ Switched(m, e).sym = Found(m, e)
           /\ Switched(m, e).active = e.ses /\ Switched(m, e).issues = m.issues
<1>1. PICK f : f = Found(m, e)
  OBVIOUS
<1>2. HotState(f)
  BY <1>1, FoundIs
<1>3. PICK w : w = Switched(m, e)
  OBVIOUS
<1>4. w = [m EXCEPT !.active = e.ses, !.sym = f]
  BY <1>1, <1>3 DEF Switched, Found, IsMarket
<1>5. w = [active |-> e.ses, lastSeq |-> m.lastSeq, lastAt |-> m.lastAt, issues |-> m.issues,
           sym |-> f]
  BY <1>4 DEF IsMarket
<1>6. IsMarket(w)
  BY <1>2, <1>5 DEF IsMarket
<1> QED
  BY <1>1, <1>3, <1>5, <1>6

LEMMA PositionedIs ==
    ASSUME NEW m, IsMarket(m), NEW e, NEW issues
    PROVE  /\ IsMarket(Positioned(m, e, issues)) /\ Positioned(m, e, issues).sym = m.sym
           /\ Positioned(m, e, issues).active = m.active
           /\ Positioned(m, e, issues).issues = m.issues \cup issues
<1>1. PICK p, ls, la :
         /\ p = Positioned(m, e, issues)
         /\ ls = [m.lastSeq EXCEPT ![e.ses] = IF "SEQUENCE_REGRESSION" \in issues THEN @ ELSE e.seq]
         /\ la = [m.lastAt EXCEPT ![e.ses] = IF "SEQUENCE_REGRESSION" \in issues
                                   \/ "RECEIPT_TIME_REGRESSION" \in issues THEN @ ELSE e.at]
  OBVIOUS
<1>2. p = [m EXCEPT !.issues = m.issues \cup issues, !.lastSeq = ls, !.lastAt = la]
  BY <1>1 DEF Positioned, IsMarket
<1>3. p = [active |-> m.active, lastSeq |-> ls, lastAt |-> la, issues |-> m.issues \cup issues,
           sym |-> m.sym]
  BY <1>2 DEF IsMarket
<1>4. IsMarket(p)
  BY <1>3 DEF IsMarket
<1> QED
  BY <1>1, <1>3, <1>4

LEMMA MarketCases ==
    ASSUME NEW m, IsMarket(m), NEW e, NEW u, u = MarketApply(m, e)
    PROVE  /\ IsMarket(u.m) /\ u.m.active = e.ses /\ m.issues \subseteq u.m.issues
           /\ Rejects(m, e, u) \/ Accepts(m, e, u)
<1>1. PICK w, issues, kind, p :
         /\ w = Switched(m, e) /\ issues = _sequence_issues(w, e) /\ kind = decode_event(e)
         /\ p = Positioned(w, e, issues)
  OBVIOUS
<1>2. u = Dispatched(p, e, issues, kind)
  BY <1>1 DEF MarketApply, Sequenced
<1>3. IsMarket(w) /\ w.sym = Found(m, e) /\ w.active = e.ses /\ w.issues = m.issues
  BY <1>1, SwitchedIs
<1>4. /\ IsMarket(p) /\ p.sym = Found(m, e) /\ p.active = e.ses
      /\ p.issues = m.issues \cup issues
  BY <1>1, <1>3, PositionedIs
<1>5. kind \in {"error", "trade", "quote", "auction", "none"}
  BY <1>1, Kinds
<1>6. CASE issues \cap {"SEQUENCE_REGRESSION", "RECEIPT_TIME_REGRESSION"} # {}
           \/ e.ctx = "indices"
  <2>1. u = Update(p, "none", <<>>, FALSE)
    BY <1>2, <1>6 DEF Dispatched
  <2>2. u.m = p /\ u.kind = "none" /\ u.bars = <<>>
    BY <2>1 DEF Update
  <2>3. u.m.issues = {} => issues = {}
    BY <1>4, <2>2
  <2>4. Rejects(m, e, u)
    BY <1>4, <1>6, <2>2, <2>3 DEF Rejects
  <2> QED
    BY <1>4, <2>2, <2>4
<1>7. CASE ~(issues \cap {"SEQUENCE_REGRESSION", "RECEIPT_TIME_REGRESSION"} # {}
             \/ e.ctx = "indices")
  <2>1. CASE kind = "error"
    <3>1. u = Update(p, "none", <<>>, TRUE)
      BY <1>2, <1>7, <2>1 DEF Dispatched
    <3>2. u.m = p /\ u.kind = "none" /\ u.bars = <<>> /\ u.raised
      BY <3>1 DEF Update
    <3>3. Rejects(m, e, u)
      BY <1>4, <3>2 DEF Rejects
    <3> QED
      BY <1>4, <3>2, <3>3
  <2>2. CASE kind = "none"
    <3>1. u = Update(p, "none", <<>>, FALSE)
      BY <1>2, <1>7, <2>2 DEF Dispatched
    <3>2. u.m = p /\ u.kind = "none" /\ u.bars = <<>>
      BY <3>1 DEF Update
    <3>3. Rejects(m, e, u)
      BY <1>1, <1>4, <2>2, <3>2 DEF Rejects
    <3> QED
      BY <1>4, <3>2, <3>3
  <2>3. CASE kind \notin {"error", "none"} /\ e.sym \notin Symbols
    <3>1. u = Update(p, "none", <<>>, TRUE)
      BY <1>2, <1>7, <2>3 DEF Dispatched
    <3>2. u.m = p /\ u.kind = "none" /\ u.bars = <<>> /\ u.raised
      BY <3>1 DEF Update
    <3>3. Rejects(m, e, u)
      BY <1>4, <3>2 DEF Rejects
    <3> QED
      BY <1>4, <3>2, <3>3
  <2>4. CASE kind \notin {"error", "none"} /\ e.sym \in Symbols
    <3>1. PICK f, s, x, step, h :
             /\ f = Found(m, e) /\ s = e.sym /\ x = f[s] /\ step = SymbolStep(x, e, kind)
             /\ h = [f EXCEPT ![s] = step.sym]
      OBVIOUS
    <3>2. kind \in {"trade", "quote", "auction"} /\ s \in Symbols
      BY <1>5, <2>4, <3>1
    <3>3. HotState(f) /\ IsSymbol(x)
      BY <3>1, <3>2, FoundIs DEF HotState
    <3>4. /\ IsSymbol(step.sym)
          /\ step.issues # {} => step.sym = x /\ step.bars = <<>>
      BY <3>1, <3>2, <3>3, StepIs
    <3>5. HotState(h)
      BY <3>1, <3>2, <3>3, <3>4, HotStateAfter
    <3>6. u = Stepped(p, e, kind, step)
      <4>1. u = Stepped(p, e, kind, SymbolStep(p.sym[e.sym], e, kind))
        BY <1>2, <1>7, <2>4 DEF Dispatched
      <4> QED
        BY <1>4, <3>1, <4>1
    <3>7. PICK z : z = u.m
      OBVIOUS
    <3>8. /\ z = [p EXCEPT !.sym = h, !.issues = p.issues \cup step.issues]
          /\ u.kind = (IF step.issues = {} THEN kind ELSE "none")
          /\ u.bars = step.bars /\ u.raised = FALSE
      BY <1>4, <3>1, <3>6, <3>7 DEF Stepped, Update, IsMarket
    <3>9. z = [active |-> p.active, lastSeq |-> p.lastSeq, lastAt |-> p.lastAt,
               issues |-> p.issues \cup step.issues, sym |-> h]
      BY <1>4, <3>8 DEF IsMarket
    <3>10. IsMarket(z) /\ z.active = e.ses /\ m.issues \subseteq z.issues
      BY <1>4, <3>5, <3>9 DEF IsMarket
    <3>11. CASE step.issues = {}
      <4>1. z.sym = [f EXCEPT ![s] = SymbolStep(@, e, kind).sym]
        BY <3>1, <3>9
      <4>2. Accepts(m, e, u)
        BY <1>1, <1>7, <3>1, <3>2, <3>7, <3>8, <3>11, <4>1 DEF Accepts
      <4> QED
        BY <3>7, <3>10, <4>2
    <3>12. CASE step.issues # {}
      <4>1. h = f
        BY <3>1, <3>2, <3>3, <3>4, <3>12 DEF HotState
      <4>2. u.m.issues # {}
        BY <3>7, <3>9, <3>12
      <4>3. u.m.sym = f
        BY <3>7, <3>9, <4>1
      <4>4. Rejects(m, e, u)
        BY <3>1, <3>4, <3>8, <3>12, <4>2, <4>3 DEF Rejects
      <4> QED
        BY <3>7, <3>10, <4>4
    <3> QED
      BY <3>11, <3>12
  <2> QED
    BY <2>1, <2>2, <2>3, <2>4
<1> QED
  BY <1>6, <1>7

\* The envelopes of a replay, one by one.
LEMMA ReplayLoop ==
    ASSUME NEW day, NEW rows, rows = DayEnvelopes(day), IsSequence(rows)
    PROVE  \E f : /\ f[0] = InitReplay /\ replay(day) = CloseDay(day, f[Len(rows)])
                  /\ \A n \in 1..Len(rows) : f[n] = ReplayStep(day, f[n - 1], rows[n])
<1>1. PICK L : L = OverReplay(day)
  OBVIOUS
<1>2. \A x, e : StepOf(L, x, e) = ReplayStep(day, x, e)
  BY <1>1 DEF StepOf, OverReplay
<1>3. PICK d : d = CHOOSE g : IsFold(g, L, InitReplay, rows)
  OBVIOUS
<1>4. IsFold(d, L, InitReplay, rows)
  BY <1>3, FoldsExist
<1>5. ASSUME NEW g
      PROVE  IsFold(g, L, InitReplay, rows) <=>
               g = [s \in SUBSET DOMAIN rows |->
                      IF s = {} THEN InitReplay ELSE ReplayStep(day, g[s \ {Max(s)}], rows[Max(s)])]
  <2>1. [s \in SUBSET DOMAIN rows |->
            IF s = {} THEN InitReplay ELSE StepOf(L, g[s \ {Max(s)}], rows[Max(s)])] =
        [s \in SUBSET DOMAIN rows |->
            IF s = {} THEN InitReplay ELSE ReplayStep(day, g[s \ {Max(s)}], rows[Max(s)])]
    BY <1>2
  <2> QED
    BY <2>1 DEF IsFold
<1>6. replay(day) = CloseDay(day, d[DOMAIN rows])
  <2>1. PICK c : c = CHOOSE g : g = [s \in SUBSET DOMAIN rows |->
                                      IF s = {} THEN InitReplay
                                      ELSE ReplayStep(day, g[s \ {Max(s)}], rows[Max(s)])]
    OBVIOUS
  <2>2. c = d
    BY <1>3, <1>5, <2>1, Zenon
  <2>3. replay(day) = CloseDay(day, c[DOMAIN rows])
    BY <2>1 DEF replay, FoldLeft, MapThenFoldSet
  <2> QED
    BY <2>2, <2>3
<1>7. PICK f : /\ f[0] = InitReplay /\ f[Len(rows)] = d[DOMAIN rows]
               /\ \A n \in 1..Len(rows) : f[n] = StepOf(L, f[n - 1], rows[n])
  BY <1>4, FoldRounds
<1>8. \A n \in 1..Len(rows) : f[n] = ReplayStep(day, f[n - 1], rows[n])
  BY <1>2, <1>7
<1>9. f[0] = InitReplay /\ replay(day) = CloseDay(day, f[Len(rows)])
  BY <1>6, <1>7
<1> QED
  BY <1>8, <1>9, Zenon

\* The hot state of a symbol when the clock advances to t.
Advanced(x, z, t) ==
    /\ IsSymbol(z) /\ z.trade = x.trade /\ z.quote = x.quote /\ z.tradeTime = x.tradeTime
    /\ z.quoteTime = x.quoteTime /\ z.cum = x.cum
    /\ z.bar = (IF x.bar # None /\ BarEnd(x.bar) <= t THEN None ELSE x.bar)
    /\ z.closed = (IF x.closed = None \/ bar_start(t) > x.closed THEN bar_start(t) ELSE x.closed)

LEMMA AdvanceIs ==
    ASSUME NEW m, IsMarket(m), NEW t, NEW a, a = MarketAdvance(m, t)
    PROVE  /\ IsMarket(a.m) /\ a.m.active = m.active /\ a.m.issues = m.issues
           /\ \A s \in Symbols : Advanced(m.sym[s], a.m.sym[s], t)
           /\ a.bars = {m.sym[s].bar : s \in {x \in Symbols : /\ m.sym[x].bar # None
                                                               /\ BarEnd(m.sym[x].bar) <= t}}
<1>1. PICK h : h = [s \in Symbols |->
           [m.sym[s] EXCEPT !.bar = IF m.sym[s].bar # None /\ BarEnd(m.sym[s].bar) <= t THEN None ELSE @,
                            !.closed = IF @ = None \/ bar_start(t) > @ THEN bar_start(t) ELSE @]]
  OBVIOUS
<1>2. /\ a.m = [m EXCEPT !.sym = h]
      /\ a.bars = {m.sym[s].bar : s \in {x \in Symbols : /\ m.sym[x].bar # None
                                                         /\ BarEnd(m.sym[x].bar) <= t}}
  BY <1>1 DEF MarketAdvance
<1>3. PICK z : z = a.m
  OBVIOUS
<1>4. z = [active |-> m.active, lastSeq |-> m.lastSeq, lastAt |-> m.lastAt, issues |-> m.issues,
           sym |-> h]
  BY <1>2, <1>3 DEF IsMarket
<1>5. ASSUME NEW s \in Symbols PROVE Advanced(m.sym[s], h[s], t)
  <2>1. PICK x, bar, closed :
           /\ x = m.sym[s]
           /\ bar = (IF x.bar # None /\ BarEnd(x.bar) <= t THEN None ELSE x.bar)
           /\ closed = (IF x.closed = None \/ bar_start(t) > x.closed THEN bar_start(t) ELSE x.closed)
    OBVIOUS
  <2>2. IsSymbol(x)
    BY <2>1 DEF IsMarket, HotState
  <2>3. h[s] = [x EXCEPT !.bar = bar, !.closed = closed]
    BY <1>1, <2>1, <2>2 DEF IsSymbol
  <2>4. h[s] = [trade |-> x.trade, quote |-> x.quote, tradeTime |-> x.tradeTime,
                quoteTime |-> x.quoteTime, cum |-> x.cum, bar |-> bar, closed |-> closed]
    BY <2>2, <2>3 DEF IsSymbol
  <2>5. PICK y : y = h[s]
    OBVIOUS
  <2>6. IsSymbol(y)
    BY <2>4, <2>5 DEF IsSymbol
  <2> QED
    BY <2>1, <2>4, <2>5, <2>6 DEF Advanced
<1>6. h = [s \in Symbols |-> h[s]]
  BY <1>1
<1>7. HotState(h)
  BY <1>5, <1>6 DEF HotState, Advanced
<1>8. IsMarket(z)
  BY <1>4, <1>7 DEF IsMarket
<1> QED
  BY <1>2, <1>3, <1>4, <1>5, <1>8

IsReplay(r) ==
    /\ r = [m |-> r.m, bars |-> r.bars, events |-> r.events, last |-> r.last, ses |-> r.ses,
            raised |-> r.raised]
    /\ IsMarket(r.m) /\ IsSequence(r.events) /\ r.raised \in BOOLEAN

LEMMA InitReplayIs ==
    /\ IsReplay(InitReplay) /\ InitReplay.m.active = None
    /\ \A s \in Symbols : InitReplay.m.sym[s] = EmptySymbol
    /\ InitReplay.events = <<>> /\ InitReplay.bars = {} /\ InitReplay.ses = None
<1>1. PICK h, m : h = [s \in Symbols |-> EmptySymbol] /\ m = InitMarket
  OBVIOUS
<1>2. /\ m.active = None /\ m.sym = h /\ h = [s \in Symbols |-> h[s]]
      /\ \A s \in Symbols : h[s] = EmptySymbol
  BY <1>1 DEF InitMarket
<1>3. m = [active |-> m.active, lastSeq |-> m.lastSeq, lastAt |-> m.lastAt, issues |-> m.issues,
           sym |-> m.sym]
  BY <1>1 DEF InitMarket
<1>4. IsMarket(m)
  BY <1>2, <1>3, EmptySymbolIs DEF IsMarket, HotState
<1>5. PICK r : r = InitReplay
  OBVIOUS
<1>6. r = [m |-> m, bars |-> {}, events |-> <<>>, last |-> None, ses |-> None, raised |-> FALSE]
  BY <1>1, <1>5 DEF InitReplay
<1>7. IsReplay(r)
  BY <1>4, <1>6, EmptySequence DEF IsReplay
<1> QED
  BY <1>2, <1>5, <1>6, <1>7

\* A segment of the replay closed at a boundary, or not.
Closing(r, c, bars) ==
    \/ c = r.m /\ bars = r.bars
    \/ \E t : c = MarketAdvance(r.m, t).m /\ bars = r.bars \cup MarketAdvance(r.m, t).bars

LEMMA CloseSegmentIs ==
    ASSUME NEW r, IsReplay(r), NEW t
    PROVE  LET c == CloseSegment(r, t)
               a == MarketAdvance(r.m, t)
           IN  /\ IsReplay(c) /\ c.m = a.m /\ c.bars = r.bars \cup a.bars
               /\ c.events = r.events /\ c.ses = r.ses /\ (r.raised => c.raised)
<1>1. PICK c, a : c = CloseSegment(r, t) /\ a = MarketAdvance(r.m, t)
  OBVIOUS
<1>2. IsMarket(a.m)
  BY <1>1, AdvanceIs DEF IsReplay
<1>3. PICK b \in BOOLEAN : b <=> (r.raised \/ Before(t, r.last))
  OBVIOUS
<1>4. c = [m |-> a.m, bars |-> r.bars \cup a.bars, events |-> r.events, last |-> r.last,
           ses |-> r.ses, raised |-> c.raised]
  BY <1>1 DEF CloseSegment, IsReplay
<1>5. c.raised \in BOOLEAN /\ (r.raised => c.raised)
  <2>1. c.raised = (r.raised \/ Before(t, r.last))
    BY <1>1 DEF CloseSegment, IsReplay
  <2> QED
    BY <2>1
<1>6. IsReplay(c)
  BY <1>2, <1>4, <1>5 DEF IsReplay
<1> QED
  BY <1>1, <1>4, <1>5, <1>6

\* One envelope of the replay.
ReplayedBy(r, e, z, c, bars, u) ==
    /\ IsReplay(z) /\ u = MarketApply(c, e) /\ z.m = u.m /\ z.bars = bars \cup Range(u.bars)
    /\ z.ses = e.ses /\ (r.raised => z.raised) /\ (u.raised => z.raised)
    /\ z.events = (IF u.kind = "none" THEN r.events
                   ELSE Append(r.events, [e |-> e, kind |-> u.kind]))

\* A segment closes when another one begins.
Keeps(r, e, c, bars) == r.ses = None \/ e.ses = r.ses => c = r.m /\ bars = r.bars

LEMMA ReplayStepIs ==
    ASSUME NEW day, NEW r, IsReplay(r), NEW e
    PROVE  \E c, bars, u : /\ ReplayedBy(r, e, ReplayStep(day, r, e), c, bars, u)
                           /\ IsMarket(c) /\ Closing(r, c, bars) /\ Keeps(r, e, c, bars)
<1>1. PICK closed : closed = IF r.ses # None /\ e.ses # r.ses
                             THEN CloseSegment(r, CoverageOf(day, r.ses)) ELSE r
  OBVIOUS
<1>2. PICK c, bars, u, z : /\ c = closed.m /\ bars = closed.bars /\ u = MarketApply(c, e)
                           /\ z = ReplayStep(day, r, e)
  OBVIOUS
<1>3. /\ IsReplay(closed) /\ closed.events = r.events /\ (r.raised => closed.raised)
      /\ Closing(r, c, bars) /\ Keeps(r, e, c, bars)
  <2>1. CASE r.ses # None /\ e.ses # r.ses
    <3>1. PICK t : t = CoverageOf(day, r.ses)
      OBVIOUS
    <3>2. closed = CloseSegment(r, t)
      BY <1>1, <2>1, <3>1
    <3>3. /\ IsReplay(closed) /\ closed.m = MarketAdvance(r.m, t).m
          /\ closed.bars = r.bars \cup MarketAdvance(r.m, t).bars
          /\ closed.events = r.events /\ closed.ses = r.ses /\ (r.raised => closed.raised)
      BY <3>2, CloseSegmentIs
    <3> QED
      BY <1>2, <2>1, <3>3 DEF Closing, Keeps
  <2>2. CASE ~(r.ses # None /\ e.ses # r.ses)
    <3>1. closed = r
      BY <1>1, <2>2
    <3> QED
      BY <1>2, <3>1 DEF Closing, Keeps
  <2> QED
    BY <2>1, <2>2
<1>4. z = Replayed(closed, e, u)
  BY <1>1, <1>2 DEF ReplayStep
<1>5. IsMarket(c) /\ IsMarket(u.m)
  BY <1>2, <1>3, MarketCases DEF IsReplay
<1>6. PICK events : events = IF u.kind = "none" THEN r.events
                             ELSE Append(r.events, [e |-> e, kind |-> u.kind])
  OBVIOUS
<1>7. IsSequence(events)
  <2>1. IsSequence(r.events)
    BY DEF IsReplay
  <2> QED
    BY <1>6, <2>1, AppendSequence
<1>8. z = [m |-> u.m, bars |-> bars \cup Range(u.bars), events |-> events, last |-> e.at,
           ses |-> e.ses, raised |-> z.raised]
  BY <1>2, <1>3, <1>4, <1>6 DEF Replayed, IsReplay
<1>9. z.raised \in BOOLEAN /\ (closed.raised => z.raised) /\ (u.raised => z.raised)
  <2>1. z.raised = (closed.raised \/ u.raised)
    BY <1>3, <1>4 DEF Replayed, IsReplay
  <2> QED
    BY <2>1
<1>10. IsReplay(z)
  BY <1>5, <1>7, <1>8, <1>9 DEF IsReplay
<1>11. ReplayedBy(r, e, z, c, bars, u)
  BY <1>2, <1>3, <1>6, <1>8, <1>9, <1>10 DEF ReplayedBy
<1> QED
  BY <1>2, <1>3, <1>5, <1>11

-----------------------------------------------------------------------------
(***************************************************************************)
(* The rows of a day: those of its segments, one after the other.          *)
(***************************************************************************)
IsDay(day) ==
    /\ IsSequence(day)
    /\ \A i \in 1..Len(day) : SessionRows(day[i].env, day[i].id)
    /\ \A i, k \in 1..Len(day) : i # k => day[i].id # day[k].id

\* rows are those of the first N segments; off gives the row each of them ends at.
Placed(day, rows, off, N) ==
    /\ IsSequence(rows) /\ off[0] = 0 /\ off[N] = Len(rows)
    /\ \A i \in 1..N : off[i - 1] \in Nat /\ off[i] = off[i - 1] + Len(day[i].env)
    /\ \A i \in 0..N : off[i] \in Nat /\ off[i] <= off[N]
    /\ \A i \in 1..N : \A k \in 1..Len(day[i].env) : rows[off[i - 1] + k] = day[i].env[k]
    /\ \A p \in 1..Len(rows) : \E i \in 1..N : \E k \in 1..Len(day[i].env) : p = off[i - 1] + k

LEMMA PlacedStep ==
    ASSUME NEW day, NEW rows, NEW off, NEW N \in Nat, Placed(day, rows, off, N),
           NEW env, env = day[N + 1].env, IsSequence(env), off[N + 1] = Len(rows \o env)
    PROVE  Placed(day, rows \o env, off, N + 1)
<1>1. PICK z, L, E : z = rows \o env /\ L = Len(rows) /\ E = Len(env)
  OBVIOUS
<1>2. IsSequence(rows) /\ L \in Nat /\ E \in Nat
  BY <1>1, SequenceParts DEF Placed
<1>3. /\ IsSequence(z) /\ Len(z) = L + E
      /\ \A p \in 1..L : z[p] = rows[p]
      /\ \A k \in 1..E : z[L + k] = env[k]
  BY <1>1, <1>2, ConcatSequence
<1>4. off[N] = L /\ off[N + 1] = L + E /\ off[0] = 0
  BY <1>1, <1>3 DEF Placed
<1>5. ASSUME NEW i \in 1..(N + 1) PROVE off[i - 1] \in Nat /\ off[i] = off[i - 1] + Len(day[i].env)
  <2>1. CASE i \in 1..N
    BY <2>1 DEF Placed
  <2>2. CASE i = N + 1
    <3>1. i - 1 = N /\ off[i - 1] = L /\ off[i] = L + E
      BY <1>4, <2>2
    <3>2. Len(day[i].env) = E
      BY <1>1, <2>2
    <3> QED
      BY <1>2, <3>1, <3>2
  <2> QED
    BY <2>1, <2>2
<1>6. ASSUME NEW i \in 0..(N + 1) PROVE off[i] \in Nat /\ off[i] <= off[N + 1]
  <2>1. CASE i \in 0..N
    <3>1. off[i] \in Nat /\ off[i] <= L
      BY <1>4, <2>1 DEF Placed
    <3> QED
      BY <1>2, <1>4, <3>1
  <2>2. CASE i = N + 1
    BY <1>2, <1>4, <2>2
  <2> QED
    BY <2>1, <2>2
<1>7. ASSUME NEW i \in 1..(N + 1), NEW k \in 1..Len(day[i].env)
      PROVE  z[off[i - 1] + k] = day[i].env[k]
  <2>1. CASE i \in 1..N
    <3>1. PICK p : p = off[i - 1] + k
      OBVIOUS
    <3>2. off[i - 1] \in Nat /\ off[i] = off[i - 1] + Len(day[i].env) /\ off[i] <= L /\ off[i] \in Nat
      BY <1>4, <2>1 DEF Placed
    <3>3. PICK a, b, c : a = off[i - 1] /\ b = Len(day[i].env) /\ c = off[i]
      OBVIOUS
    <3>4. a \in Nat /\ b \in Nat /\ c \in Nat /\ c = a + b /\ c <= L
      <4>1. Len(day[i].env) \in Nat
        OBVIOUS
      <4> QED
        BY ONLY <3>2, <3>3, <4>1, Zenon
    <3>5. k \in 1..b /\ p = a + k
      BY ONLY <3>1, <3>3, k \in 1..Len(day[i].env), Zenon
    <3>6. p \in 1..L
      <4>1. L \in Nat
        BY <1>2
      <4> QED
        BY ONLY <3>4, <3>5, <4>1
    <3>7. rows[p] = day[i].env[k]
      BY <2>1, <3>1 DEF Placed
    <3> QED
      BY <1>3, <3>1, <3>6, <3>7
  <2>2. CASE i = N + 1
    <3>1. off[i - 1] = L /\ day[i].env = env /\ k \in 1..E
      BY <1>1, <1>4, <2>2
    <3> QED
      BY <1>3, <3>1
  <2> QED
    BY <2>1, <2>2
<1>8. ASSUME NEW p \in 1..Len(z)
      PROVE  \E i \in 1..(N + 1) : \E k \in 1..Len(day[i].env) : p = off[i - 1] + k
  <2>1. CASE p \in 1..L
    <3>1. PICK i \in 1..N : \E k \in 1..Len(day[i].env) : p = off[i - 1] + k
      BY <1>1, <2>1 DEF Placed
    <3>2. i \in 1..(N + 1)
      OBVIOUS
    <3> QED
      BY <3>1, <3>2
  <2>2. CASE p \notin 1..L
    <3>1. PICK k : k = p - L
      OBVIOUS
    <3>2. k \in 1..E /\ p = L + k
      BY <1>2, <1>3, <2>2, <3>1
    <3>3. N + 1 \in 1..(N + 1) /\ (N + 1) - 1 = N
      OBVIOUS
    <3> QED
      BY <1>1, <1>4, <3>2, <3>3
  <2> QED
    BY <2>1, <2>2
<1>9. Placed(day, z, off, N + 1)
  BY <1>3, <1>4, <1>5, <1>6, <1>7, <1>8 DEF Placed
<1> QED
  BY <1>1, <1>9

LEMMA DayPlaces ==
    ASSUME NEW day, IsDay(day)
    PROVE  \E off : /\ Placed(day, DayEnvelopes(day), off, Len(day))
                    /\ \A i, k \in 1..Len(day) : i < k => off[i] <= off[k - 1]
<1>1. PICK N \in Nat : N = Len(day)
  BY SequenceParts DEF IsDay
<1>2. PICK f : /\ f[0] = <<>> /\ f[N] = DayEnvelopes(day)
               /\ \A n \in 1..N : f[n] = f[n - 1] \o day[n].env
  BY <1>1, DayLoop DEF IsDay
<1>3. PICK off : off = [n \in 0..N |-> Len(f[n])]
  OBVIOUS
<1> DEFINE B == {n \in 0..N : Placed(day, f[n], off, n)}
<1>4. 0 \in B
  <2>1. IsSequence(f[0]) /\ Len(f[0]) = 0 /\ off[0] = 0
    BY <1>2, <1>3, EmptySequence
  <2>2. Placed(day, f[0], off, 0)
    BY <2>1 DEF Placed
  <2> QED
    BY <2>2
<1>5. ASSUME NEW n \in 1..N, n - 1 \in B PROVE n \in B
  <2>1. PICK p \in Nat : p = n - 1 /\ n = p + 1
    OBVIOUS
  <2>2. Placed(day, f[p], off, p)
    BY <1>5, <2>1
  <2>3. PICK env, rows : env = day[p + 1].env /\ rows = f[p]
    OBVIOUS
  <2>4. IsSequence(env)
    BY <1>1, <2>1, <2>3 DEF IsDay, SessionRows
  <2>5. f[n] = rows \o env /\ off[p + 1] = Len(rows \o env)
    <3>1. n \in 0..N /\ n - 1 = p
      BY <2>1
    <3>2. f[n] = f[n - 1] \o day[n].env
      BY <1>2
    <3>3. f[n] = rows \o env
      BY <2>1, <2>3, <3>1, <3>2
    <3>4. off[n] = Len(f[n])
      BY <1>3, <3>1
    <3> QED
      BY <2>1, <3>3, <3>4
  <2>6. Placed(day, rows \o env, off, p + 1)
    BY <2>2, <2>3, <2>4, <2>5, PlacedStep
  <2>7. Placed(day, f[n], off, n)
    BY <2>1, <2>5, <2>6
  <2> QED
    BY <2>7
<1>6. \A n \in 0..N : n \in B
  <2> HIDE DEF B
  <2>1. \A n \in 1..N : n - 1 \in B => n \in B
    BY <1>5
  <2> QED
    BY <1>4, <2>1, UpTo
<1>7. Placed(day, DayEnvelopes(day), off, N)
  BY <1>2, <1>6
<1>8. ASSUME NEW i \in 1..N, NEW k \in 1..N, i < k PROVE off[i] <= off[k - 1]
  <2>1. PICK q : q = k - 1
    OBVIOUS
  <2>2. q \in 0..N /\ i \in 0..q
    BY <1>8, <2>1
  <2>3. Placed(day, f[q], off, q)
    BY <1>6, <2>2
  <2> QED
    BY <2>1, <2>2, <2>3 DEF Placed
<1> QED
  BY <1>1, <1>7, <1>8

Contiguous(rows) ==
    \A p, q, x \in 1..Len(rows) :
        p < q /\ q < x /\ rows[p].ses = rows[x].ses => rows[q].ses = rows[p].ses

Blocks(day, rows, off) ==
    /\ IsSequence(rows) /\ off[0] = 0 /\ Contiguous(rows)
    /\ \A p \in 1..Len(rows) : IsRow(rows[p])
    /\ \A i \in 1..Len(day) :
          /\ off[i - 1] \in Nat /\ off[i] = off[i - 1] + Len(day[i].env) /\ off[i] <= Len(rows)
          /\ \A k \in 1..Len(day[i].env) : rows[off[i - 1] + k] = day[i].env[k]
          /\ \A p \in 1..Len(rows) : rows[p].ses = day[i].id => off[i - 1] < p /\ p <= off[i]

LEMMA DayBlocks ==
    ASSUME NEW day, IsDay(day) PROVE \E off : Blocks(day, DayEnvelopes(day), off)
<1>1. PICK N \in Nat : N = Len(day)
  BY SequenceParts DEF IsDay
<1>2. PICK rows : rows = DayEnvelopes(day)
  OBVIOUS
<1>3. PICK off : /\ Placed(day, rows, off, N)
                 /\ \A i, k \in 1..N : i < k => off[i] <= off[k - 1]
  BY <1>1, <1>2, DayPlaces
<1>4. \A i \in 1..N : Len(day[i].env) \in Nat
  BY <1>1, SequenceParts DEF IsDay, SessionRows
<1>5. ASSUME NEW p \in 1..Len(rows)
      PROVE  /\ IsRow(rows[p])
             /\ \E i \in 1..N : rows[p].ses = day[i].id /\ off[i - 1] < p /\ p <= off[i]
  <2>1. PICK i \in 1..N : \E k \in 1..Len(day[i].env) : p = off[i - 1] + k
    BY <1>3 DEF Placed
  <2>2. PICK k \in 1..Len(day[i].env) : p = off[i - 1] + k
    BY <2>1
  <2>3. rows[p] = day[i].env[k]
    BY <1>3, <2>2 DEF Placed
  <2>4. Captured(day[i].env[k], day[i].id, k, day[i].env[k].at)
    BY <1>1 DEF IsDay, SessionRows
  <2>5. off[i - 1] \in Nat /\ off[i] = off[i - 1] + Len(day[i].env)
    BY <1>3 DEF Placed
  <2>6. off[i - 1] < p /\ p <= off[i]
    BY <1>4, <2>2, <2>5
  <2> QED
    BY <2>3, <2>4, <2>6 DEF Captured
<1>6. \A i, k \in 1..N : i # k => day[i].id # day[k].id
  BY <1>1 DEF IsDay
<1>7. ASSUME NEW i \in 1..N, NEW p \in 1..Len(rows), rows[p].ses = day[i].id
      PROVE  off[i - 1] < p /\ p <= off[i]
  <2>1. PICK k \in 1..N : rows[p].ses = day[k].id /\ off[k - 1] < p /\ p <= off[k]
    BY <1>5
  <2>2. k = i
    BY <1>6, <1>7, <2>1
  <2> QED
    BY <2>1, <2>2
<1>8. \A i \in 0..N : off[i] \in Nat
  BY <1>3 DEF Placed
<1>9. Len(rows) \in Nat
  BY <1>3, SequenceParts DEF Placed
<1>10. ASSUME NEW p \in 1..Len(rows), NEW q \in 1..Len(rows), NEW x \in 1..Len(rows),
              p < q, q < x, rows[p].ses = rows[x].ses
       PROVE  rows[q].ses = rows[p].ses
  <2>1. PICK i \in 1..N : rows[p].ses = day[i].id /\ off[i - 1] < p /\ p <= off[i]
    BY <1>5
  <2>2. off[i - 1] < x /\ x <= off[i]
    BY <1>7, <1>10, <2>1
  <2>3. PICK k \in 1..N : rows[q].ses = day[k].id /\ off[k - 1] < q /\ q <= off[k]
    BY <1>5
  <2>4. /\ off[i] \in Nat /\ off[k] \in Nat /\ off[i - 1] \in Nat /\ off[k - 1] \in Nat
    BY <1>8
  <2>5. p \in Nat /\ q \in Nat /\ x \in Nat
    BY <1>9
  <2>6. CASE i < k
    <3>1. off[i] <= off[k - 1]
      BY <1>3, <2>6
    <3> QED
      BY <1>10, <2>2, <2>3, <2>4, <2>5, <3>1
  <2>7. CASE k < i
    <3>1. off[k] <= off[i - 1]
      BY <1>3, <2>7
    <3> QED
      BY <1>10, <2>1, <2>3, <2>4, <2>5, <3>1
  <2>8. CASE i = k
    BY <2>1, <2>3, <2>8
  <2> QED
    BY <2>6, <2>7, <2>8
<1>11. Contiguous(rows)
  BY <1>10 DEF Contiguous
<1>12. ASSUME NEW i \in 1..N
       PROVE  /\ off[i - 1] \in Nat /\ off[i] = off[i - 1] + Len(day[i].env) /\ off[i] <= Len(rows)
              /\ \A k \in 1..Len(day[i].env) : rows[off[i - 1] + k] = day[i].env[k]
  <2>1. i \in 0..N /\ off[N] = Len(rows)
    BY <1>3 DEF Placed
  <2> QED
    BY <1>3, <2>1 DEF Placed
<1>13. IsSequence(rows) /\ off[0] = 0
  BY <1>3 DEF Placed
<1>14. Blocks(day, rows, off)
  BY <1>1, <1>5, <1>7, <1>11, <1>12, <1>13 DEF Blocks
<1> QED
  BY <1>2, <1>14

-----------------------------------------------------------------------------
(***************************************************************************)
(* Volumes: the trades at the places of a set, and its first and last.     *)
(***************************************************************************)
Quantities(rows, T) == \A k \in T : rows[k].qty \in Int

LEMMA VolumeIs ==
    ASSUME NEW rows, NEW T
    PROVE  Volume(rows, T) = SumFunctionOnSet([k \in T |-> rows[k].qty], T)
BY DEF Volume, SumFunction

LEMMA VolumeAdd ==
    ASSUME NEW rows, NEW T, IsFiniteSet(T), NEW n, n \notin T, Quantities(rows, T \cup {n})
    PROVE  Volume(rows, T \cup {n}) = Volume(rows, T) + rows[n].qty
<1>1. PICK S, f, g : S = T \cup {n} /\ f = [k \in S |-> rows[k].qty] /\ g = [k \in T |-> rows[k].qty]
  OBVIOUS
<1>2. \A k \in T \cup {n} : f[k] \in Int
  BY <1>1 DEF Quantities
<1>3. SumFunctionOnSet(f, T \cup {n}) = SumFunctionOnSet(f, T) + f[n]
  BY <1>2, SumAdd
<1>4. \A k \in T : f[k] = g[k]
  BY <1>1
<1>5. SumFunctionOnSet(f, T) = SumFunctionOnSet(g, T)
  BY <1>4, SumSame
<1>6. Volume(rows, S) = SumFunctionOnSet(f, S) /\ Volume(rows, T) = SumFunctionOnSet(g, T)
  BY <1>1, VolumeIs
<1>7. f[n] = rows[n].qty
  BY <1>1
<1> QED
  BY <1>1, <1>3, <1>5, <1>6, <1>7

LEMMA VolumeType ==
    ASSUME NEW rows, NEW T, IsFiniteSet(T), Quantities(rows, T) PROVE Volume(rows, T) \in Int
<1>1. PICK f : f = [k \in T |-> rows[k].qty]
  OBVIOUS
<1>2. \A k \in T : f[k] \in Int
  BY <1>1 DEF Quantities
<1> QED
  BY <1>1, <1>2, VolumeIs, SumType

LEMMA VolumeEmpty == ASSUME NEW rows PROVE Volume(rows, {}) = 0
BY VolumeIs, SumEmpty

\* The places of T, each a further on.
Moved(T, a) == {a + k : k \in T}

SameFrom(rows, env, T, a) == \A k \in T : rows[a + k] = env[k]

LEMMA VolumeMoved ==
    ASSUME NEW T \in SUBSET Nat, IsFiniteSet(T), NEW a \in Nat, NEW rows, NEW env,
           SameFrom(rows, env, T, a), Quantities(env, T)
    PROVE  IsFiniteSet(Moved(T, a)) /\ Volume(rows, Moved(T, a)) = Volume(env, T)
<1> DEFINE C == {s \in SUBSET T : /\ IsFiniteSet(Moved(s, a))
                                  /\ Volume(rows, Moved(s, a)) = Volume(env, s)}
<1>1. {} \in C
  <2>1. Moved({}, a) = {}
    BY DEF Moved
  <2>2. IsFiniteSet({}) /\ Volume(rows, {}) = Volume(env, {})
    BY VolumeEmpty, FS_EmptySet
  <2> QED
    BY <2>1, <2>2
<1>2. ASSUME NEW s \in SUBSET T, NEW x \in T, s \in C, x \notin s PROVE s \cup {x} \in C
  <2>1. PICK y, M : y = a + x /\ M = Moved(s, a)
    OBVIOUS
  <2>2. Moved(s \cup {x}, a) = M \cup {y}
    BY <2>1 DEF Moved
  <2>3. y \notin M
    <3> SUFFICES ASSUME y \in M PROVE FALSE
      OBVIOUS
    <3>1. PICK k \in s : a + x = a + k
      BY <2>1 DEF Moved
    <3>2. x \in Nat /\ k \in Nat
      OBVIOUS
    <3> QED
      BY <1>2, <3>1, <3>2
  <2>4. IsFiniteSet(M) /\ Volume(rows, M) = Volume(env, s)
    BY <1>2, <2>1
  <2>5. IsFiniteSet(M \cup {y})
    BY <2>4, FS_AddElement
  <2>6. \A k \in T : rows[a + k].qty = env[k].qty /\ env[k].qty \in Int
    BY DEF SameFrom, Quantities
  <2>7. Quantities(rows, M \cup {y}) /\ rows[y].qty = env[x].qty
    BY <2>1, <2>6 DEF Quantities, Moved
  <2>8. Volume(rows, M \cup {y}) = Volume(rows, M) + rows[y].qty
    BY <2>3, <2>4, <2>7, VolumeAdd
  <2>9. IsFiniteSet(s) /\ Quantities(env, s \cup {x})
    BY FS_Subset DEF Quantities
  <2>10. Volume(env, s \cup {x}) = Volume(env, s) + env[x].qty
    BY <1>2, <2>9, VolumeAdd
  <2> QED
    BY <2>2, <2>4, <2>5, <2>7, <2>8, <2>10
<1>3. T \in C
  <2> HIDE DEF C
  <2>1. \A s \in SUBSET T : \A x \in T : s \in C /\ x \notin s => s \cup {x} \in C
    BY <1>2
  <2> QED
    BY <1>1, <2>1, Building
<1> QED
  BY <1>3

LEMMA PlacesAdd ==
    ASSUME NEW n \in Nat, n >= 1, NEW T \in SUBSET (1..(n - 1))
    PROVE  /\ Max(T \cup {n}) = n /\ IsFiniteSet(T) /\ n \notin T
           /\ T = {} => Min(T \cup {n}) = n
           /\ T # {} => Min(T \cup {n}) = Min(T) /\ Min(T) \in T /\ Max(T) \in T
<1>1. PICK S : S = T \cup {n}
  OBVIOUS
<1>2. S \in SUBSET (1..n) /\ S # {} /\ n \in S
  BY <1>1
<1>3. Max(S) \in S /\ \A y \in S : Max(S) >= y
  BY <1>2, MaxOfPlaces
<1>4. Max(S) = n
  <2>1. PICK a : a = Max(S)
    OBVIOUS
  <2>2. a \in 1..n /\ a >= n
    BY <1>2, <1>3, <2>1
  <2> QED
    BY <2>1, <2>2
<1>5. Min(S) \in S /\ \A y \in S : Min(S) <= y
  BY <1>2, MinOfPlaces
<1>6. IsFiniteSet(T)
  <2>1. 1 \in Int /\ n - 1 \in Int
    OBVIOUS
  <2>2. IsFiniteSet(1..(n - 1))
    BY <2>1, FS_Interval
  <2> QED
    BY <2>2, FS_Subset
<1>7. T = {} => Min(S) = n
  BY <1>1, <1>5
<1>8. ASSUME T # {} PROVE Min(S) = Min(T) /\ Min(T) \in T /\ Max(T) \in T
  <2>1. n - 1 \in Nat
    OBVIOUS
  <2>2. Min(T) \in T /\ \A y \in T : Min(T) <= y
    BY <1>8, <2>1, MinOfPlaces
  <2>3. Max(T) \in T
    BY <1>8, <2>1, MaxOfPlaces
  <2>4. Min(T) \in 1..(n - 1)
    BY <2>2
  <2>5. Min(S) # n
    BY <1>1, <1>5, <2>2, <2>4
  <2>6. Min(S) \in T
    BY <1>1, <1>5, <2>5
  <2>7. PICK a, b : a = Min(S) /\ b = Min(T)
    OBVIOUS
  <2>8. a \in 1..n /\ b \in 1..n /\ a <= b /\ b <= a
    BY <1>1, <1>2, <1>5, <2>2, <2>6, <2>7
  <2> QED
    BY <2>2, <2>3, <2>7, <2>8
<1> QED
  BY <1>1, <1>4, <1>6, <1>7, <1>8

\* The trades of a symbol among the first n rows: of one session, and of any.
TradesOf(rows, s, ses, n) ==
    {k \in 1..n : decode_event(rows[k]) = "trade" /\ rows[k].sym = s /\ rows[k].ses = ses}

TradesIn(rows, s, n) == {k \in 1..n : decode_event(rows[k]) = "trade" /\ rows[k].sym = s}

SumsUp(rows, T) ==
    T # {} => Volume(rows, T) = rows[Max(T)].cum - rows[Min(T)].cum + rows[Min(T)].qty

LastCum(cum, rows, T) == IF T = {} THEN cum = None ELSE cum = rows[Max(T)].cum

TradeEvent(x, s) == x.kind = "trade" /\ x.e.sym = s

FirstEvent(events, rows, s, T) ==
    IF T = {} THEN \A k \in 1..Len(events) : ~TradeEvent(events[k], s)
    ELSE \E j \in 1..Len(events) : /\ TradeEvent(events[j], s) /\ events[j].e = rows[Min(T)]
                                   /\ \A k \in 1..(j - 1) : ~TradeEvent(events[k], s)

DayRows(rows) ==
    IsSequence(rows) /\ Contiguous(rows) /\ \A p \in 1..Len(rows) : IsRow(rows[p])

LEMMA TradesAdd ==
    ASSUME NEW rows, NEW n \in Nat, n >= 1, NEW s,
           decode_event(rows[n]) = "trade", rows[n].sym = s
    PROVE  /\ TradesOf(rows, s, rows[n].ses, n) = TradesOf(rows, s, rows[n].ses, n - 1) \cup {n}
           /\ TradesIn(rows, s, n) = TradesIn(rows, s, n - 1) \cup {n}
           /\ \A k : TradesOf(rows, s, k, n - 1) \in SUBSET (1..(n - 1))
           /\ TradesIn(rows, s, n - 1) \in SUBSET (1..(n - 1))
<1>1. 1..n = 1..(n - 1) \cup {n}
  OBVIOUS
<1>2. \A k : TradesOf(rows, s, k, n - 1) \in SUBSET (1..(n - 1))
  BY DEF TradesOf
<1>3. TradesIn(rows, s, n - 1) \in SUBSET (1..(n - 1))
  BY DEF TradesIn
<1>4. TradesOf(rows, s, rows[n].ses, n) = TradesOf(rows, s, rows[n].ses, n - 1) \cup {n}
  BY <1>1 DEF TradesOf
<1>5. TradesIn(rows, s, n) = TradesIn(rows, s, n - 1) \cup {n}
  BY <1>1 DEF TradesIn
<1> QED
  BY <1>2, <1>3, <1>4, <1>5

LEMMA TradesOther ==
    ASSUME NEW rows, NEW n \in Nat, n >= 1, NEW s, NEW k, k # rows[n].ses
    PROVE  TradesOf(rows, s, k, n) = TradesOf(rows, s, k, n - 1)
<1>1. 1..n = 1..(n - 1) \cup {n}
  OBVIOUS
<1> QED
  BY <1>1 DEF TradesOf

LEMMA TradesSame ==
    ASSUME NEW rows, NEW n \in Nat, n >= 1, NEW s,
           ~(decode_event(rows[n]) = "trade" /\ rows[n].sym = s)
    PROVE  /\ \A k : TradesOf(rows, s, k, n) = TradesOf(rows, s, k, n - 1)
           /\ TradesIn(rows, s, n) = TradesIn(rows, s, n - 1)
<1>1. 1..n = 1..(n - 1) \cup {n}
  OBVIOUS
<1> QED
  BY <1>1 DEF TradesOf, TradesIn

LEMMA ClosingKeeps ==
    ASSUME NEW r, IsReplay(r), NEW c, NEW bars, Closing(r, c, bars)
    PROVE  /\ IsMarket(c) /\ c.active = r.m.active /\ c.issues = r.m.issues
           /\ \A s \in Symbols : c.sym[s].cum = r.m.sym[s].cum
<1>1. CASE c = r.m
  BY <1>1 DEF IsReplay
<1>2. ASSUME NEW t, c = MarketAdvance(r.m, t).m
      PROVE  /\ IsMarket(c) /\ c.active = r.m.active /\ c.issues = r.m.issues
             /\ \A s \in Symbols : c.sym[s].cum = r.m.sym[s].cum
  <2>1. PICK a : a = MarketAdvance(r.m, t)
    OBVIOUS
  <2>2. /\ IsMarket(a.m) /\ a.m.active = r.m.active /\ a.m.issues = r.m.issues
        /\ \A s \in Symbols : Advanced(r.m.sym[s], a.m.sym[s], t)
    BY <2>1, AdvanceIs DEF IsReplay
  <2> QED
    BY <1>2, <2>1, <2>2 DEF Advanced
<1> QED
  BY <1>1, <1>2 DEF Closing

LEMMA FirstEventKept ==
    ASSUME NEW events, IsSequence(events), NEW rows, NEW s, NEW T, FirstEvent(events, rows, s, T),
           NEW x, ~TradeEvent(x, s) \/ T # {}
    PROVE  FirstEvent(Append(events, x), rows, s, T)
<1>1. PICK z, L : z = Append(events, x) /\ L = Len(events)
  OBVIOUS
<1>2. /\ IsSequence(z) /\ Len(z) = L + 1 /\ z[L + 1] = x /\ L \in Nat
      /\ \A i \in 1..L : z[i] = events[i]
  BY <1>1, AppendSequence, SequenceParts
<1>3. CASE T = {}
  <2>1. \A k \in 1..L : ~TradeEvent(z[k], s)
    BY <1>1, <1>2, <1>3 DEF FirstEvent
  <2>2. ~TradeEvent(z[L + 1], s)
    BY <1>2, <1>3
  <2>3. \A k \in 1..(L + 1) : k \in 1..L \/ k = L + 1
    BY <1>2
  <2>4. \A k \in 1..Len(z) : ~TradeEvent(z[k], s)
    BY <1>2, <2>1, <2>2, <2>3
  <2> QED
    BY <1>1, <1>3, <2>4 DEF FirstEvent
<1>4. CASE T # {}
  <2>1. PICK j \in 1..L : /\ TradeEvent(events[j], s) /\ events[j].e = rows[Min(T)]
                          /\ \A k \in 1..(j - 1) : ~TradeEvent(events[k], s)
    BY <1>1, <1>4 DEF FirstEvent
  <2>2. j \in 1..Len(z) /\ z[j] = events[j]
    BY <1>2
  <2>3. \A k \in 1..(j - 1) : z[k] = events[k]
    BY <1>2
  <2>4. \A k \in 1..(j - 1) : ~TradeEvent(z[k], s)
    BY <2>1, <2>3
  <2>5. TradeEvent(z[j], s) /\ z[j].e = rows[Min(T)]
    BY <2>1, <2>2
  <2> QED
    BY <1>1, <1>4, <2>2, <2>4, <2>5 DEF FirstEvent
<1> QED
  BY <1>3, <1>4

\* The first trade event of a symbol.
LEMMA FirstEventNew ==
    ASSUME NEW events, IsSequence(events), NEW rows, NEW s, FirstEvent(events, rows, s, {}),
           NEW x, TradeEvent(x, s), NEW T, T # {}, x.e = rows[Min(T)]
    PROVE  FirstEvent(Append(events, x), rows, s, T)
<1>1. PICK z, L : z = Append(events, x) /\ L = Len(events)
  OBVIOUS
<1>2. /\ IsSequence(z) /\ Len(z) = L + 1 /\ z[L + 1] = x /\ L \in Nat
      /\ \A i \in 1..L : z[i] = events[i]
  BY <1>1, AppendSequence, SequenceParts
<1>3. PICK j : j = L + 1
  OBVIOUS
<1>4. j \in 1..Len(z) /\ j - 1 = L
  BY <1>2, <1>3
<1>5. \A k \in 1..(j - 1) : ~TradeEvent(z[k], s)
  BY <1>1, <1>2, <1>4 DEF FirstEvent
<1>6. TradeEvent(z[j], s) /\ z[j].e = rows[Min(T)]
  BY <1>2, <1>3
<1> QED
  BY <1>1, <1>4, <1>5, <1>6 DEF FirstEvent

-----------------------------------------------------------------------------
(***************************************************************************)
(* The volume of a replay without an issue: the quantities of a session's  *)
(* trades add up to the change of the cumulative volume.                   *)
(***************************************************************************)
Sound(r) == r.m.issues = {} /\ ~r.raised

Active(r, rows, n) == IF n = 0 THEN r.m.active = None ELSE r.m.active = rows[n].ses

SymbolVolume(r, rows, n, s) ==
    /\ \A ses : SumsUp(rows, TradesOf(rows, s, ses, n))
    /\ LastCum(r.m.sym[s].cum, rows, TradesOf(rows, s, r.m.active, n))
    /\ FirstEvent(r.events, rows, s, TradesIn(rows, s, n))

VolumeInv(r, rows, n) ==
    Sound(r) => Active(r, rows, n) /\ \A s \in Symbols : SymbolVolume(r, rows, n, s)

\* The cumulative volume an envelope finds is that of its own session.
LEMMA FoundCum ==
    ASSUME NEW rows, DayRows(rows), NEW n \in 1..Len(rows), NEW c, IsMarket(c),
           IF n = 1 THEN c.active = None ELSE c.active = rows[n - 1].ses,
           NEW s \in Symbols, LastCum(c.sym[s].cum, rows, TradesOf(rows, s, c.active, n - 1))
    PROVE  LastCum(Found(c, rows[n])[s].cum, rows, TradesOf(rows, s, rows[n].ses, n - 1))
<1>0. Len(rows) \in Nat
  BY SequenceParts DEF DayRows
<1>1. PICK ses, p : ses = rows[n].ses /\ p = n - 1 /\ p \in Nat
  BY <1>0
<1>2. \A k \in 1..Len(rows) : rows[k].ses \in Nat /\ rows[k].ses # None
  BY MarketAssumption DEF DayRows, IsRow
<1>3. CASE c.active # None /\ ses # c.active
  <2>1. Found(c, rows[n])[s].cum = None
    BY <1>1, <1>3 DEF Found, EmptySymbol
  <2>2. n # 1 /\ rows[p].ses # ses
    BY <1>1, <1>3
  <2>3. ASSUME NEW k \in 1..p, rows[k].ses = ses PROVE FALSE
    <3>1. k # p
      BY <2>2, <2>3
    <3>2. k < p /\ p < n /\ k \in 1..Len(rows) /\ p \in 1..Len(rows)
      BY <1>1, <3>1
    <3>3. rows[p].ses = rows[k].ses
      BY <1>1, <2>3, <3>2 DEF DayRows, Contiguous
    <3> QED
      BY <2>2, <2>3, <3>3
  <2>4. TradesOf(rows, s, ses, p) = {}
    BY <2>3 DEF TradesOf
  <2> QED
    BY <1>1, <2>1, <2>4 DEF LastCum
<1>4. CASE c.active = None
  <2>1. n = 1
    <3>1. n # 1 => n - 1 \in 1..Len(rows)
      OBVIOUS
    <3> QED
      BY <1>2, <1>4, <3>1
  <2>2. p = 0 /\ \A z : TradesOf(rows, s, z, p) = {}
    BY <1>1, <2>1 DEF TradesOf
  <2>3. Found(c, rows[n]) = c.sym
    BY <1>4 DEF Found
  <2> QED
    BY <1>1, <2>2, <2>3 DEF LastCum
<1>5. CASE c.active = ses
  <2>1. Found(c, rows[n]) = c.sym
    BY <1>1, <1>5 DEF Found
  <2> QED
    BY <1>1, <1>5, <2>1
<1> QED
  BY <1>3, <1>4, <1>5

\* One more trade of a session.
LEMMA SumsUpNext ==
    ASSUME NEW rows, NEW n \in Nat, n >= 1, NEW T \in SUBSET (1..(n - 1)), SumsUp(rows, T),
           \A k \in 1..n : rows[k].qty \in Int /\ rows[k].cum \in Int,
           T # {} => rows[n].cum = rows[Max(T)].cum + rows[n].qty
    PROVE  SumsUp(rows, T \cup {n})
<1>1. /\ Max(T \cup {n}) = n /\ IsFiniteSet(T) /\ n \notin T
      /\ T = {} => Min(T \cup {n}) = n
      /\ T # {} => Min(T \cup {n}) = Min(T) /\ Min(T) \in T /\ Max(T) \in T
  BY PlacesAdd
<1>2. Quantities(rows, T \cup {n}) /\ Quantities(rows, T)
  BY DEF Quantities
<1>3. Volume(rows, T \cup {n}) = Volume(rows, T) + rows[n].qty /\ Volume(rows, T) \in Int
  BY <1>1, <1>2, VolumeAdd, VolumeType
<1>4. CASE T = {}
  <2>1. Volume(rows, T) = 0
    BY <1>4, VolumeEmpty
  <2>2. rows[n].qty \in Int /\ rows[n].cum \in Int
    OBVIOUS
  <2> QED
    BY <1>1, <1>3, <1>4, <2>1, <2>2 DEF SumsUp
<1>5. CASE T # {}
  <2>1. PICK a, b, v, x, y, q :
           /\ a = rows[Max(T)].cum /\ b = rows[Min(T)].cum /\ v = rows[Min(T)].qty
           /\ x = rows[n].cum /\ y = rows[n].qty /\ q = Volume(rows, T)
    OBVIOUS
  <2>2. a \in Int /\ b \in Int /\ v \in Int /\ x \in Int /\ y \in Int /\ q \in Int
    BY <1>1, <1>3, <1>5, <2>1
  <2>3. q = a - b + v /\ x = a + y
    BY <1>5, <2>1 DEF SumsUp
  <2>4. q + y = x - b + v
    BY <2>2, <2>3
  <2> QED
    BY <1>1, <1>3, <1>5, <2>1, <2>4 DEF SumsUp
<1> QED
  BY <1>4, <1>5

\* A row that is no accepted trade of the symbol.
LEMMA VolumeKept ==
    ASSUME NEW rows, NEW n \in Nat, n >= 1, NEW s \in Symbols, NEW ses, NEW cum, NEW z, NEW r,
           ~(decode_event(rows[n]) = "trade" /\ rows[n].sym = s),
           z.m.active = ses, z.m.sym[s].cum = cum,
           LastCum(cum, rows, TradesOf(rows, s, ses, n - 1)),
           \A k : SumsUp(rows, TradesOf(rows, s, k, n - 1)),
           FirstEvent(r.events, rows, s, TradesIn(rows, s, n - 1)), IsSequence(r.events),
           z.events = r.events
             \/ \E x : z.events = Append(r.events, x) /\ ~TradeEvent(x, s)
    PROVE  SymbolVolume(z, rows, n, s)
<1>1. \A k : TradesOf(rows, s, k, n) = TradesOf(rows, s, k, n - 1)
  BY TradesSame
<1>2. TradesIn(rows, s, n) = TradesIn(rows, s, n - 1)
  BY TradesSame
<1>3. FirstEvent(z.events, rows, s, TradesIn(rows, s, n))
  <2>1. CASE z.events = r.events
    BY <1>2, <2>1
  <2>2. CASE \E x : z.events = Append(r.events, x) /\ ~TradeEvent(x, s)
    <3>1. PICK x : z.events = Append(r.events, x) /\ ~TradeEvent(x, s)
      BY <2>2
    <3>2. FirstEvent(Append(r.events, x), rows, s, TradesIn(rows, s, n - 1))
      BY <3>1, FirstEventKept
    <3> QED
      BY <1>2, <3>1, <3>2
  <2> QED
    BY <2>1, <2>2
<1> QED
  BY <1>1, <1>3 DEF SymbolVolume

LEMMA VolumeStep ==
    ASSUME NEW rows, DayRows(rows), NEW n \in 1..Len(rows), NEW r, IsReplay(r),
           VolumeInv(r, rows, n - 1), NEW z, NEW c, NEW bars, NEW u,
           ReplayedBy(r, rows[n], z, c, bars, u), Closing(r, c, bars)
    PROVE  VolumeInv(z, rows, n)
<1> SUFFICES ASSUME Sound(z)
             PROVE  Active(z, rows, n) /\ \A s \in Symbols : SymbolVolume(z, rows, n, s)
  BY DEF VolumeInv
<1>0. Len(rows) \in Nat
  BY SequenceParts DEF DayRows
<1>1. PICK e, ses, p : e = rows[n] /\ ses = e.ses /\ p = n - 1 /\ p \in Nat
  BY <1>0
<1>2. n \in Nat /\ n >= 1
  BY <1>0
<1>3. IsRow(e) /\ ses \in Nat
  BY <1>1 DEF DayRows, IsRow
<1>4. /\ IsMarket(c) /\ c.active = r.m.active /\ c.issues = r.m.issues
      /\ \A s \in Symbols : c.sym[s].cum = r.m.sym[s].cum
  BY ClosingKeeps
<1>5. /\ u = MarketApply(c, e) /\ z.m = u.m /\ (r.raised => z.raised) /\ (u.raised => z.raised)
      /\ z.events = (IF u.kind = "none" THEN r.events
                     ELSE Append(r.events, [e |-> e, kind |-> u.kind]))
  BY <1>1 DEF ReplayedBy
<1>6. /\ u.m.active = ses /\ c.issues \subseteq u.m.issues
      /\ (Rejects(c, e, u) \/ Accepts(c, e, u))
  <2>1. IsMarket(c) /\ u = MarketApply(c, e)
    BY <1>4, <1>5
  <2>2. u.m.active = e.ses /\ c.issues \subseteq u.m.issues
    BY <2>1, MarketCases
  <2>3. Rejects(c, e, u) \/ Accepts(c, e, u)
    BY <2>1, MarketCases
  <2> QED
    BY <1>1, <2>2, <2>3
<1>7. u.m.issues = {} /\ ~u.raised /\ Sound(r)
  BY <1>4, <1>5, <1>6 DEF Sound
<1>8. Active(r, rows, p) /\ \A s \in Symbols : SymbolVolume(r, rows, p, s)
  BY <1>1, <1>7 DEF VolumeInv
<1>9. Active(z, rows, n) /\ z.m.active = ses
  BY <1>1, <1>2, <1>5, <1>6 DEF Active
<1>10. ASSUME NEW s \in Symbols PROVE LastCum(Found(c, e)[s].cum, rows, TradesOf(rows, s, ses, p))
  <2>1. IF n = 1 THEN c.active = None ELSE c.active = rows[n - 1].ses
    BY <1>1, <1>2, <1>4, <1>8 DEF Active
  <2>2. LastCum(c.sym[s].cum, rows, TradesOf(rows, s, c.active, n - 1))
    BY <1>1, <1>4, <1>8 DEF SymbolVolume
  <2> QED
    BY <1>1, <1>4, <2>1, <2>2, FoundCum
<1>11. IsSequence(r.events)
  BY DEF IsReplay
<1>12. ASSUME NEW s \in Symbols, ~(decode_event(e) = "trade" /\ e.sym = s),
              z.m.sym[s].cum = Found(c, e)[s].cum,
              z.events = r.events \/ \E x : z.events = Append(r.events, x) /\ ~TradeEvent(x, s)
       PROVE  SymbolVolume(z, rows, n, s)
  <2>1. PICK cum : cum = Found(c, e)[s].cum
    OBVIOUS
  <2>2. LastCum(cum, rows, TradesOf(rows, s, ses, n - 1))
    BY <1>1, <1>10, <2>1
  <2>3. /\ \A k : SumsUp(rows, TradesOf(rows, s, k, n - 1))
        /\ FirstEvent(r.events, rows, s, TradesIn(rows, s, n - 1))
    BY <1>1, <1>8 DEF SymbolVolume
  <2>4. ~(decode_event(rows[n]) = "trade" /\ rows[n].sym = s)
    BY <1>1, <1>12
  <2> QED
    BY <1>2, <1>9, <1>11, <1>12, <2>1, <2>2, <2>3, <2>4, VolumeKept
<1>13. CASE Rejects(c, e, u)
  <2>1. z.events = r.events /\ z.m.sym = Found(c, e)
    BY <1>5, <1>13 DEF Rejects
  <2>2. ASSUME NEW s \in Symbols PROVE ~(decode_event(e) = "trade" /\ e.sym = s)
    <3>1. e.ctx = "indices" => e.sym \in Indices
      BY <1>3 DEF IsRow
    <3>2. e.ctx # "indices" => decode_event(e) = "none"
      BY <1>7, <1>13 DEF Rejects
    <3> QED
      BY <3>1, <3>2, ContextAssumption
  <2> QED
    BY <1>9, <1>12, <2>1, <2>2
<1>14. CASE Accepts(c, e, u)
  <2>1. PICK f, t, x, step, kind :
           /\ f = Found(c, e) /\ t = e.sym /\ x = f[t] /\ kind = u.kind
           /\ step = SymbolStep(x, e, kind)
    OBVIOUS
  <2>2. /\ t \in Symbols /\ kind = decode_event(e) /\ kind \in {"trade", "quote", "auction"}
        /\ step.issues = {} /\ z.m.sym = [f EXCEPT ![t] = step.sym]
    BY <1>5, <1>14, <2>1 DEF Accepts
  <2>3. HotState(f) /\ IsSymbol(x)
    BY <1>4, <2>1, <2>2, FoundIs DEF HotState
  <2>4. \A s \in Symbols : z.m.sym[s] = IF s = t THEN step.sym ELSE f[s]
    BY <2>2, <2>3 DEF HotState
  <2>5. PICK y : y = [e |-> e, kind |-> kind]
    OBVIOUS
  <2>6. z.events = Append(r.events, y) /\ y.e = e /\ y.kind = kind
    BY <1>5, <2>1, <2>2, <2>5
  <2>7. ASSUME NEW s \in Symbols, s # t PROVE SymbolVolume(z, rows, n, s)
    <3>1. ~TradeEvent(y, s)
      BY <2>1, <2>6, <2>7 DEF TradeEvent
    <3>2. z.m.sym[s].cum = f[s].cum
      BY <2>4, <2>7
    <3> QED
      BY <1>12, <2>1, <2>6, <2>7, <3>1, <3>2
  <2>8. CASE kind # "trade"
    <3>1. step.sym.cum = x.cum
      <4>1. CASE kind = "quote"
        <5>0. step = SymbolStep(x, e, "quote") /\ SymbolStep(x, e, "quote").issues = {}
          BY <2>1, <2>2, <4>1
        <5>1. step.sym = [x EXCEPT !.quote = e, !.quoteTime = e.et]
          BY <2>3, <5>0, QuoteStep
        <5> QED
          BY <2>3, <5>1 DEF IsSymbol
      <4>2. CASE kind = "auction"
        <5>0. step = SymbolStep(x, e, "auction") /\ SymbolStep(x, e, "auction").issues = {}
          BY <2>1, <2>2, <4>2
        <5>1. step.sym = [x EXCEPT !.tradeTime = e.et]
          BY <2>3, <5>0, AuctionStep
        <5> QED
          BY <2>3, <5>1 DEF IsSymbol
      <4> QED
        BY <2>2, <2>8, <4>1, <4>2
    <3>2. z.m.sym[t].cum = f[t].cum
      BY <2>1, <2>2, <2>4, <3>1
    <3>3. ~TradeEvent(y, t)
      BY <2>6, <2>8 DEF TradeEvent
    <3>4. SymbolVolume(z, rows, n, t)
      BY <1>12, <2>1, <2>2, <2>6, <2>8, <3>2, <3>3
    <3> QED
      BY <1>9, <2>7, <3>4
  <2>9. CASE kind = "trade"
    <3>1. TradeFits(x, e) /\ step.sym.cum = e.cum
      <4>1. TradeFits(x, e) /\ Traded(x, e, step.sym, step.bars)
        BY <2>1, <2>2, <2>3, <2>9, TradeStep
      <4> QED
        BY <4>1 DEF Traded
    <3>0. decode_event(rows[n]) = "trade" /\ rows[n].sym = t /\ rows[n].ses = ses
      BY <1>1, <2>1, <2>2, <2>9
    <3>2. PICK T, A : T = TradesOf(rows, t, ses, p) /\ A = TradesIn(rows, t, p)
      OBVIOUS
    <3>3. /\ T \in SUBSET (1..(n - 1)) /\ A \in SUBSET (1..(n - 1))
          /\ TradesOf(rows, t, ses, n) = T \cup {n} /\ TradesIn(rows, t, n) = A \cup {n}
      <4>1. PICK m : m = rows[n].ses
        OBVIOUS
      <4>2. /\ TradesOf(rows, t, m, n) = TradesOf(rows, t, m, n - 1) \cup {n}
            /\ TradesIn(rows, t, n) = TradesIn(rows, t, n - 1) \cup {n}
            /\ TradesOf(rows, t, m, n - 1) \in SUBSET (1..(n - 1))
            /\ TradesIn(rows, t, n - 1) \in SUBSET (1..(n - 1))
        BY <1>2, <3>0, <4>1, TradesAdd
      <4> QED
        BY <1>1, <3>0, <3>2, <4>1, <4>2
    <3>4. LastCum(x.cum, rows, T)
      BY <1>10, <2>1, <2>2, <3>2
    <3>5. /\ Max(T \cup {n}) = n
          /\ A = {} => Min(A \cup {n}) = n
          /\ A # {} => Min(A \cup {n}) = Min(A)
          /\ T # {} => Max(T) \in T
      BY <1>2, <3>3, PlacesAdd
    <3>6. \A k \in 1..n : IsRow(rows[k])
      BY <1>0 DEF DayRows
    <3>7. \A k \in 1..n : rows[k].qty \in Int /\ rows[k].cum \in Int
      BY <3>6 DEF IsRow
    <3>8. T # {} => rows[n].cum = rows[Max(T)].cum + rows[n].qty
      <4>1. SUFFICES ASSUME T # {} PROVE rows[n].cum = rows[Max(T)].cum + rows[n].qty
        OBVIOUS
      <4>2. Max(T) \in 1..n
        <5>1. PICK b : b = Max(T)
          OBVIOUS
        <5>2. b \in 1..(n - 1)
          BY <3>3, <3>5, <4>1, <5>1
        <5> QED
          BY <1>2, <5>1, <5>2
      <4>3. x.cum = rows[Max(T)].cum /\ rows[Max(T)].cum \in Int
        BY <3>4, <3>7, <4>1, <4>2 DEF LastCum
      <4>4. x.cum # None
        BY <4>3, MarketAssumption
      <4> QED
        BY <1>1, <3>1, <4>3, <4>4 DEF TradeFits
    <3>9. SumsUp(rows, T)
      BY <1>8, <2>2, <3>2 DEF SymbolVolume
    <3>10. SumsUp(rows, T \cup {n})
      BY <1>2, <3>3, <3>7, <3>8, <3>9, SumsUpNext
    <3>11. ASSUME NEW k PROVE SumsUp(rows, TradesOf(rows, t, k, n))
      <4>1. CASE k = ses
        BY <3>3, <3>10, <4>1
      <4>2. CASE k # ses
        <5>1. TradesOf(rows, t, k, n) = TradesOf(rows, t, k, p)
          BY <1>1, <1>2, <4>2, TradesOther
        <5> QED
          BY <1>8, <2>2, <5>1 DEF SymbolVolume
      <4> QED
        BY <4>1, <4>2
    <3>12. LastCum(z.m.sym[t].cum, rows, TradesOf(rows, t, z.m.active, n))
      BY <1>1, <1>9, <2>2, <2>4, <3>1, <3>3, <3>5 DEF LastCum
    <3>13. FirstEvent(z.events, rows, t, TradesIn(rows, t, n))
      <4>1. FirstEvent(r.events, rows, t, A)
        BY <1>8, <2>2, <3>2 DEF SymbolVolume
      <4>2. TradeEvent(y, t)
        BY <2>1, <2>6, <2>9 DEF TradeEvent
      <4>3. CASE A = {}
        <5>1. y.e = rows[Min(A \cup {n})] /\ A \cup {n} # {}
          BY <1>1, <2>6, <3>5, <4>3
        <5>2. FirstEvent(r.events, rows, t, {})
          BY <4>1, <4>3
        <5>3. FirstEvent(Append(r.events, y), rows, t, A \cup {n})
          BY <1>11, <4>2, <5>1, <5>2, FirstEventNew
        <5> QED
          BY <2>6, <3>3, <5>3
      <4>4. CASE A # {}
        <5>1. FirstEvent(Append(r.events, y), rows, t, A)
          BY <1>11, <4>1, <4>4, FirstEventKept
        <5>2. FirstEvent(Append(r.events, y), rows, t, A \cup {n})
          BY <3>5, <4>4, <5>1 DEF FirstEvent
        <5> QED
          BY <2>6, <3>3, <5>2
      <4> QED
        BY <4>3, <4>4
    <3>14. SymbolVolume(z, rows, n, t)
      BY <3>11, <3>12, <3>13 DEF SymbolVolume
    <3> QED
      BY <1>9, <2>7, <3>14
  <2> QED
    BY <2>8, <2>9
<1> QED
  BY <1>6, <1>13, <1>14
LEMMA VolumeInit == ASSUME NEW rows PROVE VolumeInv(InitReplay, rows, 0)
<1>1. PICK r : r = InitReplay
  OBVIOUS
<1>2. /\ r.m.active = None /\ r.events = <<>>
      /\ \A s \in Symbols : r.m.sym[s].cum = None
  BY <1>1, InitReplayIs DEF EmptySymbol
<1>3. \A s, k : TradesOf(rows, s, k, 0) = {} /\ TradesIn(rows, s, 0) = {}
  BY DEF TradesOf, TradesIn
<1>4. \A s : FirstEvent(r.events, rows, s, {})
  BY <1>2 DEF FirstEvent
<1>5. Active(r, rows, 0)
  BY <1>2 DEF Active
<1>6. \A s \in Symbols : SymbolVolume(r, rows, 0, s)
  BY <1>2, <1>3, <1>4 DEF SymbolVolume, SumsUp, LastCum
<1>7. VolumeInv(r, rows, 0)
  BY <1>5, <1>6 DEF VolumeInv
<1> QED
  BY <1>1, <1>7

LEMMA VolumeClosed ==
    ASSUME NEW r, IsReplay(r), NEW rows, NEW n, VolumeInv(r, rows, n), NEW t
    PROVE  IsReplay(CloseSegment(r, t)) /\ VolumeInv(CloseSegment(r, t), rows, n)
<1>1. PICK c, a : c = CloseSegment(r, t) /\ a = MarketAdvance(r.m, t)
  OBVIOUS
<1>2. /\ IsReplay(c) /\ c.m = a.m /\ c.events = r.events /\ (r.raised => c.raised)
  BY <1>1, CloseSegmentIs
<1>3. /\ a.m.active = r.m.active /\ a.m.issues = r.m.issues
      /\ \A s \in Symbols : Advanced(r.m.sym[s], a.m.sym[s], t)
  BY <1>1, AdvanceIs DEF IsReplay
<1>4. \A s \in Symbols : a.m.sym[s].cum = r.m.sym[s].cum
  BY <1>3 DEF Advanced
<1>5. Sound(c) => Sound(r)
  BY <1>2, <1>3 DEF Sound
<1>6. Active(r, rows, n) => Active(c, rows, n)
  BY <1>2, <1>3 DEF Active
<1>7. ASSUME NEW s \in Symbols, SymbolVolume(r, rows, n, s) PROVE SymbolVolume(c, rows, n, s)
  BY <1>2, <1>3, <1>4, <1>7 DEF SymbolVolume
<1>8. VolumeInv(c, rows, n)
  BY <1>5, <1>6, <1>7 DEF VolumeInv
<1> QED
  BY <1>1, <1>2, <1>8

\* The replay of a day keeps the volumes of its sessions.
LEMMA ReplayVolume ==
    ASSUME NEW day, IsDay(day), NEW rows, rows = DayEnvelopes(day), DayRows(rows)
    PROVE  IsReplay(replay(day)) /\ VolumeInv(replay(day), rows, Len(rows))
<1>1. PICK N \in Nat : N = Len(rows)
  BY SequenceParts DEF DayRows
<1>2. PICK f : /\ f[0] = InitReplay /\ replay(day) = CloseDay(day, f[N])
               /\ \A n \in 1..N : f[n] = ReplayStep(day, f[n - 1], rows[n])
  BY <1>1, ReplayLoop DEF DayRows
<1> DEFINE B == {n \in 0..N : IsReplay(f[n]) /\ VolumeInv(f[n], rows, n)}
<1>3. 0 \in B
  BY <1>2, InitReplayIs, VolumeInit
<1>4. ASSUME NEW n \in 1..N, n - 1 \in B PROVE n \in B
  <2>1. PICK r, e : r = f[n - 1] /\ e = rows[n]
    OBVIOUS
  <2>2. IsReplay(r) /\ VolumeInv(r, rows, n - 1)
    BY <1>4, <2>1
  <2>3. PICK z : z = ReplayStep(day, r, e)
    OBVIOUS
  <2>4. PICK c, bars, u : /\ ReplayedBy(r, e, z, c, bars, u)
                          /\ IsMarket(c) /\ Closing(r, c, bars)
    BY <2>2, <2>3, ReplayStepIs
  <2>5. VolumeInv(z, rows, n)
    <3>1. ReplayedBy(r, rows[n], z, c, bars, u)
      BY <2>1, <2>4
    <3> HIDE DEF B
    <3> QED
      BY <1>1, <2>2, <2>4, <3>1, VolumeStep
  <2>6. IsReplay(z)
    BY <2>4 DEF ReplayedBy
  <2>7. f[n] = z
    BY <1>2, <2>1, <2>3
  <2> QED
    BY <2>5, <2>6, <2>7
<1>5. \A n \in 0..N : n \in B
  <2> HIDE DEF B
  <2>1. \A n \in 1..N : n - 1 \in B => n \in B
    BY <1>4
  <2> QED
    BY <1>3, <2>1, UpTo
<1>6. IsReplay(f[N]) /\ VolumeInv(f[N], rows, N)
  BY <1>5
<1>7. PICK t : replay(day) = CloseSegment(f[N], t)
  BY <1>2 DEF CloseDay
<1> QED
  BY <1>1, <1>6, <1>7, VolumeClosed

-----------------------------------------------------------------------------
(***************************************************************************)
(* The order of a day: its segments by connection, end and identifier      *)
(* (StreamDayReader).                                                      *)
(***************************************************************************)
Segments(S) ==
    /\ IsFiniteSet(S)
    /\ \A x \in S : x.connected \in Int /\ x.disconnected \in Int /\ x.id \in Int
    /\ \A x, y \in S : x.id = y.id => x = y

Rank(S, x) == Cardinality({y \in S : Earlier(y, x)})

LEMMA EarlierOrders ==
    ASSUME NEW S, Segments(S)
    PROVE  /\ \A a \in S : ~Earlier(a, a)
           /\ \A a, b \in S : a # b => Earlier(a, b) \/ Earlier(b, a)
           /\ \A a, b, c \in S : Earlier(a, b) /\ Earlier(b, c) => Earlier(a, c)
<1>1. \A x \in S : x.connected \in Int /\ x.disconnected \in Int /\ x.id \in Int
  BY DEF Segments
<1>2. \A a \in S : ~Earlier(a, a)
  BY <1>1 DEF Earlier
<1>3. ASSUME NEW a \in S, NEW b \in S, a # b PROVE Earlier(a, b) \/ Earlier(b, a)
  <2>1. a.id # b.id
    BY <1>3 DEF Segments
  <2> QED
    BY <1>1, <2>1 DEF Earlier
<1>4. ASSUME NEW a \in S, NEW b \in S, NEW c \in S, Earlier(a, b), Earlier(b, c)
      PROVE  Earlier(a, c)
  <2>1. PICK i, j, k, p, q, r, x, y, z :
           /\ i = a.connected /\ j = b.connected /\ k = c.connected
           /\ p = a.disconnected /\ q = b.disconnected /\ r = c.disconnected
           /\ x = a.id /\ y = b.id /\ z = c.id
    OBVIOUS
  <2>2. /\ i \in Int /\ j \in Int /\ k \in Int /\ p \in Int /\ q \in Int /\ r \in Int
        /\ x \in Int /\ y \in Int /\ z \in Int
    BY <1>1, <2>1
  <2>3. i < j \/ (i = j /\ p < q) \/ (i = j /\ p = q /\ x < y)
    BY <1>4, <2>1 DEF Earlier
  <2>4. j < k \/ (j = k /\ q < r) \/ (j = k /\ q = r /\ y < z)
    BY <1>4, <2>1 DEF Earlier
  <2>5. i < k \/ (i = k /\ p < r) \/ (i = k /\ p = r /\ x < z)
    BY <2>2, <2>3, <2>4
  <2> QED
    BY <2>1, <2>5 DEF Earlier
<1> QED
  BY <1>2, <1>3, <1>4

LEMMA RankRises ==
    ASSUME NEW S, Segments(S), NEW a \in S, NEW b \in S, Earlier(a, b)
    PROVE  Rank(S, a) \in Nat /\ Rank(S, b) \in Nat /\ Rank(S, a) < Rank(S, b)
<1>1. PICK A, B : A = {y \in S : Earlier(y, a)} /\ B = {y \in S : Earlier(y, b)}
  OBVIOUS
<1>2. IsFiniteSet(B) /\ IsFiniteSet(A)
  BY <1>1, FS_Subset DEF Segments
<1>3. a \in B /\ A \in SUBSET (B \ {a})
  <2>1. ~Earlier(a, a) /\ \A y \in S : Earlier(y, a) => Earlier(y, b)
    BY EarlierOrders
  <2> QED
    BY <1>1, <2>1
<1>4. /\ Cardinality(B \ {a}) = Cardinality(B) - 1 /\ IsFiniteSet(B \ {a})
      /\ Cardinality(B \ {a}) \in Nat /\ Cardinality(B) \in Nat
  BY <1>2, <1>3, Smaller
<1>5. Cardinality(A) <= Cardinality(B \ {a}) /\ Cardinality(A) \in Nat
  BY <1>2, <1>3, <1>4, FS_Subset, FS_CardinalityType
<1>6. Rank(S, a) = Cardinality(A) /\ Rank(S, b) = Cardinality(B)
  BY <1>1 DEF Rank
<1> QED
  BY <1>4, <1>5, <1>6

LEMMA RankBelow ==
    ASSUME NEW S, Segments(S), NEW x \in S, NEW N \in Nat, N = Cardinality(S)
    PROVE  Rank(S, x) \in 0..(N - 1)
<1>1. PICK B : B = {y \in S : Earlier(y, x)}
  OBVIOUS
<1>2. x \notin B /\ B \in SUBSET (S \ {x})
  <2>1. ~Earlier(x, x)
    BY EarlierOrders
  <2> QED
    BY <1>1, <2>1
<1>3. IsFiniteSet(S \ {x}) /\ Cardinality(S \ {x}) = N - 1
  BY Smaller DEF Segments
<1>4. Cardinality(B) <= N - 1 /\ IsFiniteSet(B)
  BY <1>2, <1>3, FS_Subset
<1>5. Cardinality(B) \in Nat
  BY <1>4, FS_CardinalityType
<1>6. Rank(S, x) = Cardinality(B)
  BY <1>1 DEF Rank
<1> QED
  BY <1>4, <1>5, <1>6

\* Every rank is some segment's.
LEMMA RankTaken ==
    ASSUME NEW S, Segments(S), NEW N \in Nat, N = Cardinality(S), NEW n \in 1..N
    PROVE  \E x \in S : Rank(S, x) = n - 1
<1>1. PICK f : f = [x \in S |-> Rank(S, x)]
  OBVIOUS
<1>2. f \in [S -> 0..(N - 1)]
  BY <1>1, RankBelow
<1>3. ASSUME NEW a \in S, NEW b \in S, f[a] = f[b] PROVE a = b
  <2> SUFFICES ASSUME a # b PROVE FALSE
    OBVIOUS
  <2>1. Earlier(a, b) \/ Earlier(b, a)
    BY EarlierOrders
  <2>2. PICK p, q : p = Rank(S, a) /\ q = Rank(S, b)
    OBVIOUS
  <2>3. p \in Nat /\ q \in Nat /\ (p < q \/ q < p)
    BY <2>1, <2>2, RankRises
  <2> QED
    BY <1>1, <1>3, <2>2, <2>3
<1>4. f \in Injection(S, 0..(N - 1))
  BY <1>2, <1>3 DEF Injection, IsInjective
<1>5. IsFiniteSet(0..(N - 1)) /\ Cardinality(0..(N - 1)) = N
  <2>1. 0 \in Int /\ N - 1 \in Int
    OBVIOUS
  <2>2. /\ IsFiniteSet(0..(N - 1))
        /\ Cardinality(0..(N - 1)) = IF 0 > N - 1 THEN 0 ELSE (N - 1) - 0 + 1
    BY <2>1, FS_Interval
  <2> QED
    BY <2>2
<1>6. f \in Surjection(S, 0..(N - 1))
  BY <1>4, <1>5, FS_Injection
<1>7. n - 1 \in 0..(N - 1)
  OBVIOUS
<1>8. \E x \in S : f[x] = n - 1
  BY <1>6, <1>7 DEF Surjection
<1> QED
  BY <1>1, <1>8

LEMMA DayOrderIs ==
    ASSUME NEW S, Segments(S)
    PROVE  LET z == DayOrder(S)
           IN  /\ IsSequence(z)
               /\ \A n \in 1..Len(z) : z[n] \in S
               /\ \A n, k \in 1..Len(z) : n # k => z[n] # z[k]
<1>1. PICK N \in Nat : N = Cardinality(S)
  BY FS_CardinalityType DEF Segments
<1>2. PICK z : z = DayOrder(S)
  OBVIOUS
<1>3. /\ z = [n \in 1..N |-> z[n]]
      /\ \A n \in 1..N : z[n] = CHOOSE x \in S : Rank(S, x) = n - 1
  <2>1. z = [n \in 1..N |-> CHOOSE x \in S : Rank(S, x) = n - 1]
    BY <1>1, <1>2, Zenon DEF DayOrder, Rank
  <2> QED
    BY <2>1
<1>4. IsSequence(z) /\ Len(z) = N
  <2>1. DOMAIN z = 1..N
    BY <1>3
  <2>2. z = [i \in DOMAIN z |-> z[i]]
    BY <1>3, <2>1
  <2> QED
    BY <2>1, <2>2, FunctionSequence
<1>5. \A n \in 1..N : z[n] \in S /\ Rank(S, z[n]) = n - 1
  <2> SUFFICES ASSUME NEW n \in 1..N PROVE z[n] \in S /\ Rank(S, z[n]) = n - 1
    OBVIOUS
  <2>1. \E x \in S : Rank(S, x) = n - 1
    BY <1>1, RankTaken
  <2>2. z[n] = CHOOSE x \in S : Rank(S, x) = n - 1
    BY <1>3
  <2> QED
    BY <2>1, <2>2
<1>6. ASSUME NEW n \in 1..N, NEW k \in 1..N, n # k PROVE z[n] # z[k]
  <2>1. Rank(S, z[n]) = n - 1 /\ Rank(S, z[k]) = k - 1 /\ n - 1 # k - 1
    BY <1>5, <1>6
  <2> QED
    BY <2>1
<1> QED
  BY <1>2, <1>4, <1>5, <1>6

LEMMA EndsMoved ==
    ASSUME NEW n \in Nat, NEW T \in SUBSET (1..n), T # {}, NEW a \in Nat
    PROVE  /\ Min(Moved(T, a)) = a + Min(T) /\ Max(Moved(T, a)) = a + Max(T)
           /\ Min(T) \in T /\ Max(T) \in T
<1>1. PICK m, b, c, d, U : /\ U = Moved(T, a) /\ m = a + n
                           /\ b = Min(T) /\ c = Max(T)
                           /\ d = U
  OBVIOUS
<1>2. b \in T /\ (\A y \in T : b <= y) /\ c \in T /\ \A y \in T : c >= y
  BY <1>1, MinOfPlaces, MaxOfPlaces
<1>3. \A y \in U : \E k \in T : y = a + k
  BY <1>1 DEF Moved
<1>4. m \in Nat /\ U \in SUBSET (1..m) /\ U # {} /\ a + b \in U /\ a + c \in U
  <2>1. m \in Nat /\ a + b \in U /\ a + c \in U
    BY <1>1, <1>2 DEF Moved
  <2>2. \A y \in U : y \in 1..m
    BY <1>1, <1>3
  <2> QED
    BY <2>1, <2>2
<1>5. PICK x, y : x = Min(U) /\ y = Max(U)
  OBVIOUS
<1>6. x \in U /\ (\A z \in U : x <= z) /\ y \in U /\ \A z \in U : y >= z
  BY <1>4, <1>5, MinOfPlaces, MaxOfPlaces
<1>7. b \in Nat /\ c \in Nat /\ x \in Nat /\ y \in Nat
  BY <1>2, <1>4, <1>6
<1>8. x = a + b
  <2>1. PICK k \in T : x = a + k
    BY <1>3, <1>6
  <2>2. b <= k /\ x <= a + b /\ k \in Nat
    BY <1>2, <1>4, <1>6
  <2> QED
    BY <1>7, <2>1, <2>2
<1>9. y = a + c
  <2>1. PICK k \in T : y = a + k
    BY <1>3, <1>6
  <2>2. c >= k /\ y >= a + c /\ k \in Nat
    BY <1>2, <1>4, <1>6
  <2> QED
    BY <1>7, <2>1, <2>2
<1> QED
  BY <1>1, <1>2, <1>5, <1>8, <1>9

SymbolTrades(env, s) == {k \in DOMAIN env : decode_event(env[k]) = "trade" /\ env[k].sym = s}

InPlace(rows, a, id, env, s, T) ==
    /\ TradesOf(rows, s, id, Len(rows)) = Moved(T, a)
    /\ SameFrom(rows, env, T, a) /\ Quantities(env, T)
    /\ T \in SUBSET (1..Len(env)) /\ Len(env) \in Nat /\ a \in Nat

\* The trades of one session, at their places in the day.
LEMMA SegmentTrades ==
    ASSUME NEW day, IsDay(day), NEW rows, NEW off, Blocks(day, rows, off),
           NEW i \in 1..Len(day), NEW env, env = day[i].env, NEW s, NEW T,
           T = SymbolTrades(env, s)
    PROVE  InPlace(rows, off[i - 1], day[i].id, env, s, T)
<1> USE DEF SymbolTrades
<1>1. SessionRows(env, day[i].id)
  BY DEF IsDay
<1>2. PICK n, a, id : n = Len(env) /\ a = off[i - 1] /\ id = day[i].id
  OBVIOUS
<1>3. n \in Nat /\ DOMAIN env = 1..n
  BY <1>1, <1>2, SequenceParts DEF SessionRows
<1>4. /\ a \in Nat /\ off[i] = a + n /\ a + n <= Len(rows) /\ Len(rows) \in Nat
      /\ \A k \in 1..n : rows[a + k] = env[k]
      /\ \A p \in 1..Len(rows) : rows[p].ses = id => a < p /\ p <= a + n
  BY <1>2, <1>3, SequenceParts DEF Blocks
<1>5. \A k \in 1..n : IsRow(env[k]) /\ env[k].ses = id
  BY <1>1, <1>2 DEF SessionRows, Captured
<1>6. SameFrom(rows, env, T, a) /\ Quantities(env, T) /\ T \in SUBSET (1..n)
  BY <1>3, <1>4, <1>5 DEF SameFrom, Quantities, IsRow
<1>7. ASSUME NEW p \in TradesOf(rows, s, id, Len(rows)) PROVE p \in Moved(T, a)
  <2>1. /\ p \in 1..Len(rows) /\ decode_event(rows[p]) = "trade" /\ rows[p].sym = s
        /\ rows[p].ses = id
    BY <1>7 DEF TradesOf
  <2>2. PICK k : k = p - a
    OBVIOUS
  <2>3. k \in 1..n /\ p = a + k
    BY <1>3, <1>4, <2>1, <2>2
  <2>4. rows[p] = env[k]
    BY <1>4, <2>3
  <2>5. k \in T
    BY <1>3, <2>1, <2>3, <2>4
  <2> QED
    BY <2>3, <2>5 DEF Moved
<1>8. ASSUME NEW p \in Moved(T, a) PROVE p \in TradesOf(rows, s, id, Len(rows))
  <2>1. PICK k \in T : p = a + k
    BY <1>8 DEF Moved
  <2>2. k \in 1..n /\ decode_event(env[k]) = "trade" /\ env[k].sym = s
    BY <1>3
  <2>3. rows[p] = env[k] /\ env[k].ses = id /\ p \in 1..Len(rows)
    BY <1>3, <1>4, <1>5, <2>1, <2>2
  <2> QED
    BY <2>2, <2>3 DEF TradesOf
<1> QED
  BY <1>2, <1>3, <1>4, <1>6, <1>7, <1>8 DEF InPlace

LEMMA DayRowsIs == ASSUME NEW day, NEW rows, NEW off, Blocks(day, rows, off) PROVE DayRows(rows)
BY DEF Blocks, DayRows

\* A replay without issues whose first trades start from zero.
Complete(r) == Sound(r) /\ \A e \in FirstTrades(r) : e.cum = e.qty

LEMMA FirstTradeIs ==
    ASSUME NEW r, IsReplay(r), Complete(r), NEW rows, NEW s, NEW A, A # {},
           FirstEvent(r.events, rows, s, A)
    PROVE  rows[Min(A)].cum = rows[Min(A)].qty
<1>1. PICK j \in 1..Len(r.events) :
         /\ TradeEvent(r.events[j], s) /\ r.events[j].e = rows[Min(A)]
         /\ \A k \in 1..(j - 1) : ~TradeEvent(r.events[k], s)
  BY DEF FirstEvent
<1>2. PICK n \in Nat : n = Len(r.events) /\ DOMAIN r.events = 1..n
  BY SequenceParts DEF IsReplay
<1>3. j \in ReplayedTrades(r)
  BY <1>1, <1>2 DEF ReplayedTrades, TradeEvent
<1>4. ASSUME NEW k \in ReplayedTrades(r), k < j PROVE r.events[k].e.sym # r.events[j].e.sym
  <2>1. k \in 1..n /\ r.events[k].kind = "trade"
    BY <1>2 DEF ReplayedTrades
  <2>2. k \in 1..(j - 1)
    BY <1>2, <1>4, <2>1
  <2>3. r.events[j].e.sym = s
    BY <1>1 DEF TradeEvent
  <2> QED
    BY <1>1, <2>1, <2>2, <2>3 DEF TradeEvent
<1>5. r.events[j].e \in FirstTrades(r)
  BY <1>3, <1>4 DEF FirstTrades
<1> QED
  BY <1>1, <1>5 DEF Complete

WholeVolume(env, T, i) ==
    /\ Volume(env, T) = env[Max(T)].cum - env[Min(T)].cum + env[Min(T)].qty
    /\ i = 1 => env[Min(T)].cum = env[Min(T)].qty

LEMMA VolumesComplete ==
    ASSUME NEW day, IsDay(day), NEW r, r = replay(day), Complete(r),
           NEW i \in 1..Len(day), NEW env, env = day[i].env, NEW s \in Symbols, NEW T, T # {},
           T = SymbolTrades(env, s)
    PROVE  WholeVolume(env, T, i)
<1>1. PICK rows : rows = DayEnvelopes(day)
  OBVIOUS
<1>2. PICK off : Blocks(day, rows, off)
  BY <1>1, DayBlocks
<1>3. DayRows(rows)
  BY <1>2, DayRowsIs
<1>4. IsReplay(r) /\ VolumeInv(r, rows, Len(rows))
  BY <1>1, <1>3, ReplayVolume
<1>5. PICK N \in Nat : N = Len(rows)
  BY <1>3, SequenceParts DEF DayRows
<1>6. SymbolVolume(r, rows, N, s)
  BY <1>4, <1>5 DEF VolumeInv, Complete
<1>7. PICK a, n, id : a = off[i - 1] /\ n = Len(env) /\ id = day[i].id
  OBVIOUS
<1>8. /\ TradesOf(rows, s, id, N) = Moved(T, a)
      /\ SameFrom(rows, env, T, a) /\ Quantities(env, T)
      /\ T \in SUBSET (1..n) /\ n \in Nat /\ a \in Nat
  <2>1. InPlace(rows, off[i - 1], day[i].id, env, s, T)
    BY <1>2, SegmentTrades
  <2> QED
    BY <1>5, <1>7, <2>1 DEF InPlace
<1>9. PICK lo, hi : lo = Min(T) /\ hi = Max(T)
  OBVIOUS
<1>10. /\ Min(Moved(T, a)) = a + lo /\ Max(Moved(T, a)) = a + hi /\ lo \in T /\ hi \in T
  BY <1>8, <1>9, EndsMoved
<1>11. rows[a + lo] = env[lo] /\ rows[a + hi] = env[hi]
  BY <1>8, <1>10 DEF SameFrom
<1>12. Volume(rows, Moved(T, a)) = Volume(env, T)
  <2>1. IsFiniteSet(T)
    <3>1. IsFiniteSet(1..n)
      <4>1. 1 \in Int /\ n \in Int
        BY <1>8
      <4> QED
        BY <4>1, FS_Interval
    <3> QED
      BY <1>8, <3>1, FS_Subset
  <2>2. T \in SUBSET Nat
    BY <1>8
  <2> QED
    BY <1>8, <2>1, <2>2, VolumeMoved
<1>13. a + lo \in Moved(T, a)
  BY <1>10 DEF Moved
<1>14. SumsUp(rows, Moved(T, a))
  BY <1>6, <1>8 DEF SymbolVolume
<1>15. Volume(env, T) = env[hi].cum - env[lo].cum + env[lo].qty
  BY <1>10, <1>11, <1>12, <1>13, <1>14 DEF SumsUp
<1>16. ASSUME i = 1 PROVE env[lo].cum = env[lo].qty
  <2>1. PICK A : A = TradesIn(rows, s, N)
    OBVIOUS
  <2>2. a = 0 /\ lo \in A /\ A \in SUBSET (1..N)
    <3>1. a = 0
      BY <1>2, <1>7, <1>16 DEF Blocks
    <3>2. lo \in TradesOf(rows, s, id, N)
      BY <1>8, <1>10, <1>13, <3>1
    <3> QED
      BY <2>1, <3>1, <3>2 DEF TradesOf, TradesIn
  <2>3. PICK m : m = Min(A)
    OBVIOUS
  <2>4. m \in A /\ m <= lo
    BY <2>2, <2>3, MinOfPlaces
  <2>5. m \in 1..n
    BY <1>8, <1>10, <2>2, <2>4
  <2>6. rows[m] = env[m]
    <3>1. \A k \in 1..Len(day[i].env) : rows[off[i - 1] + k] = day[i].env[k]
      BY <1>2 DEF Blocks
    <3>2. \A k \in 1..n : rows[0 + k] = env[k]
      BY <1>7, <2>2, <3>1
    <3> QED
      BY <2>5, <3>2
  <2>7. m \in T
    <3>1. decode_event(rows[m]) = "trade" /\ rows[m].sym = s
      BY <2>1, <2>4 DEF TradesIn
    <3>2. m \in DOMAIN env
      <4>1. IsSequence(env)
        BY DEF IsDay, SessionRows
      <4> QED
        BY <1>7, <2>5, <4>1, SequenceParts
    <3> QED
      BY <2>6, <3>1, <3>2 DEF SymbolTrades
  <2>8. m = lo
    <3>1. lo <= m
      BY <1>8, <1>9, <2>7, MinOfPlaces
    <3> QED
      BY <1>8, <1>10, <2>4, <2>5, <3>1
  <2>9. A # {} /\ FirstEvent(r.events, rows, s, A)
    BY <1>6, <2>1, <2>2 DEF SymbolVolume
  <2>10. rows[m].cum = rows[m].qty
    BY <1>4, <2>3, <2>9, FirstTradeIs
  <2> QED
    BY <2>6, <2>8, <2>10
<1> QED
  BY <1>9, <1>15, <1>16 DEF WholeVolume

-----------------------------------------------------------------------------
(***************************************************************************)
(* Certification: the sessions of a passed day are replayed as they are.   *)
(***************************************************************************)
Recordings(S) == Segments(S) /\ \A x \in S : SessionRows(x.env, x.id)

LEMMA OrderedDay ==
    ASSUME NEW S, Recordings(S), NEW Y \in SUBSET S PROVE IsDay(DayOrder(Y))
<1>1. Segments(Y)
  BY FS_Subset DEF Recordings, Segments
<1>2. PICK z : z = DayOrder(Y)
  OBVIOUS
<1>3. /\ IsSequence(z)
      /\ \A n \in 1..Len(z) : z[n] \in Y
      /\ \A n, k \in 1..Len(z) : n # k => z[n] # z[k]
  BY <1>1, <1>2, DayOrderIs
<1>4. \A n \in 1..Len(z) : SessionRows(z[n].env, z[n].id)
  BY <1>3 DEF Recordings
<1>5. \A n, k \in 1..Len(z) : n # k => z[n].id # z[k].id
  BY <1>1, <1>3 DEF Segments
<1>6. IsDay(z)
  BY <1>3, <1>4, <1>5 DEF IsDay
<1> QED
  BY <1>2, <1>6

LEMMA CapturedDay ==
    ASSUME NEW S, Recordings(S), CaptureSet(S).failure = None PROVE IsDay(CaptureSet(S).day)
<1>1. PICK relevant, eligible, c :
         /\ relevant = {x \in {x \in {x \in S : x.hb # None} : x.symbols = Symbols} :
                           x.connected <= Schedule.close /\ covered_until(x) >= Schedule.open}
         /\ eligible = {x \in {x \in S : x.hb # None} :
                           covers_trading_window(x.connected, covered_until(x))}
                       \cap {x \in {x \in S : x.hb # None} : x.symbols = Symbols}
         /\ c = CaptureSet(S)
  OBVIOUS
<1>2. relevant \in SUBSET S /\ eligible \in SUBSET S
  BY <1>1
<1>3. c.day \in {<<>>, DayOrder(relevant), DayOrder(eligible)}
  <2>1. PICK b1, b2, b3, b4, b5, b6, v :
           /\ b1 = (S = {}) /\ b2 = (Cardinality(eligible) > 1) /\ b3 = (eligible # {})
           /\ b4 = (~\E x \in S : x.symbols = Symbols)
           /\ b5 = ({x \in {x \in S : x.hb # None} : x.symbols = Symbols} = {} \/ relevant = {})
           /\ b6 = (\/ Min({x.connected : x \in relevant}) > Schedule.open
                   \/ Max({covered_until(x) : x \in relevant}) < Schedule.close)
           /\ v = DayValid(DayOrder(relevant))
    OBVIOUS
  <2>2. c = IF b1 THEN [day |-> <<>>, failure |-> "no_terminal_session"]
            ELSE IF b2 THEN [day |-> <<>>, failure |-> "multiple_full_sessions"]
            ELSE IF b3 THEN [day |-> DayOrder(eligible), failure |-> None]
            ELSE IF b4 THEN [day |-> <<>>, failure |-> "capture_scope_mismatch"]
            ELSE IF b5 THEN [day |-> <<>>, failure |-> "no_full_session"]
            ELSE IF b6 THEN [day |-> <<>>, failure |-> "no_full_session"]
            ELSE IF ~v THEN [day |-> <<>>, failure |-> "overlapping_sessions"]
            ELSE [day |-> DayOrder(relevant), failure |-> None]
    BY <1>1, <2>1, Zenon DEF CaptureSet
  <2> QED
    BY <2>2
<1>4. IsDay(<<>>)
  <2>1. IsSequence(<<>>) /\ Len(<<>>) = 0
    BY EmptySequence
  <2> QED
    BY <2>1 DEF IsDay
<1>5. IsDay(DayOrder(relevant)) /\ IsDay(DayOrder(eligible))
  BY <1>2, OrderedDay
<1> QED
  BY <1>1, <1>3, <1>4, <1>5

LEMMA PassedDay ==
    ASSUME NEW S, Recordings(S), NEW c, c = certify_market_day(S), c.status = "passed"
    PROVE  IsDay(c.day) /\ Complete(replay(c.day))
<1>1. PICK set, day, r : set = CaptureSet(S) /\ day = set.day /\ r = replay(day)
  OBVIOUS
<1>2. c = IF set.failure # None THEN Outcome("failed", set.failure, <<>>)
          ELSE reconcile_capture(day, r)
  BY <1>1 DEF certify_market_day, Certified
<1>3. set.failure = None /\ c = reconcile_capture(day, r)
  BY <1>2 DEF Outcome
<1>4. ~ReconciliationRaises(day, r) /\ ReportPasses(day, r, _active_gaps(day)) /\ c.day = day
  <2>1. PICK raises, passes : /\ raises <=> ReconciliationRaises(day, r)
                              /\ passes <=> ReportPasses(day, r, _active_gaps(day))
    OBVIOUS
  <2>2. c = IF raises THEN Outcome("error", "raised", <<>>)
            ELSE IF passes THEN Outcome("passed", None, day)
            ELSE Outcome("failed", "reconciliation_failed", <<>>)
    BY <1>3, <2>1 DEF reconcile_capture
  <2>3. ~raises /\ passes /\ c.day = day
    BY <2>2 DEF Outcome
  <2> QED
    BY <2>1, <2>3
<1>5. ~r.raised /\ r.m.issues = {} /\ \A e \in FirstTrades(r) : e.cum = e.qty
  BY <1>4 DEF ReconciliationRaises, ReportPasses
<1>6. Complete(r)
  BY <1>5 DEF Complete, Sound
<1>7. IsDay(day)
  BY <1>1, <1>3, CapturedDay
<1> QED
  BY <1>1, <1>4, <1>6, <1>7

SessionsOf(z) ==
    /\ IsSequence(z)
    /\ \A i \in 1..Len(z) : IsManifest(z[i]) /\ z[i].id = i /\ SessionRows(z[i].env, i)

LEMMA SessionsRecorded ==
    ASSUME NEW z, SessionsOf(z) PROVE Recordings({x \in Range(z) : SessionValid(x)})
<1>1. PICK N \in Nat : N = Len(z) /\ DOMAIN z = 1..N
  BY SequenceParts DEF SessionsOf
<1>2. PICK R, S : R = Range(z) /\ S = {x \in Range(z) : SessionValid(x)}
  OBVIOUS
<1>3. \A x \in R : \E i \in 1..N : x = z[i]
  BY <1>1, <1>2 DEF Range
<1>4. IsFiniteSet(R)
  <2>1. PICK f : f = [i \in 1..N |-> z[i]]
    OBVIOUS
  <2>2. f \in Surjection(1..N, R)
    <3>1. f \in [1..N -> R]
      BY <1>1, <1>2, <2>1 DEF Range
    <3>2. \A x \in R : \E i \in 1..N : f[i] = x
      BY <1>3, <2>1
    <3> QED
      BY <3>1, <3>2 DEF Surjection
  <2>3. IsFiniteSet(1..N)
    <3>1. 1 \in Int /\ N \in Int
      OBVIOUS
    <3> QED
      BY <3>1, FS_Interval
  <2> QED
    BY <2>2, <2>3, FS_Surjection
<1>5. S \in SUBSET R
  BY <1>2
<1>6. \A i \in 1..N : /\ z[i].connected \in Int /\ z[i].disconnected \in Int /\ z[i].id = i
                      /\ SessionRows(z[i].env, i)
  BY <1>1 DEF SessionsOf, IsManifest
<1>7. \A x \in S : /\ x.connected \in Int /\ x.disconnected \in Int /\ x.id \in Int
                   /\ SessionRows(x.env, x.id)
  BY <1>3, <1>5, <1>6
<1>8. \A x, y \in S : x.id = y.id => x = y
  BY <1>3, <1>5, <1>6
<1>9. IsFiniteSet(S)
  BY <1>4, <1>5, FS_Subset
<1>10. Recordings(S)
  BY <1>7, <1>8, <1>9 DEF Recordings, Segments
<1> QED
  BY <1>2, <1>10

VolumesOf(day) ==
    \A i \in DOMAIN day, s \in Symbols :
        SymbolTrades(day[i].env, s) # {} =>
            WholeVolume(day[i].env, SymbolTrades(day[i].env, s), i)

LEMMA DayVolumes == ASSUME NEW day, IsDay(day), Complete(replay(day)) PROVE VolumesOf(day)
<1>1. DOMAIN day = 1..Len(day)
  BY SequenceParts DEF IsDay
<1>2. ASSUME NEW i \in DOMAIN day, NEW s \in Symbols, NEW env, env = day[i].env, NEW T,
             T = SymbolTrades(env, s), T # {}
      PROVE  WholeVolume(env, T, i)
  <2>1. i \in 1..Len(day)
    BY <1>1
  <2>2. PICK r : r = replay(day)
    OBVIOUS
  <2>3. Complete(r)
    BY <2>2
  <2> QED
    BY <1>2, <2>1, <2>2, <2>3, VolumesComplete
<1> QED
  BY <1>2 DEF VolumesOf

LEMMA CertifyVolume == ASSUME CaptureInv, Certify PROVE CertifiedVolumeComplete'
<1>1. PICK z : z = sessions'
  OBVIOUS
<1>2. SessionsOf(z)
  BY <1>1, CertifyCapture DEF CaptureInv, SessionsOf
<1>3. PICK S, c : S = {x \in Range(z) : SessionValid(x)} /\ c = report'
  OBVIOUS
<1>4. c = certify_market_day(S)
  BY <1>1, <1>3 DEF Certify
<1>5. Recordings(S)
  BY <1>2, <1>3, SessionsRecorded
<1>6. c.status = "passed" => VolumesOf(c.day)
  <2> SUFFICES ASSUME c.status = "passed" PROVE VolumesOf(c.day)
    OBVIOUS
  <2>1. IsDay(c.day) /\ Complete(replay(c.day))
    BY <1>4, <1>5, PassedDay
  <2> QED
    BY <2>1, DayVolumes
<1>7. report'.status = "passed" => VolumesOf(report'.day)
  BY <1>3, <1>6
<1> QED
  BY <1>7, Zenon DEF CertifiedVolumeComplete, VolumesOf, WholeVolume, SymbolTrades

CertificationInv == CaptureInv /\ CertifiedVolumeComplete

(***************************************************************************)
(* A certified day lost no trade inside a stream session: the quantities   *)
(* of a symbol's trades add up to the provider's cumulative volume, and    *)
(* the first session starts from zero (market/reconciliation.py), over     *)
(* every reconnect, lost and repeated message.                             *)
(***************************************************************************)
THEOREM CertifiedVolume == Spec => []CertifiedVolumeComplete
<1>1. Init => CertificationInv
  <2>1. Init => report = None
    BY DEF Init
  <2> QED
    BY <2>1, CaptureInit DEF CertificationInv, CertifiedVolumeComplete
<1>2. CertificationInv /\ [Next]_vars => CertificationInv'
  <2> SUFFICES ASSUME CertificationInv, [Next]_vars PROVE CertificationInv'
    OBVIOUS
  <2>1. CaptureInv'
    BY CaptureStep DEF CertificationInv
  <2>2. CASE Certify
    BY <2>1, <2>2, CertifyVolume DEF CertificationInv
  <2>3. CASE report' = report
    <3>1. report # None /\ report.status = "passed" => VolumesOf(report.day)
      BY Zenon DEF CertificationInv, CertifiedVolumeComplete, VolumesOf, WholeVolume, SymbolTrades
    <3>2. report' # None /\ report'.status = "passed" => VolumesOf(report'.day)
      BY <2>3, <3>1
    <3>3. CertifiedVolumeComplete'
      BY <3>2, Zenon DEF CertifiedVolumeComplete, VolumesOf, WholeVolume, SymbolTrades
    <3> QED
      BY <2>1, <3>3 DEF CertificationInv
  <2>4. Certify \/ report' = report
    BY DEF Next, vars, Receive, Disconnect, Connect, Decide
  <2> QED
    BY <2>2, <2>3, <2>4
<1>3. CertificationInv => CertifiedVolumeComplete
  BY DEF CertificationInv
<1> QED
  BY <1>1, <1>2, <1>3, PTL DEF Spec

-----------------------------------------------------------------------------
(***************************************************************************)
(* Bars: the trades of one symbol, stream session and interval.            *)
(***************************************************************************)
LEMMA BarStartRises ==
    ASSUME NEW a \in Int, NEW b \in Int, a <= b
    PROVE  bar_start(a) \in Int /\ bar_start(b) \in Int /\ bar_start(a) <= bar_start(b)
<1>1. PICK d \in Nat : d = BarInterval /\ d > 0
  BY MarketAssumption
<1>2. PICK p, q, x, y : p = a \div d /\ q = b \div d /\ x = a % d /\ y = b % d
  OBVIOUS
<1>3. p \in Int /\ q \in Int /\ x \in 0..(d - 1) /\ y \in 0..(d - 1)
  BY <1>1, <1>2
<1>4. a = d * p + x /\ b = d * q + y
  BY <1>1, <1>2
<1>5. p <= q
  <2> SUFFICES ASSUME ~(p <= q) PROVE FALSE
    OBVIOUS
  <2>1. PICK k \in Nat : p = q + 1 + k
    <3>1. p - q - 1 \in Nat /\ p = q + 1 + (p - q - 1)
      BY <1>3
    <3> QED
      BY <3>1
  <2>2. d * p = d * q + d + d * k /\ d * k \in Nat
    BY <1>3, <2>1
  <2> QED
    BY <1>3, <1>4, <2>2
<1>6. PICK k \in Nat : q = p + k
  <2>1. q - p \in Nat /\ q = p + (q - p)
    BY <1>3, <1>5
  <2> QED
    BY <2>1
<1>7. d * q = d * p + d * k /\ d * k \in Nat /\ d * p \in Int
  BY <1>3, <1>6
<1>8. bar_start(a) = d * p /\ bar_start(b) = d * q
  <2>1. bar_start(a) = a - x /\ bar_start(b) = b - y
    BY <1>1, <1>2 DEF bar_start
  <2> QED
    BY <1>3, <1>4, <1>7, <2>1
<1> QED
  BY <1>7, <1>8

\* The places of a bar's trades among the events.
InBar(x, b) ==
    x.kind = "trade" /\ x.e.sym = b.sym /\ x.e.ses = b.ses /\ bar_start(x.e.et) = b.start

BarTrades(E, b) == {i \in 1..Len(E) : InBar(E[i], b)}

TradedVolume(E, T) == SumFunction([i \in T |-> E[i].e.qty])

Filled(E, b) ==
    LET of == BarTrades(E, b)
    IN  /\ of # {} /\ b.count = Cardinality(of) /\ b.volume = TradedVolume(E, of)
        /\ b.open = E[Min(of)].e.price /\ b.close = E[Max(of)].e.price

IsBar(b) == b \in [sym : Symbols, start : Int, open : Int, high : Int, low : Int, close : Int,
                   volume : Int, count : Int, ses : Int]

LEMMA BarIsNotNone == ASSUME NEW b, IsBar(b) PROVE b # None
BY DayAssumption DEF IsBar

RowEvents(E) == IsSequence(E) /\ \A i \in 1..Len(E) : IsRow(E[i].e)

LEMMA TradedVolumeIs ==
    ASSUME NEW E, NEW T
    PROVE  TradedVolume(E, T) = SumFunctionOnSet([i \in T |-> E[i].e.qty], T)
BY DEF TradedVolume, SumFunction

LEMMA BarTradesPlaces ==
    ASSUME NEW E, RowEvents(E), NEW b, NEW T, T = BarTrades(E, b)
    PROVE  /\ Len(E) \in Nat /\ T \in SUBSET (1..Len(E)) /\ IsFiniteSet(T)
           /\ \A i \in T : E[i].e.qty \in Int
<1>1. PICK n \in Nat : n = Len(E)
  BY SequenceParts DEF RowEvents
<1>2. IsFiniteSet(1..n)
  <2>1. 1 \in Int /\ n \in Int
    OBVIOUS
  <2> QED
    BY <2>1, FS_Interval
<1>3. T \in SUBSET (1..n)
  BY <1>1 DEF BarTrades
<1>4. \A i \in T : E[i].e.qty \in Int
  BY <1>1, <1>3 DEF RowEvents, IsRow
<1> QED
  BY <1>1, <1>2, <1>3, <1>4, FS_Subset

\* One more event.
Adds(z, E, y) == RowEvents(E) /\ IsRow(y.e) /\ z = Append(E, y)

LEMMA EventAdded ==
    ASSUME NEW E, NEW y, NEW z, Adds(z, E, y)
    PROVE  /\ RowEvents(z) /\ Len(E) \in Nat /\ Len(z) = Len(E) + 1 /\ z[Len(E) + 1] = y
           /\ \A i \in 1..Len(E) : z[i] = E[i]
<1>1. PICK n \in Nat : n = Len(E)
  BY SequenceParts DEF Adds, RowEvents
<1>2. /\ IsSequence(z) /\ Len(z) = n + 1 /\ z[n + 1] = y
      /\ \A i \in 1..n : z[i] = E[i]
  BY <1>1, AppendSequence DEF Adds, RowEvents
<1>3. \A i \in 1..(n + 1) : i \in 1..n \/ i = n + 1
  OBVIOUS
<1>4. \A i \in 1..n : IsRow(E[i].e)
  BY <1>1 DEF Adds, RowEvents
<1>5. \A i \in 1..(n + 1) : IsRow(z[i].e)
  BY <1>2, <1>3, <1>4 DEF Adds
<1> QED
  BY <1>1, <1>2, <1>5 DEF RowEvents

LEMMA BarTradesAdd ==
    ASSUME NEW E, NEW y, NEW z, Adds(z, E, y), NEW b, NEW T,
           T = BarTrades(E, b)
    PROVE  /\ InBar(y, b) => BarTrades(z, b) = T \cup {Len(E) + 1}
           /\ ~InBar(y, b) => BarTrades(z, b) = T
<1>1. PICK n \in Nat : n = Len(E)
  BY SequenceParts DEF Adds, RowEvents
<1>2. Len(z) = n + 1 /\ z[n + 1] = y /\ \A i \in 1..n : z[i] = E[i]
  BY <1>1, EventAdded
<1>3. 1..(n + 1) = 1..n \cup {n + 1}
  OBVIOUS
<1> QED
  BY <1>1, <1>2, <1>3 DEF BarTrades

LEMMA VolumeKeeps ==
    ASSUME NEW E, NEW z, NEW T, IsFiniteSet(T), \A i \in T : z[i] = E[i]
    PROVE  TradedVolume(z, T) = TradedVolume(E, T)
<1>1. PICK f, g : f = [i \in T |-> z[i].e.qty] /\ g = [i \in T |-> E[i].e.qty]
  OBVIOUS
<1>2. f = g
  BY <1>1
<1> QED
  BY <1>1, <1>2, TradedVolumeIs

LEMMA FilledKept ==
    ASSUME NEW E, NEW y, NEW z, Adds(z, E, y), NEW b,
           Filled(E, b), ~InBar(y, b)
    PROVE  Filled(z, b)
<1>1. PICK T : T = BarTrades(E, b)
  OBVIOUS
<1>2. PICK n \in Nat : n = Len(E)
  BY SequenceParts DEF Adds, RowEvents
<1>3. T \in SUBSET (1..n) /\ IsFiniteSet(T) /\ T # {}
  <2>1. RowEvents(E)
    BY DEF Adds
  <2> QED
    BY <1>1, <1>2, <2>1, BarTradesPlaces DEF Filled
<1>4. BarTrades(z, b) = T
  BY <1>1, BarTradesAdd
<1>5. \A i \in 1..n : z[i] = E[i]
  BY <1>2, EventAdded
<1>6. TradedVolume(z, T) = TradedVolume(E, T)
  BY <1>3, <1>5, VolumeKeeps
<1>7. Min(T) \in T /\ Max(T) \in T
  BY <1>3, MinOfPlaces, MaxOfPlaces
<1>8. z[Min(T)] = E[Min(T)] /\ z[Max(T)] = E[Max(T)]
  BY <1>3, <1>5, <1>7
<1> QED
  BY <1>1, <1>4, <1>6, <1>8 DEF Filled

LEMMA FilledNew ==
    ASSUME NEW E, NEW y, NEW z, Adds(z, E, y), y.kind = "trade",
           y.e.sym \in Symbols, NEW b, b = BarFromTrade(y.e), BarTrades(E, b) = {}
    PROVE  Filled(z, b) /\ IsBar(b)
<1>1. PICK n \in Nat : n = Len(E)
  BY SequenceParts DEF Adds, RowEvents
<1>2. /\ b.sym = y.e.sym /\ b.ses = y.e.ses /\ b.start = bar_start(y.e.et) /\ b.count = 1
      /\ b.volume = y.e.qty /\ b.open = y.e.price /\ b.close = y.e.price /\ IsBar(b)
  <2>1. y.e.et \in Int /\ y.e.price \in Int /\ y.e.qty \in Int /\ y.e.ses \in Int
    BY DEF Adds, IsRow
  <2>2. bar_start(y.e.et) \in Int
    <3>1. y.e.et <= y.e.et
      BY <2>1
    <3> QED
      BY <2>1, <3>1, BarStartRises
  <2> QED
    BY <2>1, <2>2 DEF BarFromTrade, IsBar
<1>3. InBar(y, b)
  BY <1>2 DEF InBar
<1>4. PICK m, T : m = n + 1 /\ T = BarTrades(z, b)
  OBVIOUS
<1>5. T = {m}
  <2>1. BarTrades(z, b) = {} \cup {Len(E) + 1}
    BY <1>3, BarTradesAdd
  <2> QED
    BY <1>1, <1>4, <2>1
<1>6. z[m] = y
  BY <1>1, <1>4, EventAdded
<1>7. Cardinality(T) = 1 /\ Min(T) = m /\ Max(T) = m
  <2>1. m \in Nat /\ T \in SUBSET (1..m) /\ T # {}
    BY <1>4, <1>5
  <2>2. Min(T) \in T /\ Max(T) \in T
    BY <2>1, MinOfPlaces, MaxOfPlaces
  <2>3. Cardinality({m}) = 1
    BY FS_Singleton
  <2> QED
    BY <1>5, <2>2, <2>3
<1>8. TradedVolume(z, T) = y.e.qty
  <2>1. PICK f, none : f = [i \in T |-> z[i].e.qty] /\ none = {}
    OBVIOUS
  <2>2. f[m] = y.e.qty /\ f[m] \in Int
    BY <1>5, <1>6, <2>1 DEF IsRow, Adds
  <2>3. SumFunctionOnSet(f, none \cup {m}) = SumFunctionOnSet(f, none) + f[m]
    <3>1. IsFiniteSet(none) /\ m \notin none /\ \A i \in none \cup {m} : f[i] \in Int
      BY <2>1, <2>2, FS_EmptySet
    <3> QED
      BY <3>1, SumAdd
  <2>4. SumFunctionOnSet(f, none) = 0 /\ none \cup {m} = T
    BY <1>5, <2>1, SumEmpty
  <2>5. SumFunctionOnSet(f, T) = y.e.qty
    <3>1. y.e.qty \in Int
      BY DEF IsRow, Adds
    <3>2. SumFunctionOnSet(f, T) = SumFunctionOnSet(f, none) + f[m]
      BY <2>3, <2>4, Zenon
    <3> QED
      BY <2>2, <2>4, <3>1, <3>2
  <2>6. TradedVolume(z, T) = SumFunctionOnSet(f, T)
    BY <2>1, TradedVolumeIs
  <2> QED
    BY <2>5, <2>6
<1>9. Filled(z, b)
  BY <1>2, <1>4, <1>5, <1>6, <1>7, <1>8 DEF Filled
<1> QED
  BY <1>2, <1>9

LEMMA FilledAdd ==
    ASSUME NEW E, NEW y, NEW z, Adds(z, E, y),
           NEW b, IsBar(b), Filled(E, b), InBar(y, b), NEW c, c = BarAdd(b, y.e)
    PROVE  Filled(z, c) /\ IsBar(c) /\ c.sym = b.sym /\ c.ses = b.ses /\ c.start = b.start
<1>1. PICK n \in Nat : n = Len(E)
  BY SequenceParts DEF Adds, RowEvents
<1>2. PICK hi, lo : /\ hi = (IF y.e.price > b.high THEN y.e.price ELSE b.high)
                    /\ lo = (IF y.e.price < b.low THEN y.e.price ELSE b.low)
  OBVIOUS
<1>3. c = [sym |-> b.sym, start |-> b.start, open |-> b.open, high |-> hi, low |-> lo,
           close |-> y.e.price, volume |-> b.volume + y.e.qty, count |-> b.count + 1,
           ses |-> b.ses]
  BY <1>2 DEF BarAdd, IsBar
<1>4. /\ IsBar(c) /\ c.sym = b.sym /\ c.ses = b.ses /\ c.start = b.start /\ c.open = b.open
      /\ c.close = y.e.price /\ c.volume = b.volume + y.e.qty /\ c.count = b.count + 1
  <2>1. y.e.price \in Int /\ y.e.qty \in Int
    BY DEF Adds, IsRow
  <2>2. hi \in Int /\ lo \in Int /\ b.volume + y.e.qty \in Int /\ b.count + 1 \in Int
    BY <1>2, <2>1 DEF IsBar
  <2> QED
    BY <1>3, <2>1, <2>2 DEF IsBar
<1>5. PICK m, T : m = n + 1 /\ T = BarTrades(E, b)
  OBVIOUS
<1>6. BarTrades(z, c) = T \cup {m}
  <2>1. BarTrades(z, c) = BarTrades(z, b)
    BY <1>4 DEF BarTrades, InBar
  <2>2. BarTrades(z, b) = T \cup {m}
    BY <1>1, <1>5, BarTradesAdd
  <2> QED
    BY <2>1, <2>2
<1>7. /\ T # {} /\ b.count = Cardinality(T) /\ b.volume = TradedVolume(E, T)
      /\ b.open = E[Min(T)].e.price
  BY <1>5 DEF Filled
<1>8. T \in SUBSET (1..n) /\ IsFiniteSet(T) /\ \A i \in T : E[i].e.qty \in Int
  <2>1. RowEvents(E)
    BY DEF Adds
  <2> QED
    BY <1>1, <1>5, <2>1, BarTradesPlaces
<1>9. m - 1 = n /\ m \in Nat /\ m >= 1
  BY <1>5
<1>10. Max(T \cup {m}) = m /\ m \notin T /\ Min(T \cup {m}) = Min(T) /\ Min(T) \in T
  BY <1>7, <1>8, <1>9, PlacesAdd
<1>11. z[m] = y /\ \A i \in 1..n : z[i] = E[i]
  BY <1>1, <1>5, EventAdded
<1>12. Cardinality(T \cup {m}) = Cardinality(T) + 1
  BY <1>8, <1>10, FS_AddElement
<1>13. TradedVolume(z, T \cup {m}) = TradedVolume(E, T) + y.e.qty
  <2>1. PICK f, g, U : /\ U = T \cup {m} /\ f = [i \in U |-> z[i].e.qty]
                       /\ g = [i \in T |-> E[i].e.qty]
    OBVIOUS
  <2>2. f[m] = y.e.qty /\ f[m] \in Int
    BY <1>11, <2>1 DEF IsRow, Adds
  <2>3. \A i \in T : f[i] = g[i] /\ f[i] \in Int
    BY <1>8, <1>11, <2>1
  <2>4. SumFunctionOnSet(f, T \cup {m}) = SumFunctionOnSet(f, T) + f[m]
    <3>1. \A i \in T \cup {m} : f[i] \in Int
      BY <2>2, <2>3
    <3> QED
      BY <1>8, <1>10, <3>1, SumAdd
  <2>5. SumFunctionOnSet(f, T) = SumFunctionOnSet(g, T)
    BY <1>8, <2>3, SumSame
  <2>6. TradedVolume(z, U) = SumFunctionOnSet(f, U) /\ TradedVolume(E, T) = SumFunctionOnSet(g, T)
    BY <2>1, TradedVolumeIs
  <2> QED
    BY <2>1, <2>2, <2>4, <2>5, <2>6
<1>14. c.open = z[Min(T)].e.price
  BY <1>4, <1>7, <1>8, <1>10, <1>11
<1>15. T \cup {m} # {}
  OBVIOUS
<1>16. Filled(z, c)
  BY <1>4, <1>6, <1>7, <1>10, <1>11, <1>12, <1>13, <1>14, <1>15 DEF Filled
<1> QED
  BY <1>4, <1>16

Reached(x) ==
    /\ x.tradeTime \in Int /\ x.bar.start \in Int
    /\ \A u \in Int : u >= x.tradeTime => bar_start(u) >= x.bar.start

\* The open bar of symbol s in stream session ses.
OpenBar(E, s, ses, x) ==
    IF x.bar = None THEN \A i \in 1..Len(E) : ~(TradeEvent(E[i], s) /\ E[i].e.ses = ses)
    ELSE /\ IsBar(x.bar) /\ x.bar.sym = s /\ x.bar.ses = ses /\ Filled(E, x.bar) /\ Reached(x)
         /\ \A i \in 1..Len(E) : TradeEvent(E[i], s) /\ E[i].e.ses = ses =>
                                    bar_start(E[i].e.et) <= x.bar.start

\* A finalized bar.
ClosedBar(E, b, seen) ==
    Filled(E, b) /\ b.sym \in Symbols /\ b.ses \in seen /\ b.start \in Int

Passed(b, ses, x) == b.ses = ses => x.bar # None /\ b.start < x.bar.start

OneBar(B) == \A a, b \in B : a.sym = b.sym /\ a.ses = b.ses /\ a.start = b.start => a = b

SeenEvents(E, seen) == RowEvents(E) /\ \A i \in 1..Len(E) : E[i].e.ses \in seen

ClosedBars(E, B, seen) == SeenEvents(E, seen) /\ OneBar(B) /\ \A b \in B : ClosedBar(E, b, seen)

BarsHold(E, B, sym, ses, seen) ==
    /\ ClosedBars(E, B, seen) /\ ses \in seen
    /\ \A b \in B : Passed(b, ses, sym[b.sym])
    /\ \A s \in Symbols : OpenBar(E, s, ses, sym[s])

OpenBars(sym) == {sym[s].bar : s \in {x \in Symbols : sym[x].bar # None}}

\* Open bars closed at the end of a segment.
LEMMA BarsClosed ==
    ASSUME NEW E, NEW B, NEW sym, NEW ses, NEW seen, BarsHold(E, B, sym, ses, seen),
           NEW D \in SUBSET OpenBars(sym)
    PROVE  ClosedBars(E, B \cup D, seen)
<1>1. ASSUME NEW b \in D
      PROVE  /\ b.sym \in Symbols /\ b = sym[b.sym].bar /\ b.ses = ses /\ ClosedBar(E, b, seen)
  <2>1. PICK s \in Symbols : b = sym[s].bar /\ sym[s].bar # None
    BY DEF OpenBars
  <2>2. OpenBar(E, s, ses, sym[s])
    BY DEF BarsHold
  <2>3. b.sym = s /\ b.ses = ses /\ Filled(E, b) /\ b.start \in Int
    BY <2>1, <2>2 DEF OpenBar, Reached
  <2> QED
    BY <2>1, <2>3 DEF BarsHold, ClosedBar
<1>2. \A b \in B : ClosedBar(E, b, seen) /\ Passed(b, ses, sym[b.sym])
  BY DEF BarsHold, ClosedBars
<1>3. ASSUME NEW a \in B, NEW b \in D, a.sym = b.sym, a.ses = b.ses, a.start = b.start
      PROVE  FALSE
  <2>1. a.ses = ses /\ sym[a.sym].bar = b
    BY <1>1, <1>3
  <2>2. a.start < b.start /\ a.start \in Int /\ b.start \in Int
    BY <1>1, <1>2, <2>1 DEF Passed, ClosedBar
  <2> QED
    BY <1>3, <2>2
<1>4. OneBar(B \cup D)
  <2> SUFFICES ASSUME NEW a \in B \cup D, NEW b \in B \cup D, a.sym = b.sym, a.ses = b.ses,
                      a.start = b.start
               PROVE  a = b
    BY DEF OneBar
  <2>1. CASE a \in B /\ b \in B
    BY <2>1 DEF BarsHold, ClosedBars, OneBar
  <2>2. CASE a \in D /\ b \in D
    BY <1>1, <2>2
  <2>3. CASE a \in B /\ b \in D
    BY <1>3, <2>3
  <2>4. CASE a \in D /\ b \in B
    BY <1>3, <2>4
  <2> QED
    BY <2>1, <2>2, <2>3, <2>4
<1> QED
  BY <1>1, <1>2, <1>4 DEF BarsHold, ClosedBars

\* A stream session nothing has been captured of.
LEMMA BarsBegin ==
    ASSUME NEW E, NEW B, NEW seen, ClosedBars(E, B, seen), NEW ses, ses \notin seen,
           NEW sym, \A s \in Symbols : sym[s].bar = None, NEW all, all = seen \cup {ses}
    PROVE  BarsHold(E, B, sym, ses, all)
<1>1. \A s \in Symbols : OpenBar(E, s, ses, sym[s])
  BY DEF OpenBar, ClosedBars, SeenEvents
<1>2. \A b \in B : Passed(b, ses, sym[b.sym])
  BY DEF ClosedBars, ClosedBar, Passed
<1>3. ClosedBars(E, B, all)
  BY DEF ClosedBars, ClosedBar, SeenEvents
<1> QED
  BY <1>1, <1>2, <1>3 DEF BarsHold

\* The same bars with one more event.
LEMMA BarsAfter ==
    ASSUME NEW E, NEW B, NEW seen, ClosedBars(E, B, seen), NEW y, NEW z, Adds(z, E, y),
           y.e.ses \in seen, \A b \in B : ~InBar(y, b)
    PROVE  ClosedBars(z, B, seen)
<1>1. \A b \in B : ClosedBar(z, b, seen)
  <2> SUFFICES ASSUME NEW b \in B PROVE ClosedBar(z, b, seen)
    OBVIOUS
  <2>1. Filled(E, b)
    BY DEF ClosedBars, ClosedBar
  <2>2. Filled(z, b)
    BY <2>1, FilledKept
  <2> QED
    BY <2>2 DEF ClosedBars, ClosedBar
<1>2. PICK n \in Nat : n = Len(E)
  BY EventAdded
<1>3. RowEvents(z) /\ Len(z) = n + 1 /\ z[n + 1] = y /\ \A i \in 1..n : z[i] = E[i]
  BY <1>2, EventAdded
<1>4. \A i \in 1..(n + 1) : i \in 1..n \/ i = n + 1
  OBVIOUS
<1>5. \A i \in 1..n : E[i].e.ses \in seen
  BY <1>2 DEF ClosedBars, SeenEvents
<1>6. \A i \in 1..(n + 1) : z[i].e.ses \in seen
  BY <1>3, <1>4, <1>5
<1>7. SeenEvents(z, seen)
  BY <1>3, <1>6 DEF SeenEvents
<1> QED
  BY <1>1, <1>7 DEF ClosedBars

\* The open bar of a symbol after an event that is no trade of it.
LEMMA OpenBarAfter ==
    ASSUME NEW E, NEW y, NEW z, Adds(z, E, y), NEW s, NEW ses, NEW x, OpenBar(E, s, ses, x),
           ~TradeEvent(y, s), NEW v, v.bar = x.bar,
           x.bar # None => v.tradeTime \in Int /\ v.tradeTime >= x.tradeTime
    PROVE  OpenBar(z, s, ses, v)
<1>1. PICK n \in Nat : n = Len(E)
  BY EventAdded
<1>2. Len(z) = n + 1 /\ z[n + 1] = y /\ \A i \in 1..n : z[i] = E[i]
  BY <1>1, EventAdded
<1>3. \A i \in 1..(n + 1) : i \in 1..n \/ i = n + 1
  OBVIOUS
<1>4. CASE x.bar = None
  <2>1. \A i \in 1..n : ~(TradeEvent(E[i], s) /\ E[i].e.ses = ses)
    BY <1>1, <1>4 DEF OpenBar
  <2>2. \A i \in 1..(n + 1) : ~(TradeEvent(z[i], s) /\ z[i].e.ses = ses)
    BY <1>2, <1>3, <2>1
  <2> QED
    BY <1>2, <1>4, <2>2 DEF OpenBar
<1>5. CASE x.bar # None
  <2>1. PICK b : b = x.bar
    OBVIOUS
  <2>2. /\ IsBar(b) /\ b.sym = s /\ b.ses = ses /\ Filled(E, b) /\ Reached(x)
        /\ \A i \in 1..n : TradeEvent(E[i], s) /\ E[i].e.ses = ses =>
                              bar_start(E[i].e.et) <= b.start
    BY <1>1, <1>5, <2>1 DEF OpenBar
  <2>3. ~InBar(y, b)
    BY <2>2 DEF InBar, TradeEvent
  <2>4. Filled(z, b)
    BY <2>2, <2>3, FilledKept
  <2>5. Reached(v)
    <3>1. v.tradeTime \in Int /\ v.tradeTime >= x.tradeTime /\ x.tradeTime \in Int
      BY <1>5, <2>2 DEF Reached
    <3>2. \A u \in Int : u >= v.tradeTime => u >= x.tradeTime
      BY <3>1
    <3> QED
      BY <2>2, <3>1, <3>2 DEF Reached
  <2>6. \A i \in 1..(n + 1) : TradeEvent(z[i], s) /\ z[i].e.ses = ses =>
                                bar_start(z[i].e.et) <= b.start
    BY <1>2, <1>3, <2>2
  <2> QED
    BY <1>2, <1>5, <2>1, <2>2, <2>4, <2>5, <2>6 DEF OpenBar
<1> QED
  BY <1>4, <1>5

\* An accepted event that is no trade.
LEMMA BarsQuiet ==
    ASSUME NEW E, NEW B, NEW sym, NEW ses, NEW seen, BarsHold(E, B, sym, ses, seen),
           NEW y, NEW z, Adds(z, E, y), y.e.ses = ses, y.kind # "trade", NEW new,
           \A s \in Symbols :
               /\ new[s].bar = sym[s].bar
               /\ sym[s].bar # None => new[s].tradeTime \in Int /\ new[s].tradeTime >= sym[s].tradeTime
    PROVE  BarsHold(z, B, new, ses, seen)
<1>1. ClosedBars(z, B, seen)
  <2>1. ClosedBars(E, B, seen) /\ y.e.ses \in seen
    BY DEF BarsHold
  <2>2. \A b \in B : ~InBar(y, b)
    BY DEF InBar
  <2> QED
    BY <2>1, <2>2, BarsAfter
<1>2. \A b \in B : Passed(b, ses, new[b.sym])
  BY DEF BarsHold, ClosedBars, ClosedBar, Passed
<1>3. ASSUME NEW s \in Symbols PROVE OpenBar(z, s, ses, new[s])
  <2>1. OpenBar(E, s, ses, sym[s]) /\ ~TradeEvent(y, s)
    BY DEF BarsHold, TradeEvent
  <2>2. PICK x, v : x = sym[s] /\ v = new[s]
    OBVIOUS
  <2>3. /\ v.bar = x.bar
        /\ x.bar # None => v.tradeTime \in Int /\ v.tradeTime >= x.tradeTime
    BY <2>2
  <2>4. OpenBar(z, s, ses, v)
    BY <2>1, <2>2, <2>3, OpenBarAfter
  <2> QED
    BY <2>2, <2>4
<1> QED
  BY <1>1, <1>2, <1>3 DEF BarsHold

\* The open bar of the symbol traded: a new one, or the one that goes on.
LEMMA OpenBarNew ==
    ASSUME NEW E, NEW y, NEW z, Adds(z, E, y), y.kind = "trade", NEW x,
           y.e.sym \in Symbols, OpenBar(E, y.e.sym, y.e.ses, x), Opens(x, y.e), NEW v, v.bar = BarFromTrade(y.e),
           v.tradeTime = y.e.et
    PROVE  OpenBar(z, y.e.sym, y.e.ses, v) /\ v.bar.start = bar_start(y.e.et)
           /\ v.bar # None
<1>1. PICK e, s, ses, b : e = y.e /\ s = e.sym /\ ses = e.ses /\ b = v.bar
  OBVIOUS
<1>2. PICK n \in Nat : n = Len(E)
  BY EventAdded
<1>3. RowEvents(E) /\ Len(z) = n + 1 /\ z[n + 1] = y /\ \A i \in 1..n : z[i] = E[i]
  BY <1>2, EventAdded DEF Adds
<1>4. \A i \in 1..(n + 1) : i \in 1..n \/ i = n + 1
  OBVIOUS
<1>5. e.et \in Int /\ \A i \in 1..n : E[i].e.et \in Int
  BY <1>1, <1>2, <1>3 DEF Adds, RowEvents, IsRow
<1>6. b.sym = s /\ b.ses = ses /\ b.start = bar_start(e.et)
  BY <1>1 DEF BarFromTrade
<1>7. b.start \in Int /\ \A i \in 1..n : bar_start(E[i].e.et) \in Int
  <2>1. \A u \in Int : u <= u
    OBVIOUS
  <2> QED
    BY <1>5, <1>6, <2>1, BarStartRises
<1>8. \A i \in 1..n : TradeEvent(E[i], s) /\ E[i].e.ses = ses => bar_start(E[i].e.et) < b.start
  <2>1. CASE x.bar = None
    BY <1>1, <1>2, <2>1 DEF OpenBar
  <2>2. CASE x.bar # None
    <3>1. x.bar.start < bar_start(e.et) /\ x.bar.start \in Int
      BY <1>1, <2>2 DEF Opens, OpenBar, Reached
    <3>2. \A i \in 1..n : TradeEvent(E[i], s) /\ E[i].e.ses = ses =>
                             bar_start(E[i].e.et) <= x.bar.start
      BY <1>1, <1>2, <2>2 DEF OpenBar
    <3> QED
      BY <1>6, <1>7, <3>1, <3>2
  <2> QED
    BY <2>1, <2>2
<1>9. BarTrades(E, b) = {}
  <2> SUFFICES ASSUME NEW i \in BarTrades(E, b) PROVE FALSE
    OBVIOUS
  <2>1. i \in 1..n /\ E[i].kind = "trade" /\ E[i].e.sym = s /\ E[i].e.ses = ses
        /\ bar_start(E[i].e.et) = b.start
    BY <1>2, <1>6 DEF BarTrades, InBar
  <2> QED
    BY <1>7, <1>8, <2>1 DEF TradeEvent
<1>10. Filled(z, b) /\ IsBar(b)
  BY <1>1, <1>9, FilledNew
<1>11. Reached(v)
  <2>1. \A u \in Int : u >= e.et => bar_start(u) >= b.start
    <3> SUFFICES ASSUME NEW u \in Int, u >= e.et PROVE bar_start(u) >= b.start
      OBVIOUS
    <3>1. e.et <= u
      BY <1>5
    <3>2. bar_start(e.et) \in Int /\ bar_start(u) \in Int /\ bar_start(e.et) <= bar_start(u)
      BY <1>5, <3>1, BarStartRises
    <3> QED
      BY <1>6, <3>2
  <2> QED
    BY <1>1, <1>5, <1>7, <2>1 DEF Reached
<1>12. \A i \in 1..(n + 1) : TradeEvent(z[i], s) /\ z[i].e.ses = ses =>
                               bar_start(z[i].e.et) <= b.start
  BY <1>1, <1>3, <1>4, <1>6, <1>7, <1>8
<1>13. b # None
  BY <1>10, BarIsNotNone
<1> QED
  BY <1>1, <1>3, <1>6, <1>10, <1>11, <1>12, <1>13 DEF OpenBar

LEMMA OpenBarOn ==
    ASSUME NEW E, NEW y, NEW z, Adds(z, E, y), y.kind = "trade", NEW x, x.bar # None,
           OpenBar(E, y.e.sym, y.e.ses, x), x.bar.start = bar_start(y.e.et),
           x.tradeTime <= y.e.et, NEW v, v.bar = BarAdd(x.bar, y.e), v.tradeTime = y.e.et
    PROVE  OpenBar(z, y.e.sym, y.e.ses, v) /\ v.bar.start = x.bar.start /\ v.bar # None
<1>1. PICK e, s, ses, b, c : e = y.e /\ s = e.sym /\ ses = e.ses /\ b = x.bar /\ c = v.bar
  OBVIOUS
<1>2. PICK n \in Nat : n = Len(E)
  BY EventAdded
<1>3. Len(z) = n + 1 /\ z[n + 1] = y /\ \A i \in 1..n : z[i] = E[i]
  BY <1>2, EventAdded
<1>4. \A i \in 1..(n + 1) : i \in 1..n \/ i = n + 1
  OBVIOUS
<1>5. /\ IsBar(b) /\ b.sym = s /\ b.ses = ses /\ Filled(E, b) /\ Reached(x)
      /\ \A i \in 1..n : TradeEvent(E[i], s) /\ E[i].e.ses = ses => bar_start(E[i].e.et) <= b.start
  BY <1>1, <1>2 DEF OpenBar
<1>6. InBar(y, b)
  BY <1>1, <1>5 DEF InBar
<1>7. Filled(z, c) /\ IsBar(c) /\ c.sym = s /\ c.ses = ses /\ c.start = b.start
  BY <1>1, <1>5, <1>6, FilledAdd
<1>8. c # None
  BY <1>7, BarIsNotNone
<1>9. Reached(v)
  <2>1. e.et \in Int /\ x.tradeTime \in Int /\ b.start \in Int
    BY <1>1, <1>5 DEF Reached, Adds, IsRow
  <2>2. \A u \in Int : u >= e.et => u >= x.tradeTime
    BY <1>1, <2>1
  <2>3. \A u \in Int : u >= e.et => bar_start(u) >= b.start
    BY <1>1, <1>5, <2>2 DEF Reached
  <2> QED
    BY <1>1, <1>7, <2>1, <2>3 DEF Reached
<1>10. \A i \in 1..(n + 1) : TradeEvent(z[i], s) /\ z[i].e.ses = ses =>
                                bar_start(z[i].e.et) <= c.start
  <2>1. b.start \in Int /\ bar_start(y.e.et) = b.start
    BY <1>1, <1>5 DEF IsBar
  <2> QED
    BY <1>1, <1>3, <1>4, <1>5, <1>7, <2>1
<1> QED
  BY <1>1, <1>3, <1>7, <1>8, <1>9, <1>10 DEF OpenBar

\* An accepted trade.
TradeTaken(sym, y, v, fin, new) ==
    /\ y.kind = "trade" /\ y.e.sym \in Symbols
    /\ TradeFits(sym[y.e.sym], y.e) /\ Traded(sym[y.e.sym], y.e, v, fin)
    /\ \A s \in Symbols : new[s] = IF s = y.e.sym THEN v ELSE sym[s]

LEMMA BarsTrade ==
    ASSUME NEW E, NEW B, NEW sym, NEW ses, NEW seen, BarsHold(E, B, sym, ses, seen),
           NEW y, NEW z, Adds(z, E, y), y.e.ses = ses, NEW v, NEW fin, NEW new,
           TradeTaken(sym, y, v, fin, new)
    PROVE  BarsHold(z, B \cup Range(fin), new, ses, seen)
<1> SUFFICES ASSUME y.kind = "trade", y.e.sym \in Symbols, NEW x, x = sym[y.e.sym],
                    TradeFits(x, y.e), Traded(x, y.e, v, fin),
                    \A s \in Symbols : new[s] = IF s = y.e.sym THEN v ELSE sym[s]
             PROVE  BarsHold(z, B \cup Range(fin), new, ses, seen)
  BY DEF TradeTaken
<1>1. PICK e, t : e = y.e /\ t = e.sym /\ t \in Symbols
  OBVIOUS
<1>2. /\ OpenBar(E, t, ses, x) /\ ClosedBars(E, B, seen) /\ ses \in seen
      /\ \A b \in B : Passed(b, ses, sym[b.sym])
      /\ \A b \in B : ClosedBar(E, b, seen)
  BY <1>1 DEF BarsHold, ClosedBars
<1>3. e.et \in Int /\ bar_start(e.et) \in Int
  <2>1. e.et \in Int /\ e.et <= e.et
    BY <1>1 DEF Adds, IsRow
  <2> QED
    BY <2>1, BarStartRises
<1>4. x.bar # None => /\ x.tradeTime \in Int /\ x.tradeTime <= e.et /\ x.bar.start \in Int
                      /\ x.bar.start <= bar_start(e.et)
  <2> SUFFICES ASSUME x.bar # None
               PROVE  /\ x.tradeTime \in Int /\ x.tradeTime <= e.et /\ x.bar.start \in Int
                      /\ x.bar.start <= bar_start(e.et)
    OBVIOUS
  <2>1. Reached(x)
    BY <1>2 DEF OpenBar
  <2>2. x.tradeTime \in Int /\ x.tradeTime # None /\ x.bar.start \in Int
    BY <2>1, MarketAssumption DEF Reached
  <2>3. ~(e.et < x.tradeTime)
    BY <1>1, <2>2 DEF TradeFits, Before
  <2>4. e.et >= x.tradeTime
    BY <1>3, <2>2, <2>3
  <2>5. bar_start(e.et) >= x.bar.start
    BY <1>3, <2>1, <2>4 DEF Reached
  <2> QED
    BY <1>3, <2>2, <2>4, <2>5
<1>5. \A b \in B : InBar(y, b) => x.bar # None /\ b.start < x.bar.start /\ b.start = bar_start(e.et)
  BY <1>1, <1>2 DEF InBar, Passed
<1>6. \A b \in B : ~InBar(y, b)
  <2> SUFFICES ASSUME NEW b \in B, InBar(y, b) PROVE FALSE
    OBVIOUS
  <2>1. x.bar # None /\ b.start < x.bar.start /\ b.start = bar_start(e.et)
    BY <1>5
  <2> QED
    BY <1>3, <1>4, <2>1
<1>7. ASSUME NEW s \in Symbols, s # t PROVE OpenBar(z, s, ses, new[s])
  <2>1. PICK w : w = sym[s]
    OBVIOUS
  <2>2. OpenBar(E, s, ses, w) /\ new[s] = w /\ ~TradeEvent(y, s)
    BY <1>1, <1>7, <2>1 DEF BarsHold, TradeEvent
  <2>3. w.bar # None => w.tradeTime \in Int /\ w.tradeTime >= w.tradeTime
    BY <2>2 DEF OpenBar, Reached
  <2>4. OpenBar(z, s, ses, w)
    BY <2>2, <2>3, OpenBarAfter
  <2> QED
    BY <2>2, <2>4
<1>8. new[t] = v
  BY <1>1
<1>9. ClosedBars(z, B, seen)
  <2>1. y.e.ses \in seen
    BY <1>2
  <2> QED
    BY <1>2, <1>6, <2>1, BarsAfter
<1>10. CASE Opens(x, e)
  <2>1. v.bar = BarFromTrade(e) /\ v.tradeTime = e.et
    BY <1>1, <1>10 DEF Traded
  <2>2. OpenBar(z, t, ses, v) /\ v.bar.start = bar_start(e.et) /\ v.bar # None
    BY <1>1, <1>2, <1>10, <2>1, OpenBarNew
  <2>3. \A s \in Symbols : OpenBar(z, s, ses, new[s])
    BY <1>7, <1>8, <2>2
  <2>4. CASE x.bar = None
    <3>1. fin = <<>>
      BY <1>1, <1>10, <2>4 DEF Traded
    <3>2. B \cup Range(fin) = B
      BY <3>1 DEF Range
    <3>3. \A b \in B : Passed(b, ses, new[b.sym])
      <4> SUFFICES ASSUME NEW b \in B, b.ses = ses
                   PROVE  new[b.sym].bar # None /\ b.start < new[b.sym].bar.start
        BY DEF Passed
      <4>1. b.sym \in Symbols /\ sym[b.sym].bar # None /\ b.start < sym[b.sym].bar.start
        BY <1>2 DEF Passed, ClosedBar
      <4>2. b.sym # t
        BY <1>1, <2>4, <4>1
      <4> QED
        BY <1>1, <4>1, <4>2
    <3> QED
      BY <1>2, <1>9, <2>3, <3>2, <3>3 DEF BarsHold
  <2>5. CASE x.bar # None
    <3>1. fin = <<x.bar>>
      BY <1>1, <1>10, <2>5 DEF Traded
    <3>2. PICK o : o = x.bar
      OBVIOUS
    <3>3. /\ Filled(E, o) /\ o.sym = t /\ o.ses = ses /\ o.start \in Int
          /\ o.start < bar_start(e.et)
      BY <1>1, <1>2, <1>4, <1>10, <2>5, <3>2 DEF OpenBar, Opens
    <3>4. B \cup Range(fin) = B \cup {o}
      BY <3>1, <3>2 DEF Range
    <3>5. ~InBar(y, o)
      BY <1>1, <1>3, <3>3 DEF InBar
    <3>6. {o} \in SUBSET OpenBars(sym)
      BY <1>1, <2>5, <3>2 DEF OpenBars
    <3>7. ClosedBars(E, B \cup {o}, seen)
      BY <3>6, BarsClosed
    <3>8. ClosedBars(z, B \cup {o}, seen)
      <4>1. \A b \in B \cup {o} : ~InBar(y, b)
        BY <1>6, <3>5
      <4>2. y.e.ses \in seen
        BY <1>2
      <4> QED
        BY <3>7, <4>1, <4>2, BarsAfter
    <3>9. ASSUME NEW b \in B \cup {o} PROVE Passed(b, ses, new[b.sym])
      <4> SUFFICES ASSUME b.ses = ses
                   PROVE  new[b.sym].bar # None /\ b.start < new[b.sym].bar.start
        BY DEF Passed
      <4>1. CASE b = o
        BY <1>8, <2>2, <3>3, <4>1
      <4>2. CASE b \in B
        <5>1. /\ b.sym \in Symbols /\ sym[b.sym].bar # None /\ b.start < sym[b.sym].bar.start
              /\ b.start \in Int
          BY <1>2, <4>2 DEF Passed, ClosedBar
        <5>2. CASE b.sym = t
          <6>1. b.start < o.start
            BY <1>1, <3>2, <5>1, <5>2
          <6>2. b.start < bar_start(e.et)
            BY <1>3, <3>3, <5>1, <6>1
          <6> QED
            BY <1>8, <2>2, <5>2, <6>2
        <5>3. CASE b.sym # t
          BY <1>1, <5>1, <5>3
        <5> QED
          BY <5>2, <5>3
      <4> QED
        BY <4>1, <4>2
    <3> QED
      BY <1>2, <2>3, <3>4, <3>8, <3>9 DEF BarsHold
  <2> QED
    BY <2>4, <2>5
<1>11. CASE ~Opens(x, e)
  <2>1. x.bar # None /\ x.bar.start = bar_start(e.et)
    <3>1. x.bar # None /\ ~(x.bar.start < bar_start(e.et))
      BY <1>11 DEF Opens
    <3> QED
      BY <1>3, <1>4, <3>1
  <2>2. v.bar = BarAdd(x.bar, e) /\ v.tradeTime = e.et /\ fin = <<>>
    <3>1. ~(bar_start(e.et) < x.bar.start)
      BY <1>3, <2>1
    <3> QED
      BY <1>1, <1>11, <3>1 DEF Traded
  <2>3. OpenBar(z, t, ses, v) /\ v.bar.start = x.bar.start /\ v.bar # None
    <3>1. x.tradeTime <= e.et
      BY <1>4, <2>1
    <3> QED
      BY <1>1, <1>2, <2>1, <2>2, <3>1, OpenBarOn
  <2>4. \A s \in Symbols : OpenBar(z, s, ses, new[s])
    BY <1>7, <1>8, <2>3
  <2>5. B \cup Range(fin) = B
    BY <2>2 DEF Range
  <2>6. ASSUME NEW b \in B PROVE Passed(b, ses, new[b.sym])
    <3> SUFFICES ASSUME b.ses = ses
                 PROVE  new[b.sym].bar # None /\ b.start < new[b.sym].bar.start
      BY DEF Passed
    <3>1. b.sym \in Symbols /\ sym[b.sym].bar # None /\ b.start < sym[b.sym].bar.start
      BY <1>2 DEF Passed, ClosedBar
    <3>2. CASE b.sym = t
      BY <1>1, <1>8, <2>3, <3>1, <3>2
    <3>3. CASE b.sym # t
      BY <1>1, <3>1, <3>3
    <3> QED
      BY <3>2, <3>3
  <2> QED
    BY <1>2, <1>9, <2>4, <2>5, <2>6 DEF BarsHold
<1> QED
  BY <1>10, <1>11

SeenIn(rows, n) == {rows[k].ses : k \in 1..n}

BarInv(r, rows, n) ==
    IF n = 0 THEN r = InitReplay
    ELSE /\ r.ses = rows[n].ses /\ r.m.active = rows[n].ses
         /\ BarsHold(r.events, r.bars, r.m.sym, rows[n].ses, SeenIn(rows, n))

LEMMA ClosingBars ==
    ASSUME NEW r, IsReplay(r), NEW c, NEW bars, Closing(r, c, bars)
    PROVE  c.active = r.m.active /\ \E D \in SUBSET OpenBars(r.m.sym) : bars = r.bars \cup D
<1>1. CASE c = r.m /\ bars = r.bars
  <2>1. {} \in SUBSET OpenBars(r.m.sym) /\ bars = r.bars \cup {}
    BY <1>1
  <2> QED
    BY <1>1, <2>1
<1>2. ASSUME NEW t, c = MarketAdvance(r.m, t).m, bars = r.bars \cup MarketAdvance(r.m, t).bars
      PROVE  c.active = r.m.active /\ \E D \in SUBSET OpenBars(r.m.sym) : bars = r.bars \cup D
  <2>1. PICK a : a = MarketAdvance(r.m, t)
    OBVIOUS
  <2>2. /\ a.m.active = r.m.active
        /\ a.bars = {r.m.sym[s].bar : s \in {x \in Symbols : /\ r.m.sym[x].bar # None
                                                             /\ BarEnd(r.m.sym[x].bar) <= t}}
    BY <2>1, AdvanceIs DEF IsReplay
  <2>3. a.bars \in SUBSET OpenBars(r.m.sym)
    BY <2>2 DEF OpenBars
  <2> QED
    BY <1>2, <2>1, <2>2, <2>3
<1> QED
  BY <1>1, <1>2 DEF Closing

\* What an envelope finds, after the segment before it is closed.
LEMMA BarsFound ==
    ASSUME NEW rows, DayRows(rows), NEW n \in 1..Len(rows), NEW r, IsReplay(r),
           BarInv(r, rows, n - 1), NEW c, NEW bars, Closing(r, c, bars),
           Keeps(r, rows[n], c, bars)
    PROVE  BarsHold(r.events, bars, Found(c, rows[n]), rows[n].ses, SeenIn(rows, n))
<1>0. Len(rows) \in Nat
  BY SequenceParts DEF DayRows
<1>1. PICK e, ses, p : e = rows[n] /\ ses = e.ses /\ p = n - 1 /\ p \in Nat /\ n = p + 1
  BY <1>0
<1>2. \A k \in 1..Len(rows) : rows[k].ses \in Nat /\ rows[k].ses # None
  BY MarketAssumption DEF DayRows, IsRow
<1>3. PICK f, seen, all : f = Found(c, e) /\ seen = SeenIn(rows, p) /\ all = SeenIn(rows, n)
  OBVIOUS
<1>4. all = seen \cup {ses}
  <2>1. 1..n = 1..p \cup {n}
    BY <1>1
  <2> QED
    BY <1>1, <1>3, <2>1 DEF SeenIn
<1>5. CASE n = 1
  <2>1. r = InitReplay /\ p = 0
    BY <1>1, <1>5 DEF BarInv
  <2>2. /\ r.ses = None /\ r.m.active = None /\ r.events = <<>> /\ r.bars = {}
        /\ \A s \in Symbols : r.m.sym[s].bar = None
    BY <2>1, InitReplayIs DEF EmptySymbol
  <2>3. c = r.m /\ bars = {}
    BY <1>1, <2>2 DEF Keeps
  <2>4. f = c.sym
    BY <1>3, <2>2, <2>3 DEF Found
  <2>5. seen = {}
    BY <1>3, <2>1 DEF SeenIn
  <2>6. ClosedBars(r.events, bars, seen)
    <3>1. IsSequence(<<>>) /\ Len(<<>>) = 0
      BY EmptySequence
    <3> QED
      BY <2>2, <2>3, <3>1 DEF ClosedBars, OneBar, SeenEvents, RowEvents
  <2>7. ses \notin seen /\ \A s \in Symbols : f[s].bar = None
    BY <2>2, <2>3, <2>4, <2>5
  <2> QED
    BY <1>1, <1>3, <1>4, <2>6, <2>7, BarsBegin
<1>6. CASE n # 1
  <2>1. PICK was : was = rows[p].ses /\ p \in 1..Len(rows) /\ p # 0
    BY <1>0, <1>1, <1>6
  <2>2. r.ses = was /\ r.m.active = was /\ BarsHold(r.events, r.bars, r.m.sym, was, seen)
    BY <1>1, <1>3, <2>1 DEF BarInv
  <2>3. c.active = was /\ was # None
    BY <1>2, <2>1, <2>2, ClosingBars
  <2>4. CASE ses = was
    <3>1. c = r.m /\ bars = r.bars
      BY <1>1, <2>2, <2>4 DEF Keeps
    <3>2. f = r.m.sym
      BY <1>1, <1>3, <2>3, <2>4, <3>1 DEF Found
    <3>3. was \in seen
      BY <2>2 DEF BarsHold
    <3>4. all = seen
      BY <1>4, <2>4, <3>3
    <3> QED
      BY <1>1, <1>3, <2>2, <2>4, <3>1, <3>2, <3>4
  <2>5. CASE ses # was
    <3>1. PICK D \in SUBSET OpenBars(r.m.sym) : bars = r.bars \cup D
      <4>1. PICK open : open = OpenBars(r.m.sym)
        OBVIOUS
      <4>2. \E D \in SUBSET open : bars = r.bars \cup D
        BY <4>1, ClosingBars
      <4> QED
        BY <4>1, <4>2
    <3>2. ClosedBars(r.events, r.bars \cup D, seen)
      BY <2>2, BarsClosed
    <3>3. \A s \in Symbols : f[s].bar = None
      BY <1>1, <1>3, <2>3, <2>5 DEF Found, EmptySymbol
    <3>4. ses \notin seen
      <4> SUFFICES ASSUME ses \in seen PROVE FALSE
        OBVIOUS
      <4>1. PICK k \in 1..p : rows[k].ses = ses
        BY <1>3 DEF SeenIn
      <4>2. k # p
        BY <2>1, <2>5, <4>1
      <4>3. k < p /\ p < n /\ k \in 1..Len(rows)
        BY <1>0, <1>1, <4>2
      <4>4. rows[p].ses = rows[k].ses
        BY <1>1, <2>1, <4>1, <4>3 DEF DayRows, Contiguous
      <4> QED
        BY <2>1, <2>5, <4>1, <4>4
    <3>5. ClosedBars(r.events, bars, seen)
      BY <3>1, <3>2
    <3> QED
      BY <1>1, <1>3, <1>4, <3>3, <3>4, <3>5, BarsBegin
  <2> QED
    BY <2>4, <2>5
<1> QED
  BY <1>5, <1>6

LEMMA BarsStep ==
    ASSUME NEW rows, DayRows(rows), NEW n \in 1..Len(rows), NEW r, IsReplay(r),
           BarInv(r, rows, n - 1), NEW z, NEW c, NEW bars, NEW u, IsMarket(c),
           ReplayedBy(r, rows[n], z, c, bars, u), Closing(r, c, bars),
           Keeps(r, rows[n], c, bars)
    PROVE  BarInv(z, rows, n)
<1>0. Len(rows) \in Nat
  BY SequenceParts DEF DayRows
<1>1. PICK e, ses, f, seen : /\ e = rows[n] /\ ses = e.ses /\ f = Found(c, e)
                             /\ seen = SeenIn(rows, n)
  OBVIOUS
<1>2. IsRow(e) /\ n # 0
  BY <1>0, <1>1 DEF DayRows
<1>3. BarsHold(r.events, bars, f, ses, seen)
  BY <1>1, BarsFound
<1>4. /\ u = MarketApply(c, e) /\ z.m = u.m /\ z.ses = ses /\ z.bars = bars \cup Range(u.bars)
      /\ z.events = (IF u.kind = "none" THEN r.events
                     ELSE Append(r.events, [e |-> e, kind |-> u.kind]))
  BY <1>1 DEF ReplayedBy
<1>5. u.m.active = ses
  <2>1. u = MarketApply(c, e)
    BY <1>4
  <2>2. u.m.active = e.ses
    BY <2>1, MarketCases
  <2> QED
    BY <1>1, <2>2
<1>6. Rejects(c, e, u) \/ Accepts(c, e, u)
  BY <1>4, MarketCases
<1>7. SUFFICES BarsHold(z.events, z.bars, z.m.sym, ses, seen)
  BY <1>1, <1>2, <1>4, <1>5 DEF BarInv
<1>8. CASE Rejects(c, e, u)
  <2>1. z.events = r.events /\ u.bars = <<>> /\ z.m.sym = f
    BY <1>1, <1>4, <1>8 DEF Rejects
  <2>2. z.bars = bars
    BY <1>4, <2>1 DEF Range
  <2> QED
    BY <1>3, <2>1, <2>2
<1>9. CASE Accepts(c, e, u)
  <2>1. PICK t, x, kind, step, y :
           /\ t = e.sym /\ x = f[t] /\ kind = u.kind /\ step = SymbolStep(x, e, kind)
           /\ y = [e |-> e, kind |-> kind]
    OBVIOUS
  <2>2. /\ t \in Symbols /\ kind \in {"trade", "quote", "auction"} /\ step.issues = {}
        /\ u.bars = step.bars /\ z.m.sym = [f EXCEPT ![t] = step.sym]
    BY <1>1, <1>4, <1>9, <2>1 DEF Accepts
  <2>3. HotState(f) /\ IsSymbol(x)
    BY <1>1, <2>1, <2>2, FoundIs DEF HotState
  <2>4. PICK new : new = z.m.sym
    OBVIOUS
  <2>5. \A s \in Symbols : new[s] = IF s = t THEN step.sym ELSE f[s]
    BY <2>2, <2>3, <2>4 DEF HotState
  <2>6. y.e = e /\ y.kind = kind /\ y.e.ses = ses /\ y.e.sym = t
    BY <1>1, <2>1
  <2>7. Adds(z.events, r.events, y)
    <3>1. z.events = Append(r.events, y)
      BY <1>4, <2>1, <2>2
    <3>2. RowEvents(r.events)
      BY <1>3 DEF BarsHold, ClosedBars, SeenEvents
    <3> QED
      BY <1>2, <2>6, <3>1, <3>2 DEF Adds
  <2>8. CASE kind = "trade"
    <3>1. TradeFits(x, e) /\ Traded(x, e, step.sym, step.bars)
      BY <2>1, <2>2, <2>3, <2>8, TradeStep
    <3>2. PICK v, fin, E : v = step.sym /\ fin = step.bars /\ E = z.events
      OBVIOUS
    <3>3. \A s \in Symbols : new[s] = IF s = y.e.sym THEN v ELSE f[s]
      BY <2>5, <2>6, <3>2
    <3>4. TradeFits(x, y.e) /\ Traded(x, y.e, v, fin) /\ x = f[y.e.sym] /\ y.e.sym \in Symbols
      BY <2>1, <2>2, <2>6, <3>1, <3>2
    <3>5. BarsHold(E, bars \cup Range(fin), new, ses, seen)
      <4>1. Adds(E, r.events, y)
        BY <2>7, <3>2
      <4>2. TradeTaken(f, y, v, fin, new)
        BY <2>6, <2>8, <3>3, <3>4 DEF TradeTaken
      <4> QED
        BY <1>3, <2>6, <4>1, <4>2, BarsTrade
    <3> QED
      BY <1>4, <2>2, <2>4, <3>2, <3>5
  <2>9. CASE kind # "trade"
    <3>1. /\ step.bars = <<>> /\ step.sym.bar = x.bar
          /\ x.bar # None /\ x.tradeTime \in Int =>
                step.sym.tradeTime \in Int /\ step.sym.tradeTime >= x.tradeTime
      <4>1. CASE kind = "quote"
        <5>1. step = SymbolStep(x, e, "quote") /\ SymbolStep(x, e, "quote").issues = {}
          BY <2>1, <2>2, <4>1
        <5>2. step.sym = [x EXCEPT !.quote = e, !.quoteTime = e.et] /\ step.bars = <<>>
          BY <2>3, <5>1, QuoteStep
        <5>3. step.sym.bar = x.bar /\ step.sym.tradeTime = x.tradeTime
          BY <2>3, <5>2 DEF IsSymbol
        <5> QED
          BY <5>2, <5>3
      <4>2. CASE kind = "auction"
        <5>1. step = SymbolStep(x, e, "auction") /\ SymbolStep(x, e, "auction").issues = {}
          BY <2>1, <2>2, <4>2
        <5>2. /\ step.sym = [x EXCEPT !.tradeTime = e.et] /\ step.bars = <<>>
              /\ ~Before(e.et, x.tradeTime)
          BY <2>3, <5>1, AuctionStep
        <5>3. step.sym.bar = x.bar /\ step.sym.tradeTime = e.et
          BY <2>3, <5>2 DEF IsSymbol
        <5>4. e.et \in Int
          BY <1>2 DEF IsRow
        <5>5. x.tradeTime \in Int => e.et >= x.tradeTime
          BY <5>2, <5>4, MarketAssumption DEF Before
        <5> QED
          BY <5>2, <5>3, <5>4, <5>5
      <4> QED
        BY <2>2, <2>9, <4>1, <4>2
    <3>2. ASSUME NEW s \in Symbols
          PROVE  /\ new[s].bar = f[s].bar
                 /\ f[s].bar # None => new[s].tradeTime \in Int /\ new[s].tradeTime >= f[s].tradeTime
      <4>1. OpenBar(r.events, s, ses, f[s])
        BY <1>3 DEF BarsHold
      <4>2. f[s].bar # None => f[s].tradeTime \in Int
        BY <4>1 DEF OpenBar, Reached
      <4>3. CASE s = t
        BY <2>1, <2>5, <3>1, <4>2, <4>3
      <4>4. CASE s # t
        BY <2>5, <4>2, <4>4
      <4> QED
        BY <4>3, <4>4
    <3>3. z.bars = bars
      BY <1>4, <2>2, <3>1 DEF Range
    <3>4. PICK E : E = z.events
      OBVIOUS
    <3>5. BarsHold(E, bars, new, ses, seen)
      BY <1>3, <2>6, <2>7, <2>9, <3>2, <3>4, BarsQuiet
    <3> QED
      BY <2>4, <3>3, <3>4, <3>5
  <2> QED
    BY <2>8, <2>9
<1> QED
  BY <1>6, <1>8, <1>9

\* The bars of a replay whose last segment is closed.
LEMMA BarsOfRun ==
    ASSUME NEW rows, DayRows(rows), NEW r, IsReplay(r), NEW n \in 0..Len(rows),
           BarInv(r, rows, n), NEW t, NEW z, z = CloseSegment(r, t)
    PROVE  \E seen : ClosedBars(z.events, z.bars, seen)
<1>1. PICK a : a = MarketAdvance(r.m, t)
  OBVIOUS
<1>2. z.events = r.events /\ z.bars = r.bars \cup a.bars
  BY <1>1, CloseSegmentIs
<1>3. a.bars = {r.m.sym[s].bar : s \in {x \in Symbols : /\ r.m.sym[x].bar # None
                                                        /\ BarEnd(r.m.sym[x].bar) <= t}}
  BY <1>1, AdvanceIs DEF IsReplay
<1>4. a.bars \in SUBSET OpenBars(r.m.sym)
  BY <1>3 DEF OpenBars
<1>5. CASE n = 0
  <2>1. r = InitReplay
    BY <1>5 DEF BarInv
  <2>2. r.events = <<>> /\ r.bars = {} /\ \A s \in Symbols : r.m.sym[s].bar = None
    BY <2>1, InitReplayIs DEF EmptySymbol
  <2>3. z.events = <<>> /\ z.bars = {}
    BY <1>2, <1>3, <2>2
  <2>4. IsSequence(<<>>) /\ Len(<<>>) = 0
    BY EmptySequence
  <2>5. ClosedBars(z.events, z.bars, {})
    BY <2>3, <2>4 DEF ClosedBars, OneBar, SeenEvents, RowEvents
  <2> QED
    BY <2>5
<1>6. CASE n # 0
  <2>1. BarsHold(r.events, r.bars, r.m.sym, rows[n].ses, SeenIn(rows, n))
    BY <1>6 DEF BarInv
  <2>2. ClosedBars(r.events, r.bars \cup a.bars, SeenIn(rows, n))
    BY <1>4, <2>1, BarsClosed
  <2> QED
    BY <1>2, <2>2
<1> QED
  BY <1>5, <1>6

\* The replay of a day closes the bars of its trades.
LEMMA ReplayBars ==
    ASSUME NEW day, IsDay(day)
    PROVE  \E seen : ClosedBars(replay(day).events, replay(day).bars, seen)
<1>0. PICK rows : rows = DayEnvelopes(day) /\ DayRows(rows)
  BY DayBlocks, DayRowsIs
<1>1. PICK N \in Nat : N = Len(rows)
  BY <1>0, SequenceParts DEF DayRows
<1>2. PICK f : /\ f[0] = InitReplay /\ replay(day) = CloseDay(day, f[N])
               /\ \A n \in 1..N : f[n] = ReplayStep(day, f[n - 1], rows[n])
  BY <1>0, <1>1, ReplayLoop DEF DayRows
<1> DEFINE B == {n \in 0..N : IsReplay(f[n]) /\ BarInv(f[n], rows, n)}
<1>3. 0 \in B
  BY <1>2, InitReplayIs DEF BarInv
<1>4. ASSUME NEW n \in 1..N, n - 1 \in B PROVE n \in B
  <2>1. PICK r, e : r = f[n - 1] /\ e = rows[n]
    OBVIOUS
  <2>2. IsReplay(r) /\ BarInv(r, rows, n - 1)
    BY <1>4, <2>1
  <2>3. PICK z : z = ReplayStep(day, r, e)
    OBVIOUS
  <2>4. PICK c, bars, u : /\ ReplayedBy(r, e, z, c, bars, u)
                          /\ IsMarket(c) /\ Closing(r, c, bars) /\ Keeps(r, e, c, bars)
    BY <2>2, <2>3, ReplayStepIs
  <2>5. BarInv(z, rows, n)
    <3>1. ReplayedBy(r, rows[n], z, c, bars, u) /\ Keeps(r, rows[n], c, bars)
      BY <2>1, <2>4
    <3> HIDE DEF B
    <3> QED
      BY <1>0, <1>1, <2>2, <2>4, <3>1, BarsStep
  <2>6. IsReplay(z)
    BY <2>4 DEF ReplayedBy
  <2>7. f[n] = z
    BY <1>2, <2>1, <2>3
  <2> QED
    BY <2>5, <2>6, <2>7
<1>5. \A n \in 0..N : n \in B
  <2> HIDE DEF B
  <2>1. \A n \in 1..N : n - 1 \in B => n \in B
    BY <1>4
  <2> QED
    BY <1>3, <2>1, UpTo
<1>6. IsReplay(f[N]) /\ BarInv(f[N], rows, N)
  BY <1>5
<1>7. PICK t : replay(day) = CloseSegment(f[N], t)
  BY <1>2 DEF CloseDay
<1> QED
  <2> HIDE DEF B
  <2>1. PICK r : r = f[N]
    OBVIOUS
  <2>2. IsReplay(r) /\ BarInv(r, rows, N) /\ replay(day) = CloseSegment(r, t) /\ N \in 0..Len(rows)
    BY <1>1, <1>6, <1>7, <2>1
  <2> QED
    BY <1>0, <2>2, BarsOfRun

FilledBars(r) ==
    /\ \A b \in r.bars :
          LET of == {i \in ReplayedTrades(r) :
                       /\ r.events[i].e.sym = b.sym /\ r.events[i].e.ses = b.ses
                       /\ bar_start(r.events[i].e.et) = b.start}
          IN  /\ of # {} /\ b.count = Cardinality(of)
              /\ b.volume = SumFunction([i \in of |-> r.events[i].e.qty])
              /\ b.open = r.events[Min(of)].e.price
              /\ b.close = r.events[Max(of)].e.price
    /\ \A a, b \in r.bars : a.sym = b.sym /\ a.ses = b.ses /\ a.start = b.start => a = b

LEMMA DayBars == ASSUME NEW day, IsDay(day) PROVE FilledBars(replay(day))
<1>1. PICK r : r = replay(day)
  OBVIOUS
<1>2. PICK seen : ClosedBars(r.events, r.bars, seen)
  BY <1>1, ReplayBars
<1>3. DOMAIN r.events = 1..Len(r.events)
  BY <1>2, SequenceParts DEF ClosedBars, SeenEvents, RowEvents
<1>4. ASSUME NEW b \in r.bars
      PROVE  LET of == {i \in ReplayedTrades(r) :
                           /\ r.events[i].e.sym = b.sym /\ r.events[i].e.ses = b.ses
                           /\ bar_start(r.events[i].e.et) = b.start}
             IN  /\ of # {} /\ b.count = Cardinality(of)
                 /\ b.volume = SumFunction([i \in of |-> r.events[i].e.qty])
                 /\ b.open = r.events[Min(of)].e.price
                 /\ b.close = r.events[Max(of)].e.price
  <2>1. PICK of : of = {i \in ReplayedTrades(r) :
                           /\ r.events[i].e.sym = b.sym /\ r.events[i].e.ses = b.ses
                           /\ bar_start(r.events[i].e.et) = b.start}
    OBVIOUS
  <2>2. of = BarTrades(r.events, b)
    BY <1>3, <2>1 DEF BarTrades, InBar, ReplayedTrades
  <2>3. Filled(r.events, b)
    BY <1>2 DEF ClosedBars, ClosedBar
  <2>4. /\ of # {} /\ b.count = Cardinality(of) /\ b.volume = TradedVolume(r.events, of)
        /\ b.open = r.events[Min(of)].e.price /\ b.close = r.events[Max(of)].e.price
    BY <2>2, <2>3, Zenon DEF Filled
  <2>5. b.volume = SumFunction([i \in of |-> r.events[i].e.qty])
    BY <2>4 DEF TradedVolume
  <2> QED
    BY <2>1, <2>4, <2>5, Zenon
<1>5. \A a, b \in r.bars : a.sym = b.sym /\ a.ses = b.ses /\ a.start = b.start => a = b
  BY <1>2 DEF ClosedBars, OneBar
<1> QED
  <2>1. FilledBars(r)
    BY <1>4, <1>5, Zenon DEF FilledBars
  <2> QED
    BY <1>1, <2>1

(***************************************************************************)
(* Every finalized bar is exactly the trades of its symbol, stream session *)
(* and interval, and no interval is finalized twice (market/state.py,      *)
(* market/replay.py): over lost and repeated messages, reconnects inside   *)
(* an interval, and the close of a segment at its end of coverage.         *)
(***************************************************************************)
THEOREM Bars == Spec => []BarsAreTheirTrades
<1>1. CaptureInv => BarsAreTheirTrades
  <2> SUFFICES ASSUME CaptureInv PROVE BarsAreTheirTrades
    OBVIOUS
  <2>1. IsDay(sessions)
    <3>1. IsSequence(sessions)
      BY DEF CaptureInv
    <3>2. \A i \in 1..Len(sessions) : SessionRows(sessions[i].env, i) /\ sessions[i].id = i
      BY DEF CaptureInv
    <3> QED
      BY <3>1, <3>2 DEF IsDay
  <2>2. \A r \in {replay(sessions)} : FilledBars(r)
    BY <2>1, DayBars
  <2> QED
    BY <2>2, Zenon DEF BarsAreTheirTrades, FilledBars
<1> QED
  BY <1>1, CaptureInit, CaptureStep, PTL DEF Spec

-----------------------------------------------------------------------------
(***************************************************************************)
(* What a symbol's features keep is what its hot state has: a change of    *)
(* stream session resets both, a change of market session and pruning only *)
(* forget.                                                                 *)
(***************************************************************************)
IsFeatures(f) == f = [session |-> f.session, from |-> f.from, trade |-> f.trade,
                      quote |-> f.quote, trades |-> f.trades, flows |-> f.flows]

FeatureOf(f, x) ==
    /\ IsFeatures(f)
    /\ f.trade # None => f.trade = x.trade /\ f.trade.at \in Int
    /\ f.quote # None => f.quote = x.quote /\ f.quote.at \in Int
    /\ f.trades # <<>> => f.trade = x.trade
    /\ f.flows # <<>> => f.quote = x.quote

LEMMA EmptyFeaturesFit == ASSUME NEW x PROVE FeatureOf(EmptyFeatures, x)
BY DEF FeatureOf, EmptyFeatures, IsFeatures

LEMMA InSessionIs ==
    ASSUME NEW f, IsFeatures(f), NEW session
    PROVE  IF f.session = session THEN InSession(f, session) = f
           ELSE InSession(f, session) =
                  [session |-> session, from |-> None, trade |-> None, quote |-> None,
                   trades |-> <<>>, flows |-> <<>>]
BY DEF InSession, EmptyFeatures

LEMMA InSessionFits ==
    ASSUME NEW f, NEW x, FeatureOf(f, x), NEW session
    PROVE  FeatureOf(InSession(f, session), x) /\ InSession(f, session).session = session
<1>1. PICK g : g = InSession(f, session)
  OBVIOUS
<1>2. CASE f.session = session
  BY <1>2 DEF InSession
<1>3. CASE f.session # session
  <2>1. g = [session |-> session, from |-> None, trade |-> None, quote |-> None,
             trades |-> <<>>, flows |-> <<>>]
    BY <1>1, <1>3 DEF InSession, EmptyFeatures
  <2>2. FeatureOf(g, x) /\ g.session = session
    BY <2>1 DEF FeatureOf, IsFeatures
  <2> QED
    BY <1>1, <2>2
<1> QED
  BY <1>2, <1>3

LEMMA PruneIs ==
    ASSUME NEW f, IsFeatures(f), NEW t
    PROVE  _prune(f, t) = [session |-> f.session, from |-> f.from, trade |-> f.trade,
                           quote |-> f.quote,
                           trades |-> DropOld(f.trades, t - Windows[Len(Windows)]),
                           flows |-> DropOld(f.flows, t - Windows[Len(Windows)])]
<1>1. PICK a, b : /\ a = DropOld(f.trades, t - Windows[Len(Windows)])
                  /\ b = DropOld(f.flows, t - Windows[Len(Windows)])
  OBVIOUS
<1>2. _prune(f, t) = [f EXCEPT !.trades = a, !.flows = b]
  BY <1>1 DEF _prune, IsFeatures
<1> QED
  BY <1>1, <1>2 DEF IsFeatures

LEMMA DropNothing == ASSUME NEW cutoff PROVE DropOld(<<>>, cutoff) = <<>>
BY EmptySequence DEF DropOld

LEMMA PruneFits ==
    ASSUME NEW f, NEW x, FeatureOf(f, x), NEW t
    PROVE  /\ FeatureOf(_prune(f, t), x) /\ _prune(f, t).session = f.session
           /\ _prune(f, t).trade = f.trade /\ _prune(f, t).quote = f.quote
<1>1. PICK a, b : /\ a = DropOld(f.trades, t - Windows[Len(Windows)])
                  /\ b = DropOld(f.flows, t - Windows[Len(Windows)])
  OBVIOUS
<1>2. PICK g : g = _prune(f, t)
  OBVIOUS
<1>3. g = [session |-> f.session, from |-> f.from, trade |-> f.trade, quote |-> f.quote,
           trades |-> a, flows |-> b]
  BY <1>1, <1>2, PruneIs DEF FeatureOf
<1>4. f.trades = <<>> => a = <<>>
  BY <1>1, DropNothing
<1>5. f.flows = <<>> => b = <<>>
  BY <1>1, DropNothing
<1>6. FeatureOf(g, x)
  BY <1>3, <1>4, <1>5 DEF FeatureOf, IsFeatures
<1> QED
  BY <1>2, <1>3, <1>6

\* What _observe makes of an accepted event, y being the hot state after it.
LEMMA ObserveFits ==
    ASSUME NEW f, NEW x, FeatureOf(f, x), NEW e, e.at \in Int, NEW y,
           NEW kind \in {"trade", "quote", "auction"},
           kind = "trade" => y.trade = e /\ y.quote = x.quote,
           kind = "quote" => y.quote = e /\ y.trade = x.trade,
           kind = "auction" => y.quote = x.quote /\ y.trade = x.trade
    PROVE  FeatureOf(_observe(f, e, kind), y)
<1>1. PICK g : g = InSession(f, session_at(e.et))
  OBVIOUS
<1>2. FeatureOf(g, x)
  BY <1>1, InSessionFits
<1>3. PICK h : h = [g EXCEPT !.from = IF @ = None THEN e.at ELSE @]
  OBVIOUS
<1>4. /\ IsFeatures(h) /\ h.trade = g.trade /\ h.quote = g.quote /\ h.trades = g.trades
      /\ h.flows = g.flows
  BY <1>2, <1>3 DEF FeatureOf, IsFeatures
<1>5. CASE kind = "trade"
  <2>1. PICK k : k = [h EXCEPT !.trade = e, !.trades = Append(@, e)]
    OBVIOUS
  <2>2. _observe(f, e, kind) = _prune(k, e.at)
    BY <1>1, <1>3, <1>5, <2>1, Zenon DEF _observe
  <2>3. k = [session |-> h.session, from |-> h.from, trade |-> e, quote |-> h.quote,
             trades |-> Append(h.trades, e), flows |-> h.flows]
    BY <1>4, <2>1 DEF IsFeatures
  <2>4. FeatureOf(k, y)
    BY <1>2, <1>4, <1>5, <2>3 DEF FeatureOf, IsFeatures
  <2> QED
    BY <2>2, <2>4, PruneFits
<1>6. CASE kind = "quote"
  <2>1. PICK z : z = IF g.quote # None /\ is_complete(g.quote) /\ is_complete(e)
                     THEN Append(h.flows, [at |-> e.at, flow |-> level_one_book_flow(g.quote, e)])
                     ELSE h.flows
    OBVIOUS
  <2>2. PICK k : k = [h EXCEPT !.quote = e, !.flows = z]
    OBVIOUS
  <2>3. _observe(f, e, kind) = _prune(k, e.at)
    <3>1. k = [h EXCEPT !.quote = e,
                        !.flows = IF g.quote # None /\ is_complete(g.quote) /\ is_complete(e)
                                  THEN Append(@, [at |-> e.at,
                                                  flow |-> level_one_book_flow(g.quote, e)])
                                  ELSE @]
      BY <1>4, <2>1, <2>2 DEF IsFeatures
    <3> QED
      BY <1>1, <1>3, <1>6, <3>1, Zenon DEF _observe
  <2>4. k = [session |-> h.session, from |-> h.from, trade |-> h.trade, quote |-> e,
             trades |-> h.trades, flows |-> z]
    BY <1>4, <2>2 DEF IsFeatures
  <2>5. FeatureOf(k, y)
    BY <1>2, <1>4, <1>6, <2>4 DEF FeatureOf, IsFeatures
  <2> QED
    BY <2>3, <2>5, PruneFits
<1>7. CASE kind = "auction"
  <2>1. _observe(f, e, kind) = g
    BY <1>1, <1>7, Zenon DEF _observe
  <2>2. FeatureOf(g, y)
    BY <1>2, <1>7 DEF FeatureOf
  <2> QED
    BY <2>1, <2>2
<1> QED
  BY <1>5, <1>6, <1>7

(***************************************************************************)
(* The feature engine between two envelopes.                               *)
(***************************************************************************)
IsEngine(g) ==
    g = [m |-> g.m, sym |-> g.sym, lastAt |-> g.lastAt, lastSes |-> g.lastSes,
         lastSeq |-> g.lastSeq, decided |-> g.decided]

EngineFits(g) ==
    /\ IsEngine(g) /\ IsMarket(g.m) /\ g.m.active = g.lastSes
    /\ g.lastAt # None => g.lastAt \in Int
    /\ DOMAIN g.sym = Symbols /\ \A s \in Symbols : FeatureOf(g.sym[s], g.m.sym[s])

LEMMA EngineInit == EngineFits(InitEngine) /\ InitEngine.lastAt = None
<1>1. PICK h, m, k, z : /\ h = [s \in Symbols |-> EmptyFeatures] /\ m = InitMarket
                        /\ k = [s \in Symbols |-> EmptySymbol] /\ z = InitEngine
  OBVIOUS
<1>2. z = [m |-> m, sym |-> h, lastAt |-> None, lastSes |-> None, lastSeq |-> None,
           decided |-> None]
  BY <1>1 DEF InitEngine
<1>3. m.active = None /\ m.sym = k
  BY <1>1 DEF InitMarket
<1>4. IsMarket(m)
  <2>1. k = [s \in Symbols |-> k[s]] /\ \A s \in Symbols : k[s] = EmptySymbol
    BY <1>1
  <2>2. HotState(k)
    BY <2>1, EmptySymbolIs DEF HotState
  <2>3. m = [active |-> m.active, lastSeq |-> m.lastSeq, lastAt |-> m.lastAt,
             issues |-> m.issues, sym |-> m.sym]
    BY <1>1 DEF InitMarket
  <2> QED
    BY <1>3, <2>2, <2>3 DEF IsMarket
<1>5. DOMAIN h = Symbols /\ \A s \in Symbols : FeatureOf(h[s], m.sym[s])
  BY <1>1, EmptyFeaturesFit
<1>6. IsEngine(z) /\ z.m = m /\ z.sym = h /\ z.lastAt = None /\ z.lastSes = None
  BY <1>2 DEF IsEngine
<1> QED
  BY <1>1, <1>3, <1>4, <1>5, <1>6 DEF EngineFits

\* The engine after an envelope that did not raise.
Served(g, e, z) ==
    /\ IsEngine(z) /\ z.m = MarketApply(g.m, e).m /\ z.lastAt = e.at /\ z.lastSes = e.ses
    /\ z.decided = g.decided
    /\ LET u == MarketApply(g.m, e)
           sym == IF g.lastSes # None /\ e.ses # g.lastSes
                  THEN [s \in Symbols |-> EmptyFeatures] ELSE g.sym
       IN  z.sym = IF u.kind = "none" THEN sym
                   ELSE [sym EXCEPT ![e.sym] = _observe(@, e, u.kind)]

LEMMA ServedIs ==
    ASSUME NEW g, IsEngine(g), NEW e, NEW r, r = EngineApply(g, e), ~r.raised,
           g.lastAt # None => g.lastAt \in Int /\ g.lastAt <= e.at, e.at \in Int
    PROVE  Served(g, e, r.g) /\ ~MarketApply(g.m, e).raised /\ r.kind = MarketApply(g.m, e).kind
           /\ ~Before(e.at, g.decided)
<1>1. PICK u : u = MarketApply(g.m, e)
  OBVIOUS
<1>2. ~Before(e.at, g.decided)
  BY DEF EngineApply
<1>3. r = Observed(g, e, u)
  BY <1>1, <1>2 DEF EngineApply
<1>4. PICK sym : sym = IF g.lastSes # None /\ e.ses # g.lastSes
                       THEN [s \in Symbols |-> EmptyFeatures] ELSE g.sym
  OBVIOUS
<1>5. PICK new : new = IF u.kind = "none" THEN sym
                       ELSE [sym EXCEPT ![e.sym] = _observe(@, e, u.kind)]
  OBVIOUS
<1>6. r.raised = u.raised /\ r.kind = u.kind
  BY <1>3 DEF Observed
<1>7. ~Before(e.at, g.lastAt) /\ ~u.raised
  BY <1>6 DEF Before
<1>8. r.g = [g EXCEPT !.m = u.m, !.sym = new, !.lastAt = e.at, !.lastSes = e.ses,
                      !.lastSeq = e.seq]
  BY <1>3, <1>4, <1>5, <1>7 DEF Observed
<1>9. r.g = [m |-> u.m, sym |-> new, lastAt |-> e.at, lastSes |-> e.ses, lastSeq |-> e.seq,
             decided |-> g.decided]
  BY <1>8 DEF IsEngine
<1>10. PICK z : z = r.g
  OBVIOUS
<1>11. /\ IsEngine(z) /\ z.m = u.m /\ z.sym = new /\ z.lastAt = e.at /\ z.lastSes = e.ses
       /\ z.decided = g.decided
  BY <1>9, <1>10 DEF IsEngine
<1>12. Served(g, e, z)
  BY <1>1, <1>4, <1>5, <1>11 DEF Served
<1> QED
  BY <1>1, <1>2, <1>6, <1>7, <1>10, <1>12

LEMMA EngineStep ==
    ASSUME NEW g, EngineFits(g), NEW e, IsRow(e), NEW r, r = EngineApply(g, e), ~r.raised,
           g.lastAt # None => g.lastAt <= e.at
    PROVE  EngineFits(r.g) /\ r.g.lastAt = e.at
<1>1. PICK u, z : u = MarketApply(g.m, e) /\ z = r.g
  OBVIOUS
<1>2. e.at \in Int
  BY DEF IsRow
<1>3. Served(g, e, z)
  BY <1>1, <1>2, ServedIs DEF EngineFits
<1>4. /\ IsMarket(u.m) /\ u.m.active = e.ses
      /\ Rejects(g.m, e, u) \/ Accepts(g.m, e, u)
  BY <1>1, MarketCases DEF EngineFits
<1>5. PICK sym, f : /\ sym = (IF g.lastSes # None /\ e.ses # g.lastSes
                              THEN [s \in Symbols |-> EmptyFeatures] ELSE g.sym)
                    /\ f = Found(g.m, e)
  OBVIOUS
<1>6. /\ IsEngine(z) /\ z.m = u.m /\ z.lastAt = e.at /\ z.lastSes = e.ses
      /\ z.sym = IF u.kind = "none" THEN sym ELSE [sym EXCEPT ![e.sym] = _observe(@, e, u.kind)]
  BY <1>1, <1>3, <1>5 DEF Served
<1>7. DOMAIN sym = Symbols /\ \A s \in Symbols : FeatureOf(sym[s], f[s])
  <2>1. g.m.active = g.lastSes /\ DOMAIN g.sym = Symbols
        /\ \A s \in Symbols : FeatureOf(g.sym[s], g.m.sym[s])
    BY DEF EngineFits
  <2>2. CASE g.lastSes # None /\ e.ses # g.lastSes
    <3>1. DOMAIN sym = Symbols /\ \A s \in Symbols : sym[s] = EmptyFeatures
      BY <1>5, <2>2
    <3> QED
      BY <3>1, EmptyFeaturesFit
  <2>3. CASE ~(g.lastSes # None /\ e.ses # g.lastSes)
    <3>1. sym = g.sym /\ f = g.m.sym
      BY <1>5, <2>1, <2>3 DEF Found
    <3> QED
      BY <2>1, <3>1
  <2> QED
    BY <2>2, <2>3
<1>8. DOMAIN z.sym = Symbols /\ \A s \in Symbols : FeatureOf(z.sym[s], u.m.sym[s])
  <2>1. CASE Rejects(g.m, e, u)
    <3>1. u.kind = "none" /\ u.m.sym = f
      BY <1>5, <2>1 DEF Rejects
    <3>2. z.sym = sym
      BY <1>6, <3>1
    <3> QED
      BY <1>7, <3>1, <3>2
  <2>2. CASE Accepts(g.m, e, u)
    <3>1. PICK t, kind, x, step :
             t = e.sym /\ kind = u.kind /\ x = f[t] /\ step = SymbolStep(x, e, kind)
      OBVIOUS
    <3>2. /\ t \in Symbols /\ kind \in {"trade", "quote", "auction"} /\ step.issues = {}
          /\ u.m.sym = [f EXCEPT ![t] = step.sym]
      BY <1>5, <2>2, <3>1 DEF Accepts
    <3>3. HotState(f) /\ IsSymbol(x)
      BY <1>5, <3>1, <3>2, FoundIs DEF HotState, EngineFits
    <3>4. PICK y : y = step.sym
      OBVIOUS
    <3>5. /\ kind = "trade" => y.trade = e /\ y.quote = x.quote
          /\ kind = "quote" => y.quote = e /\ y.trade = x.trade
          /\ kind = "auction" => y.quote = x.quote /\ y.trade = x.trade
      <4>1. CASE kind = "trade"
        <5>1. step = SymbolStep(x, e, "trade") /\ SymbolStep(x, e, "trade").issues = {}
          BY <3>1, <3>2, <4>1
        <5>2. Traded(x, e, step.sym, step.bars)
          BY <3>3, <5>1, TradeStep
        <5> QED
          BY <3>4, <4>1, <5>2 DEF Traded
      <4>2. CASE kind = "quote"
        <5>1. step = SymbolStep(x, e, "quote") /\ SymbolStep(x, e, "quote").issues = {}
          BY <3>1, <3>2, <4>2
        <5>2. step.sym = [x EXCEPT !.quote = e, !.quoteTime = e.et]
          BY <3>3, <5>1, QuoteStep
        <5>3. y.quote = e /\ y.trade = x.trade
          BY <3>3, <3>4, <5>2 DEF IsSymbol
        <5> QED
          BY <4>2, <5>3
      <4>3. CASE kind = "auction"
        <5>1. step = SymbolStep(x, e, "auction") /\ SymbolStep(x, e, "auction").issues = {}
          BY <3>1, <3>2, <4>3
        <5>2. step.sym = [x EXCEPT !.tradeTime = e.et]
          BY <3>3, <5>1, AuctionStep
        <5>3. y.quote = x.quote /\ y.trade = x.trade
          BY <3>3, <3>4, <5>2 DEF IsSymbol
        <5> QED
          BY <4>3, <5>3
      <4> QED
        BY <3>2, <4>1, <4>2, <4>3
    <3>6. FeatureOf(_observe(sym[t], e, kind), y)
      BY <1>2, <1>7, <3>1, <3>2, <3>5, ObserveFits
    <3>7. PICK o : o = _observe(sym[t], e, kind)
      OBVIOUS
    <3>8. z.sym = [sym EXCEPT ![t] = o]
      BY <1>6, <3>1, <3>2, <3>7
    <3>9. DOMAIN z.sym = Symbols /\ \A s \in Symbols : z.sym[s] = IF s = t THEN o ELSE sym[s]
      BY <1>7, <3>8
    <3>10. \A s \in Symbols : u.m.sym[s] = IF s = t THEN y ELSE f[s]
      BY <3>2, <3>3, <3>4 DEF HotState
    <3> QED
      BY <1>7, <3>6, <3>7, <3>9, <3>10
  <2> QED
    BY <1>4, <2>1, <2>2
<1>9. EngineFits(z)
  BY <1>2, <1>4, <1>6, <1>8 DEF EngineFits
<1> QED
  BY <1>1, <1>6, <1>9

LEMMA DecidedFits ==
    ASSUME NEW g, EngineFits(g), NEW t
    PROVE  EngineFits(EngineDecided(g, t)) /\ EngineDecided(g, t).lastAt = g.lastAt
<1>1. PICK new, z : /\ new = [s \in Symbols |-> _prune(InSession(g.sym[s], session_at(t)), t)]
                    /\ z = EngineDecided(g, t)
  OBVIOUS
<1>2. z = [g EXCEPT !.sym = new, !.decided = t]
  BY <1>1 DEF EngineDecided, EngineFits, IsEngine
<1>3. /\ IsEngine(z) /\ z.m = g.m /\ z.sym = new /\ z.lastAt = g.lastAt
      /\ z.lastSes = g.lastSes
  BY <1>2 DEF EngineFits, IsEngine
<1>4. DOMAIN new = Symbols
  BY <1>1
<1>5. ASSUME NEW s \in Symbols PROVE FeatureOf(new[s], g.m.sym[s])
  <2>1. FeatureOf(g.sym[s], g.m.sym[s])
    BY DEF EngineFits
  <2>2. FeatureOf(InSession(g.sym[s], session_at(t)), g.m.sym[s])
    BY <2>1, InSessionFits
  <2>3. FeatureOf(_prune(InSession(g.sym[s], session_at(t)), t), g.m.sym[s])
    BY <2>2, PruneFits
  <2> QED
    BY <1>1, <2>3
<1>6. EngineFits(z)
  BY <1>3, <1>4, <1>5 DEF EngineFits
<1> QED
  BY <1>1, <1>3, <1>6

(***************************************************************************)
(* A snapshot without reasons is of an enabled session, and its last trade *)
(* and quote are fresh.                                                    *)
(***************************************************************************)
Ready(q, t) == /\ q.reasons = {} /\ session_at(t) \in DecisionSessions
               /\ q.trade_age <= TradeStale /\ q.quote_age <= QuoteStale

LEMMA NothingRecent == ASSUME NEW t, NEW w PROVE Recent(<<>>, t, w) = {}
BY EmptySequence DEF Recent

LEMMA HealthIs ==
    ASSUME NEW m, NEW s, NEW t \in Int, NEW since, health(m, s, t, since) = {},
           NEW x, x = m.sym[s]
    PROVE  /\ x.trade # None /\ (x.trade.at \in Int => t - x.trade.at <= TradeStale)
           /\ x.quote # None /\ (x.quote.at \in Int => t - x.quote.at <= QuoteStale)
<1>1. PICK trade, quote : trade = x.trade /\ quote = x.quote
  OBVIOUS
<1>2. ~Missing(trade, since) /\ ~(t - trade.at > TradeStale)
  <2>1. (IF Missing(trade, since) THEN {"MISSING_TRADE"}
         ELSE IF trade.at > t THEN {"FUTURE_TRADE"}
         ELSE IF t - trade.at > TradeStale THEN {"STALE_TRADE"} ELSE {}) = {}
    BY <1>1, Zenon DEF health
  <2>2. ~Missing(trade, since)
    BY <2>1
  <2>3. ~(trade.at > t)
    BY <2>1, <2>2
  <2> QED
    BY <2>1, <2>2, <2>3
<1>3. ~Missing(quote, since) /\ ~(t - quote.at > QuoteStale)
  <2>1. (IF Missing(quote, since) THEN {"MISSING_QUOTE"}
         ELSE (IF quote.at > t THEN {"FUTURE_QUOTE"}
               ELSE IF t - quote.at > QuoteStale THEN {"STALE_QUOTE"} ELSE {})
              \cup (IF ~is_complete(quote) THEN {"INCOMPLETE_QUOTE"} ELSE {})) = {}
    BY <1>1, Zenon DEF health
  <2>2. ~Missing(quote, since)
    BY <2>1
  <2>3. (IF quote.at > t THEN {"FUTURE_QUOTE"}
         ELSE IF t - quote.at > QuoteStale THEN {"STALE_QUOTE"} ELSE {}) = {}
    BY <2>1, <2>2
  <2>4. ~(quote.at > t)
    BY <2>3
  <2> QED
    BY <2>2, <2>3, <2>4
<1>4. TradeStale \in Nat /\ QuoteStale \in Nat
  BY MarketAssumption
<1>5. trade # None /\ quote # None
  BY <1>2, <1>3 DEF Missing
<1> QED
  BY <1>1, <1>2, <1>3, <1>4, <1>5

LEMMA SnapshotReady ==
    ASSUME NEW g, EngineFits(g), NEW s \in Symbols, NEW t \in Int, NEW q,
           q = _snapshot(g, s, t), q.reasons = {}
    PROVE  Ready(q, t)
<1>1. PICK f, x : f = _prune(InSession(g.sym[s], session_at(t)), t) /\ x = g.m.sym[s]
  OBVIOUS
<1>2. PICK windows : windows = [i \in DOMAIN Windows |-> _window(f, t, Windows[i])]
  OBVIOUS
<1>3. FeatureOf(f, x)
  <2>1. FeatureOf(g.sym[s], x)
    BY <1>1 DEF EngineFits
  <2>2. FeatureOf(InSession(g.sym[s], session_at(t)), x)
    BY <2>1, InSessionFits
  <2> QED
    BY <1>1, <2>2, PruneFits
<1>4. /\ q.reasons = SnapshotReasons(g, s, f, t, windows)
      /\ q.trade_age = (IF f.trade = None THEN None ELSE t - f.trade.at)
      /\ q.quote_age = (IF f.quote = None THEN None ELSE t - f.quote.at)
  BY <1>1, <1>2 DEF _snapshot
<1>5. session_at(t) \in DecisionSessions
  BY <1>4 DEF SnapshotReasons
<1>6. PICK since : /\ health(g.m, s, t, since) = {}
                   /\ ~\E i \in DOMAIN windows : windows[i].trades < 2
                   /\ ~\E i \in DOMAIN windows : windows[i].changes < 1
  BY <1>4, <1>5 DEF SnapshotReasons
<1>7. PICK w : w = Windows[1]
  OBVIOUS
<1>8. 1 \in DOMAIN windows
  BY <1>2, FeatureAssumption
<1>9. /\ windows[1].trades = Cardinality(Recent(f.trades, t, w))
      /\ windows[1].changes = Cardinality(Recent(f.flows, t, w))
  <2>1. windows[1] = _window(f, t, w)
    BY <1>2, <1>7, <1>8
  <2> QED
    BY <2>1 DEF _window, window_values
<1>10. f.trade = x.trade
  <2>1. f.trades # <<>>
    <3> SUFFICES ASSUME f.trades = <<>> PROVE FALSE
      OBVIOUS
    <3>1. windows[1].trades = 0
      BY <1>9, NothingRecent, FS_EmptySet
    <3> QED
      BY <1>6, <1>8, <3>1
  <2> QED
    BY <1>3, <2>1 DEF FeatureOf
<1>11. f.quote = x.quote
  <2>1. f.flows # <<>>
    <3> SUFFICES ASSUME f.flows = <<>> PROVE FALSE
      OBVIOUS
    <3>1. windows[1].changes = 0
      BY <1>9, NothingRecent, FS_EmptySet
    <3> QED
      BY <1>6, <1>8, <3>1
  <2> QED
    BY <1>3, <2>1 DEF FeatureOf
<1>12. /\ x.trade # None /\ (x.trade.at \in Int => t - x.trade.at <= TradeStale)
       /\ x.quote # None /\ (x.quote.at \in Int => t - x.quote.at <= QuoteStale)
  BY <1>1, <1>6, HealthIs
<1>13. x.trade.at \in Int /\ x.quote.at \in Int
  BY <1>3, <1>10, <1>11, <1>12 DEF FeatureOf
<1>14. q.trade_age <= TradeStale /\ q.quote_age <= QuoteStale
  BY <1>4, <1>10, <1>11, <1>12, <1>13
<1> QED
  BY <1>5, <1>14 DEF Ready

LEMMA MarkedReady ==
    ASSUME NEW g, EngineFits(g), NEW s \in Symbols, NEW t \in Int, NEW gap \in BOOLEAN,
           NEW q, q = MarkGap(snapshots(g, t), gap)[s], q.reasons = {}
    PROVE  Ready(q, t)
<1>1. PICK all, p : all = snapshots(g, t) /\ p = _snapshot(g, s, t)
  OBVIOUS
<1>2. DOMAIN all = Symbols /\ all[s] = p
  BY <1>1 DEF snapshots
<1>3. CASE ~gap
  <2>1. q = p
    BY <1>1, <1>2, <1>3 DEF MarkGap
  <2> QED
    BY <1>1, <2>1, SnapshotReady
<1>4. CASE gap
  <2>1. q = [p EXCEPT !.reasons = @ \cup {"CAPTURE_GAP"}]
    BY <1>1, <1>2, <1>4 DEF MarkGap
  <2>2. "CAPTURE_GAP" \in q.reasons
    <3>1. p.reasons = SnapshotReasons(g, s, _prune(InSession(g.sym[s], session_at(t)), t), t,
             [i \in DOMAIN Windows |->
                 _window(_prune(InSession(g.sym[s], session_at(t)), t), t, Windows[i])])
          /\ "reasons" \in DOMAIN p
      BY <1>1 DEF _snapshot
    <3> QED
      BY <2>1, <3>1
  <2> QED
    BY <2>2
<1> QED
  BY <1>3, <1>4

(***************************************************************************)
(* A candidate that is not blocked: its snapshot is eligible and the       *)
(* context tradable.                                                       *)
(***************************************************************************)
LEMMA Unblocked ==
    ASSUME NEW snap, NEW context, Blocked(snap, context) = None
    PROVE  snap.reasons = {} /\ is_tradable(context)
<1>1. None \notin {"feature_ineligible", "not_continuous_session", "market_status_ineligible",
                   "regime_ineligible"}
  BY BaselineAssumption
<1>2. is_eligible(snap)
  BY <1>1 DEF Blocked
<1>3. snap.session \in {"continuous_am", "continuous_pm"}
  BY <1>1, <1>2 DEF Blocked
<1>4. selection_block_reason(context, FALSE) = None
  BY <1>2, <1>3, Zenon DEF Blocked
<1>5. is_tradable(context)
  BY <1>1, <1>4 DEF selection_block_reason
<1> QED
  BY <1>2, <1>5 DEF is_eligible

LEMMA SelectedFacts ==
    ASSUME NEW d, NEW C, NEW t, Deciding(d, C, t), NEW r \in d.results, r.status = "SELECTED"
    PROVE  /\ r.cand.sym \in Symbols /\ d.snaps[r.cand.sym].reasons = {}
           /\ is_tradable(d.context)
<1>1. PICK c : c = r.cand
  OBVIOUS
<1>2. /\ d.results = decide(arb, C, t) /\ SnapsAt(d.snaps, t) /\ OnePer(C, t)
      /\ C = score_buy_first_baselines(d.snaps, d.context, feats)
  <2>1. d.results = decide(arb, C, t) /\ SnapsAt(d.snaps, t) /\ Recorded(d, C, t)
    BY RecordParts
  <2>2. OnePer(C, t)
    BY <2>1 DEF Recorded
  <2>3. C = score_buy_first_baselines(d.snaps, d.context, feats)
    BY DEF Deciding
  <2> QED
    BY <2>1, <2>2, <2>3
<1>3. c \in Selected(arb, C, t)
  BY <1>1, <1>2, ResultFacts
<1>4. c \in Winners(arb, C, t)
  BY <1>3 DEF Selected
<1>5. c \in C /\ c.block = None
  BY <1>2, <1>4, WinnerFacts
<1>6. PICK s \in Symbols :
         c \in Scored(d.snaps[s], d.snaps[Peer(s)], d.context, feats)
  BY <1>2, <1>5 DEF score_buy_first_baselines
<1>7. PICK snap : snap = d.snaps[s]
  OBVIOUS
<1>8. c \in Scored(snap, d.snaps[Peer(s)], d.context, feats)
  BY <1>6, <1>7
<1>9. Blocked(snap, d.context) = None
  BY <1>5, <1>8, ScoredAre
<1>10. c.sym = snap.sym
  BY <1>8, ScoredOnce
<1>11. snap.sym = s
  BY <1>2, <1>7 DEF SnapsAt
<1>12. snap.reasons = {} /\ is_tradable(d.context)
  BY <1>9, Unblocked
<1> QED
  BY <1>1, <1>7, <1>10, <1>11, <1>12

-----------------------------------------------------------------------------
(***************************************************************************)
(* The exchange status: what the context holds last of a market is its     *)
(* last status message, and under a regime policy one of the stream        *)
(* session in use.                                                         *)
(***************************************************************************)
IsContext(c) ==
    c = [regime |-> c.regime, index |-> c.index, status |-> c.status, hist |-> c.hist,
         lastAt |-> c.lastAt, ses |-> c.ses, decided |-> c.decided, bars |-> c.bars]

StatusOf(e, k) == IsStatusTick(e) /\ e.sym = k

LastTick(A, k, i) ==
    /\ i \in 1..Len(A) /\ StatusOf(A[i].e, k)
    /\ \A j \in 1..Len(A) : j > i => ~StatusOf(A[j].e, k)

StatusKept(c, A, k) ==
    /\ IsSequence(c.status[k])
    /\ \A i \in 1..Len(c.status[k]) :
          c.status[k][i].at \in Int /\ c.lastAt \in Int /\ c.status[k][i].at <= c.lastAt
    /\ Len(c.status[k]) > 0 =>
          \E i : /\ LastTick(A, k, i) /\ A[i].e = c.status[k][Len(c.status[k])]
                 /\ c.regime # None => A[i].e.ses = c.ses

RowsApplied(A) == IsSequence(A) /\ \A i \in 1..Len(A) : IsRow(A[i].e)

ContextFits(c, A) ==
    /\ IsContext(c) /\ RowsApplied(A)
    /\ c.lastAt # None => c.lastAt \in Int
    /\ Len(A) > 0 => c.ses = A[Len(A)].e.ses
    /\ DOMAIN c.status = Markets /\ \A k \in Markets : StatusKept(c, A, k)

LEMMA ContextInit == ASSUME NEW r PROVE ContextFits(InitContext(r), <<>>)
<1>1. PICK c, a, b, h : /\ c = InitContext(r) /\ a = [i \in Indices |-> <<>>]
                        /\ b = [k \in Markets |-> <<>>] /\ h = [s \in Symbols |-> <<>>]
  OBVIOUS
<1>2. c = [regime |-> r, index |-> a, status |-> b, hist |-> h, lastAt |-> None, ses |-> None,
           decided |-> None, bars |-> <<>>]
  BY <1>1 DEF InitContext
<1>3. IsContext(c) /\ c.lastAt = None /\ c.status = b
  BY <1>2 DEF IsContext
<1>4. ASSUME NEW k \in Markets PROVE StatusKept(c, <<>>, k)
  <2>1. c.status[k] = <<>>
    BY <1>1, <1>3
  <2> QED
    BY <2>1, EmptySequence DEF StatusKept
<1>5. RowsApplied(<<>>)
  BY EmptySequence DEF RowsApplied
<1> QED
  BY <1>1, <1>3, <1>4, <1>5, EmptySequence DEF ContextFits

\* The context after an envelope that did not raise.
Informed(c, e, z) ==
    /\ IsContext(z) /\ z.lastAt = e.at /\ z.ses = e.ses /\ z.regime = c.regime
    /\ ~Before(e.at, c.lastAt)
    /\ LET status == IF Forgets(c, e) THEN [k \in Markets |-> <<>>] ELSE c.status
       IN  z.status = IF IsStatusTick(e) THEN Ticked(status, e) ELSE status

LEMMA InformedIs ==
    ASSUME NEW c, IsContext(c), NEW e, NEW r, r = ContextApply(c, e), ~r.raised
    PROVE  Informed(c, e, r.c)
<1>1. PICK status : status = IF Forgets(c, e) THEN [k \in Markets |-> <<>>] ELSE c.status
  OBVIOUS
<1>2. PICK raised : raised <=> \/ Before(e.at, c.lastAt)
                               \/ UsesBreadth(e) /\ ~ProviderBarValid(e)
                               \/ IsIndexTick(e) /\ (~e.ok \/ e.price <= 0 \/ e.et > e.at)
                               \/ IsStatusTick(e) /\ ~e.ok
  OBVIOUS
<1>3. PICK bars, index, new :
         /\ bars = (IF UsesBreadth(e) THEN BreadthBars(c.bars, e) ELSE c.bars)
         /\ index = (IF IsIndexTick(e) THEN Ticked(c.index, e) ELSE c.index)
         /\ new = (IF IsStatusTick(e) THEN Ticked(status, e) ELSE status)
  OBVIOUS
<1>4. r.raised <=> raised
  BY <1>2 DEF ContextApply
<1>5. ~raised
  BY <1>4
<1>6. r.c = [c EXCEPT !.lastAt = e.at, !.ses = e.ses, !.bars = bars, !.index = index,
                      !.status = new]
  BY <1>1, <1>2, <1>3, <1>5 DEF ContextApply
<1>7. PICK z : z = r.c
  OBVIOUS
<1>8. z = [regime |-> c.regime, index |-> index, status |-> new, hist |-> c.hist,
           lastAt |-> e.at, ses |-> e.ses, decided |-> c.decided, bars |-> bars]
  BY <1>6, <1>7 DEF IsContext
<1>9. /\ IsContext(z) /\ z.lastAt = e.at /\ z.ses = e.ses /\ z.regime = c.regime
      /\ z.status = new
  BY <1>8 DEF IsContext
<1>10. ~Before(e.at, c.lastAt)
  BY <1>2, <1>5
<1> QED
  BY <1>1, <1>3, <1>7, <1>9, <1>10 DEF Informed


\* What another envelope leaves of the last status of a market.
LEMMA StatusStep ==
    ASSUME NEW c, NEW A, ContextFits(c, A), NEW e, IsRow(e), NEW x, x.e = e,
           NEW z, Informed(c, e, z), NEW k \in Markets
    PROVE  DOMAIN z.status = Markets /\ StatusKept(z, Append(A, x), k)
<1>1. PICK n, B, empty, status :
         /\ n = Len(A) /\ B = Append(A, x) /\ empty = [j \in Markets |-> <<>>]
         /\ status = IF Forgets(c, e) THEN empty ELSE c.status
  OBVIOUS
<1>2. /\ z.lastAt = e.at /\ z.ses = e.ses /\ z.regime = c.regime /\ ~Before(e.at, c.lastAt)
      /\ z.status = IF IsStatusTick(e) THEN Ticked(status, e) ELSE status
  BY <1>1 DEF Informed
<1>3. n \in Nat /\ IsSequence(A)
  BY <1>1, SequenceParts DEF ContextFits, RowsApplied
<1>4. /\ Len(B) = n + 1 /\ B[n + 1] = x /\ \A i \in 1..n : B[i] = A[i]
  BY <1>1, <1>3, AppendSequence
<1>5. e.at \in Int /\ e.ses \in Nat
  BY DEF IsRow
<1>6. DOMAIN c.status = Markets /\ StatusKept(c, A, k)
  BY DEF ContextFits
<1>7. DOMAIN status = Markets
  BY <1>1, <1>6
<1>8. DOMAIN z.status = Markets
  BY <1>2, <1>7 DEF Ticked
<1>9. c.lastAt \in Int => c.lastAt <= e.at
  BY <1>2, <1>5, MarketAssumption DEF Before
\* What is kept of the market before the message itself.
<1>10. /\ IsSequence(status[k])
       /\ \A i \in 1..Len(status[k]) : status[k][i].at \in Int /\ status[k][i].at <= e.at
       /\ Len(status[k]) > 0 =>
             \E i : /\ LastTick(A, k, i) /\ A[i].e = status[k][Len(status[k])]
                    /\ c.regime # None => A[i].e.ses = e.ses
  <2>1. CASE Forgets(c, e)
    <3>1. status[k] = <<>>
      BY <1>1, <2>1
    <3> QED
      BY <3>1, EmptySequence
  <2>2. CASE ~Forgets(c, e)
    <3>1. status = c.status
      BY <1>1, <2>2
    <3>2. ASSUME NEW i \in 1..Len(status[k])
          PROVE  status[k][i].at \in Int /\ status[k][i].at <= e.at
      <4>1. /\ c.status[k][i].at \in Int /\ c.lastAt \in Int
            /\ c.status[k][i].at <= c.lastAt
        BY <1>6, <3>1 DEF StatusKept
      <4> QED
        BY <1>5, <1>9, <3>1, <4>1
    <3>3. ASSUME Len(status[k]) > 0
          PROVE  \E i : /\ LastTick(A, k, i) /\ A[i].e = status[k][Len(status[k])]
                        /\ c.regime # None => A[i].e.ses = e.ses
      <4>1. PICK i : /\ LastTick(A, k, i) /\ A[i].e = c.status[k][Len(c.status[k])]
                     /\ c.regime # None => A[i].e.ses = c.ses
        BY <1>6, <3>1, <3>3 DEF StatusKept
      <4>2. n > 0
        BY <1>1, <1>3, <4>1 DEF LastTick
      <4>3. c.ses = A[n].e.ses /\ IsRow(A[n].e)
        BY <1>1, <1>3, <4>2 DEF ContextFits, RowsApplied
      <4>4. c.ses # None
        BY <4>3, MarketAssumption DEF IsRow
      <4>5. c.regime # None => c.ses = e.ses
        BY <2>2, <4>4 DEF Forgets
      <4>6. c.regime # None => A[i].e.ses = e.ses
        BY <4>1, <4>5
      <4>7. A[i].e = status[k][Len(status[k])]
        BY <3>1, <4>1
      <4> QED
        BY <4>1, <4>6, <4>7
    <3> QED
      BY <1>6, <3>1, <3>2, <3>3 DEF StatusKept
  <2> QED
    BY <2>1, <2>2
<1>11. CASE IsStatusTick(e) /\ e.sym = k
  <2>1. PICK m : m = Len(status[k])
    OBVIOUS
  <2>2. z.status[k] = Append(status[k], e)
    BY <1>2, <1>7, <1>11 DEF Ticked
  <2>3. /\ IsSequence(z.status[k]) /\ Len(z.status[k]) = m + 1 /\ z.status[k][m + 1] = e
        /\ \A i \in 1..m : z.status[k][i] = status[k][i]
    BY <1>10, <2>1, <2>2, AppendSequence
  <2>4. m \in Nat
    BY <1>10, <2>1, SequenceParts
  <2>5. ASSUME NEW i \in 1..Len(z.status[k])
        PROVE  z.status[k][i].at \in Int /\ z.lastAt \in Int /\ z.status[k][i].at <= z.lastAt
    <3>1. CASE i = m + 1
      <4>1. z.status[k][i] = e
        BY <2>3, <3>1
      <4> QED
        BY <1>2, <1>5, <4>1
    <3>2. CASE i # m + 1
      <4>1. i \in 1..m
        BY <2>3, <2>4, <2>5, <3>2
      <4>2. z.status[k][i] = status[k][i]
        BY <2>3, <4>1
      <4>3. status[k][i].at \in Int /\ status[k][i].at <= e.at
        BY <1>10, <2>1, <4>1
      <4> QED
        BY <1>2, <1>5, <4>2, <4>3
    <3> QED
      BY <3>1, <3>2
  <2>6. LastTick(B, k, n + 1) /\ B[n + 1].e = z.status[k][Len(z.status[k])]
        /\ B[n + 1].e.ses = z.ses
    <3>1. B[n + 1].e = e
      BY <1>4
    <3>2. StatusOf(B[n + 1].e, k)
      BY <1>11, <3>1 DEF StatusOf
    <3>3. n + 1 \in 1..Len(B) /\ \A j \in 1..Len(B) : ~(j > n + 1)
      BY <1>3, <1>4
    <3>4. LastTick(B, k, n + 1)
      BY <3>2, <3>3 DEF LastTick
    <3> QED
      BY <1>2, <2>3, <3>1, <3>4
  <2>7. StatusKept(z, B, k)
    BY <2>3, <2>5, <2>6 DEF StatusKept
  <2> QED
    BY <1>1, <1>8, <2>7
<1>12. CASE ~(IsStatusTick(e) /\ e.sym = k)
  <2>1. z.status[k] = status[k]
    BY <1>2, <1>7, <1>12 DEF Ticked
  <2>2. ASSUME Len(z.status[k]) > 0
        PROVE  \E i : /\ LastTick(B, k, i) /\ B[i].e = z.status[k][Len(z.status[k])]
                      /\ z.regime # None => B[i].e.ses = z.ses
    <3>1. PICK i : /\ LastTick(A, k, i) /\ A[i].e = status[k][Len(status[k])]
                   /\ c.regime # None => A[i].e.ses = e.ses
      BY <1>10, <2>1, <2>2
    <3>2. i \in 1..n /\ StatusOf(A[i].e, k) /\ \A j \in 1..n : j > i => ~StatusOf(A[j].e, k)
      BY <1>1, <3>1 DEF LastTick
    <3>3. B[i] = A[i] /\ i \in 1..Len(B)
      BY <1>3, <1>4, <3>2
    <3>4. ~StatusOf(B[n + 1].e, k)
      BY <1>4, <1>12 DEF StatusOf
    <3>5. ASSUME NEW j \in 1..Len(B), j > i PROVE ~StatusOf(B[j].e, k)
      <4>1. CASE j = n + 1
        BY <3>4, <4>1
      <4>2. CASE j # n + 1
        <5>1. j \in 1..n
          BY <1>3, <1>4, <3>5, <4>2
        <5>2. B[j] = A[j]
          BY <1>4, <5>1
        <5> QED
          BY <3>2, <3>5, <5>1, <5>2
      <4> QED
        BY <4>1, <4>2
    <3>6. LastTick(B, k, i)
      BY <3>2, <3>3, <3>5 DEF LastTick
    <3> QED
      BY <1>2, <2>1, <3>1, <3>3, <3>6
  <2>3. StatusKept(z, B, k)
    BY <1>2, <1>5, <1>10, <2>1, <2>2 DEF StatusKept
  <2> QED
    BY <1>1, <1>8, <2>3
<1> QED
  BY <1>11, <1>12

LEMMA ContextStep ==
    ASSUME NEW c, NEW A, ContextFits(c, A), NEW e, IsRow(e), NEW x, x.e = e,
           NEW r, r = ContextApply(c, e), ~r.raised
    PROVE  ContextFits(r.c, Append(A, x))
<1>1. PICK z, B, n : z = r.c /\ B = Append(A, x) /\ n = Len(A)
  OBVIOUS
<1>2. Informed(c, e, z)
  BY <1>1, InformedIs DEF ContextFits
<1>3. \A k \in Markets : DOMAIN z.status = Markets /\ StatusKept(z, B, k)
  BY <1>1, <1>2, StatusStep
<1>4. n \in Nat /\ IsSequence(A) /\ RowsApplied(A)
  BY <1>1, SequenceParts DEF ContextFits, RowsApplied
<1>5. IsSequence(B) /\ Len(B) = n + 1 /\ B[n + 1] = x /\ \A i \in 1..n : B[i] = A[i]
  BY <1>1, <1>4, AppendSequence
<1>6. RowsApplied(B)
  <2>1. ASSUME NEW i \in 1..Len(B) PROVE IsRow(B[i].e)
    <3>1. CASE i = n + 1
      BY <1>5, <3>1
    <3>2. CASE i # n + 1
      <4>1. i \in 1..n
        BY <1>4, <1>5, <3>2
      <4> QED
        BY <1>1, <1>4, <1>5, <4>1 DEF RowsApplied
    <3> QED
      BY <3>1, <3>2
  <2> QED
    BY <1>5, <2>1 DEF RowsApplied
<1>7. z.lastAt = e.at /\ z.ses = e.ses /\ IsContext(z)
  BY <1>2 DEF Informed
<1>8. z.lastAt \in Int
  BY <1>7 DEF IsRow
<1>9. z.ses = B[Len(B)].e.ses
  BY <1>5, <1>7
<1>10. DOMAIN z.status = Markets
  <2>1. DOMAIN c.status = Markets
    BY DEF ContextFits
  <2>2. \A q : DOMAIN Ticked(q, e) = DOMAIN q
    BY DEF Ticked
  <2> QED
    BY <1>2, <2>1, <2>2 DEF Informed
<1>11. ContextFits(z, B)
  BY <1>3, <1>6, <1>7, <1>8, <1>9, <1>10 DEF ContextFits
<1> QED
  BY <1>1, <1>11

LEMMA ContextDecidedFits ==
    ASSUME NEW c, NEW A, ContextFits(c, A), NEW snaps, NEW t
    PROVE  ContextFits(ContextDecided(c, snaps, t), A)
<1>1. PICK hist, z :
         /\ hist = [s \in Symbols |-> SelectSeq(Append(c.hist[s], snaps[s]),
                                                LAMBDA x : x.at >= t - ContextPolicy.lookback)]
         /\ z = ContextDecided(c, snaps, t)
  OBVIOUS
<1>2. z = [c EXCEPT !.decided = t, !.hist = hist]
  BY <1>1 DEF ContextDecided, ContextFits, IsContext
<1>3. IsContext(c)
  BY DEF ContextFits
<1>4. z = [regime |-> c.regime, index |-> c.index, status |-> c.status, hist |-> hist,
           lastAt |-> c.lastAt, ses |-> c.ses, decided |-> t, bars |-> c.bars]
  BY <1>2, <1>3 DEF IsContext
<1>5. /\ IsContext(z) /\ z.regime = c.regime /\ z.status = c.status /\ z.lastAt = c.lastAt
      /\ z.ses = c.ses
  BY <1>4 DEF IsContext
<1>6. ASSUME NEW k \in Markets PROVE StatusKept(z, A, k)
  <2>1. StatusKept(c, A, k)
    BY DEF ContextFits
  <2> QED
    BY <1>5, <2>1 DEF StatusKept
<1>7. ContextFits(z, A)
  BY <1>5, <1>6 DEF ContextFits
<1> QED
  BY <1>1, <1>7

-----------------------------------------------------------------------------
(***************************************************************************)
(* A second of the stream through both engines.                            *)
(***************************************************************************)
Extends(A, B, at) ==
    /\ Len(A) <= Len(B) /\ \A i \in 1..Len(A) : B[i] = A[i]
    /\ \A i \in 1..Len(B) : i > Len(A) => B[i].e.at = at

PipeFits(p, A, at) ==
    /\ RowsApplied(p.applied) /\ Extends(A, p.applied, at)
    /\ ~p.failed => /\ EngineFits(p.eng) /\ ContextFits(p.ctx, p.applied)
                    /\ p.eng.lastAt # None => p.eng.lastAt <= at

LEMMA AppliedRow ==
    ASSUME NEW B, RowsApplied(B), NEW x, IsRow(x.e) PROVE RowsApplied(Append(B, x))
<1>1. PICK n, Z : n = Len(B) /\ Z = Append(B, x)
  OBVIOUS
<1>2. n \in Nat /\ IsSequence(B)
  BY <1>1, SequenceParts DEF RowsApplied
<1>3. IsSequence(Z) /\ Len(Z) = n + 1 /\ Z[n + 1] = x /\ \A i \in 1..n : Z[i] = B[i]
  BY <1>1, <1>2, AppendSequence
<1>4. ASSUME NEW i \in 1..Len(Z) PROVE IsRow(Z[i].e)
  <2>1. CASE i = n + 1
    BY <1>3, <2>1
  <2>2. CASE i # n + 1
    <3>1. i \in 1..n
      BY <1>2, <1>3, <2>2
    <3>2. IsRow(B[i].e) /\ Z[i] = B[i]
      BY <1>1, <1>3, <3>1 DEF RowsApplied
    <3> QED
      BY <3>2
  <2> QED
    BY <2>1, <2>2
<1> QED
  BY <1>1, <1>3, <1>4 DEF RowsApplied

LEMMA ExtendsMore ==
    ASSUME NEW A, RowsApplied(A), NEW B, RowsApplied(B), NEW at, Extends(A, B, at),
           NEW x, x.e.at = at
    PROVE  Extends(A, Append(B, x), at)
<1>1. PICK m, n, Z : m = Len(A) /\ n = Len(B) /\ Z = Append(B, x)
  OBVIOUS
<1>2. m \in Nat /\ n \in Nat /\ IsSequence(B)
  BY <1>1, SequenceParts DEF RowsApplied
<1>3. Len(Z) = n + 1 /\ Z[n + 1] = x /\ \A i \in 1..n : Z[i] = B[i]
  BY <1>1, <1>2, AppendSequence
<1>4. /\ m <= n /\ \A i \in 1..m : B[i] = A[i]
      /\ \A i \in 1..n : i > m => B[i].e.at = at
  BY <1>1 DEF Extends
<1>5. m <= Len(Z) /\ \A i \in 1..m : Z[i] = A[i]
  BY <1>2, <1>3, <1>4
<1>6. ASSUME NEW i \in 1..Len(Z), i > m PROVE Z[i].e.at = at
  <2>1. CASE i = n + 1
    BY <1>3, <2>1
  <2>2. CASE i # n + 1
    <3>1. i \in 1..n
      BY <1>2, <1>3, <2>2
    <3> QED
      BY <1>3, <1>4, <1>6, <3>1
  <2> QED
    BY <2>1, <2>2
<1> QED
  BY <1>1, <1>5, <1>6 DEF Extends

LEMMA PipeStep ==
    ASSUME NEW p, NEW A, RowsApplied(A), NEW at \in Int, PipeFits(p, A, at), NEW e, IsRow(e),
           e.at = at
    PROVE  PipeFits(PipelineApply(p, e), A, at)
<1>1. PICK z : z = PipelineApply(p, e)
  OBVIOUS
<1>2. CASE p.failed
  <2>1. z = p
    BY <1>1, <1>2 DEF PipelineApply
  <2> QED
    BY <1>1, <2>1
<1>3. CASE ~p.failed
  <2>1. PICK f, c, x, B : /\ f = EngineApply(p.eng, e) /\ c = ContextApply(p.ctx, e)
                          /\ x = [e |-> e, kind |-> f.kind] /\ B = Append(p.applied, x)
    OBVIOUS
  <2>2. z = Piped(p, e, f, c)
    BY <1>1, <1>3, <2>1 DEF PipelineApply
  <2>3. /\ z.eng = f.g /\ z.ctx = c.c /\ z.failed = (f.raised \/ c.raised)
        /\ z.applied = B
    BY <2>1, <2>2 DEF Piped
  <2>4. /\ RowsApplied(p.applied) /\ Extends(A, p.applied, at)
        /\ EngineFits(p.eng) /\ ContextFits(p.ctx, p.applied)
        /\ p.eng.lastAt # None => p.eng.lastAt <= at
    BY <1>3 DEF PipeFits
  <2>5. x.e = e
    BY <2>1
  <2>6. RowsApplied(B)
    BY <2>1, <2>4, <2>5, AppliedRow
  <2>7. Extends(A, B, at)
    BY <2>1, <2>4, <2>5, ExtendsMore
  <2>8. ASSUME ~z.failed
        PROVE  EngineFits(z.eng) /\ ContextFits(z.ctx, z.applied) /\ z.eng.lastAt = at
    <3>1. ~f.raised /\ ~c.raised
      BY <2>3, <2>8
    <3>2. EngineFits(f.g) /\ f.g.lastAt = e.at
      BY <2>1, <2>4, <3>1, EngineStep
    <3>3. ContextFits(c.c, B)
      BY <2>1, <2>4, <2>5, <3>1, ContextStep
    <3> QED
      BY <2>3, <3>2, <3>3
  <2>9. PipeFits(z, A, at)
    BY <2>3, <2>6, <2>7, <2>8 DEF PipeFits
  <2> QED
    BY <1>1, <2>9
<1> QED
  BY <1>2, <1>3

LEMMA PipeLoop ==
    ASSUME NEW A, RowsApplied(A), NEW at \in Int, PipeFits(Pipeline, A, at),
           NEW rows, NEW ses, NEW from, CapturedRows(rows, ses, from, at)
    PROVE  PipeFits(FoldLeft(PipelineApply, Pipeline, rows), A, at)
<1>1. IsSequence(rows)
  BY DEF CapturedRows
<1>2. PICK N \in Nat : N = Len(rows)
  BY <1>1, SequenceParts
<1>3. PICK f : /\ f[0] = Pipeline /\ f[N] = FoldLeft(PipelineApply, Pipeline, rows)
               /\ \A n \in 1..N : f[n] = PipelineApply(f[n - 1], rows[n])
  BY <1>1, <1>2, RowsLoop
<1> DEFINE B == {n \in 0..N : PipeFits(f[n], A, at)}
<1>4. 0 \in B
  BY <1>3
<1>5. ASSUME NEW n \in 1..N, n - 1 \in B PROVE n \in B
  <2>1. PICK p, e : p = f[n - 1] /\ e = rows[n]
    OBVIOUS
  <2>2. PipeFits(p, A, at)
    BY <1>5, <2>1
  <2>3. IsRow(e) /\ e.at = at
    BY <1>2, <2>1 DEF CapturedRows, Captured
  <2>4. PipeFits(PipelineApply(p, e), A, at)
    BY <2>2, <2>3, PipeStep
  <2>5. f[n] = PipelineApply(p, e)
    BY <1>3, <2>1
  <2> QED
    BY <2>4, <2>5
<1>6. N \in B
  <2> HIDE DEF B
  <2>1. \A n \in 1..N : n - 1 \in B => n \in B
    BY <1>5
  <2>2. \A n \in 0..N : n \in B
    BY <1>4, <2>1, UpTo
  <2> QED
    BY <2>2
<1> QED
  BY <1>3, <1>6

-----------------------------------------------------------------------------
(***************************************************************************)
(* A recorded clock: what each of its selections rests on, in the rows     *)
(* applied so far.                                                         *)
(***************************************************************************)
RestsOn(d, A, k) ==
    \E i \in 1..Len(A) :
        /\ StatusOf(A[i].e, k) /\ A[i].e.at <= d.at /\ A[i].e # None
        /\ A[i].e.status \in ContextPolicy.tradable
        /\ \A j \in 1..Len(A) : j > i /\ StatusOf(A[j].e, k) => A[j].e.at > d.at
        /\ d.upto \in 1..Len(A)
        /\ d.context.declared => A[i].e.ses = A[d.upto].e.ses

Authorised(d, A) ==
    \A r \in d.results : r.status = "SELECTED" =>
        /\ Ready(d.snaps[r.cand.sym], d.at)
        /\ \A k \in Markets : RestsOn(d, A, k)

SelectionInv ==
    /\ RowsApplied(applied)
    /\ ~failed => /\ EngineFits(eng) /\ ContextFits(ctx, applied)
                  /\ eng.lastAt # None => eng.lastAt < now
    /\ \A d \in out : d.at \in Int /\ d.at < now /\ Authorised(d, applied)

\* Rows received after a clock change nothing for it.
LEMMA RestsMore ==
    ASSUME NEW A, RowsApplied(A), NEW B, RowsApplied(B), NEW at \in Int, Extends(A, B, at),
           NEW d, d.at \in Int, d.at < at, NEW k, RestsOn(d, A, k)
    PROVE  RestsOn(d, B, k)
<1>1. PICK m, n : m = Len(A) /\ n = Len(B)
  OBVIOUS
<1>2. m \in Nat /\ n \in Nat
  BY <1>1, SequenceParts DEF RowsApplied
<1>3. /\ m <= n /\ \A i \in 1..m : B[i] = A[i]
      /\ \A i \in 1..n : i > m => B[i].e.at = at
  BY <1>1 DEF Extends
<1>4. PICK i \in 1..m :
        /\ StatusOf(A[i].e, k) /\ A[i].e.at <= d.at /\ A[i].e # None
        /\ A[i].e.status \in ContextPolicy.tradable
        /\ \A j \in 1..m : j > i /\ StatusOf(A[j].e, k) => A[j].e.at > d.at
        /\ d.upto \in 1..m
        /\ d.context.declared => A[i].e.ses = A[d.upto].e.ses
  BY <1>1 DEF RestsOn
<1>5. i \in 1..n /\ d.upto \in 1..n /\ B[i] = A[i] /\ B[d.upto] = A[d.upto]
  BY <1>2, <1>3, <1>4
<1>6. ASSUME NEW j \in 1..n, j > i, StatusOf(B[j].e, k) PROVE B[j].e.at > d.at
  <2>1. CASE j \in 1..m
    BY <1>3, <1>4, <1>6, <2>1
  <2>2. CASE j \notin 1..m
    <3>1. B[j].e.at = at
      BY <1>2, <1>3, <2>2
    <3> QED
      BY <3>1
  <2> QED
    BY <2>1, <2>2
<1>7. /\ StatusOf(B[i].e, k) /\ B[i].e.at <= d.at /\ B[i].e # None
      /\ B[i].e.status \in ContextPolicy.tradable
      /\ d.context.declared => B[i].e.ses = B[d.upto].e.ses
  BY <1>4, <1>5
<1> QED
  BY <1>1, <1>5, <1>6, <1>7 DEF RestsOn

LEMMA AuthorisedMore ==
    ASSUME NEW A, RowsApplied(A), NEW B, RowsApplied(B), NEW at \in Int, Extends(A, B, at),
           NEW d, d.at \in Int, d.at < at, Authorised(d, A)
    PROVE  Authorised(d, B)
BY RestsMore DEF Authorised

\* What a tradable context says of one market: its last status, received by the clock.
LEMMA TradableStatus ==
    ASSUME NEW c, NEW A, ContextFits(c, A), NEW t \in Int, ~BuildRefused(c, t),
           NEW snaps, NEW context, context = build(c, snaps, t), is_tradable(context),
           NEW k \in Markets
    PROVE  \E i : /\ LastTick(A, k, i) /\ A[i].e.at <= t /\ A[i].e # None
                  /\ A[i].e.status \in ContextPolicy.tradable
                  /\ context.declared => A[i].e.ses = A[Len(A)].e.ses
<1>1. PICK ticks, m, current, q :
         /\ ticks = c.status[k] /\ m = Len(ticks) /\ current = AsOf(ticks, t)
         /\ q = _market_status_context(k, ticks, t)
  OBVIOUS
<1>2. /\ context.statuses = {_market_status_context(j, c.status[j], t) : j \in Markets}
      /\ context.declared = (c.regime # None)
  BY DEF build
<1>3. q.reasons = {}
  BY <1>1, <1>2 DEF is_tradable
<1>4. q.reasons = IF current = None THEN {"MISSING_MARKET_STATUS"}
                  ELSE IF current.status \notin ContextPolicy.tradable
                  THEN {"MARKET_NOT_TRADABLE"} ELSE {}
  BY <1>1 DEF _market_status_context
<1>5. current # None /\ current.status \in ContextPolicy.tradable
  BY <1>3, <1>4
<1>6. /\ IsSequence(ticks)
      /\ \A i \in 1..m : ticks[i].at \in Int /\ c.lastAt \in Int /\ ticks[i].at <= c.lastAt
      /\ m > 0 => \E i : /\ LastTick(A, k, i) /\ A[i].e = ticks[m]
                         /\ c.regime # None => A[i].e.ses = c.ses
  BY <1>1 DEF ContextFits, StatusKept
<1>7. m \in Nat /\ DOMAIN ticks = 1..m
  BY <1>1, <1>6, SequenceParts
<1>8. c.lastAt # None => ~(c.lastAt > t)
  BY DEF BuildRefused
<1>9. ASSUME NEW i \in 1..m PROVE ticks[i].at <= t
  <2>1. ticks[i].at \in Int /\ c.lastAt \in Int /\ ticks[i].at <= c.lastAt
    BY <1>6
  <2>2. c.lastAt <= t
    BY <1>8, <2>1, MarketAssumption
  <2> QED
    BY <2>1, <2>2
<1>10. PICK by : by = {i \in DOMAIN ticks : ticks[i].at <= t}
  OBVIOUS
<1>11. by = 1..m
  BY <1>7, <1>9, <1>10
<1>12. current = IF by = {} THEN None ELSE ticks[Max(by)]
  BY <1>1, <1>10 DEF AsOf
<1>13. by # {} /\ current = ticks[Max(by)]
  BY <1>5, <1>12
<1>14. m > 0
  BY <1>7, <1>11, <1>13
<1>15. Max(by) = m
  <2>1. Max(by) \in by /\ \A y \in by : Max(by) >= y
    BY <1>7, <1>11, <1>13, MaxOfPlaces
  <2>2. m \in by
    BY <1>7, <1>11, <1>14
  <2>3. PICK a : a = Max(by)
    OBVIOUS
  <2>4. a \in 1..m /\ a >= m
    BY <1>11, <2>1, <2>2, <2>3
  <2> QED
    BY <1>7, <2>3, <2>4
<1>16. PICK i : /\ LastTick(A, k, i) /\ A[i].e = ticks[m]
                /\ c.regime # None => A[i].e.ses = c.ses
  BY <1>6, <1>14
<1>17. A[i].e = current
  BY <1>13, <1>15, <1>16
<1>18. A[i].e.at <= t
  <2>1. ticks[m].at <= t
    BY <1>7, <1>9, <1>14
  <2> QED
    BY <1>16, <2>1
<1>19. Len(A) > 0
  <2>1. i \in 1..Len(A) /\ Len(A) \in Nat
    BY <1>16, SequenceParts DEF LastTick, ContextFits, RowsApplied
  <2> QED
    BY <2>1
<1>20. c.ses = A[Len(A)].e.ses
  BY <1>19 DEF ContextFits
<1>21. context.declared => A[i].e.ses = A[Len(A)].e.ses
  BY <1>2, <1>16, <1>20
<1>22. A[i].e # None /\ A[i].e.status \in ContextPolicy.tradable
  BY <1>5, <1>17
<1> QED
  BY <1>16, <1>18, <1>21, <1>22

\* What a clock records is authorised by the rows applied before it.
LEMMA DecisionAuthorised ==
    ASSUME EngineFits(eng), ContextFits(ctx, applied), NEW t \in Int,
           NEW d, NEW C, Deciding(d, C, t)
    PROVE  d.at = t /\ Authorised(d, applied)
<1>1. PICK A, n : A = applied /\ n = Len(applied)
  OBVIOUS
<1>2. /\ d.at = t /\ d.upto = n
      /\ d.snaps = MarkGap(snapshots(eng, t), GapKnown(t)) /\ d.context = build(ctx, d.snaps, t)
  BY <1>1, RecordParts
<1>3. ~BuildRefused(ctx, t)
  BY DEF Deciding
<1>4. ContextFits(ctx, A) /\ n \in Nat
  BY <1>1, SequenceParts DEF ContextFits, RowsApplied
<1>5. ASSUME NEW r \in d.results, r.status = "SELECTED"
      PROVE  /\ Ready(d.snaps[r.cand.sym], d.at)
             /\ \A k \in Markets : RestsOn(d, A, k)
  <2>1. PICK s : s = r.cand.sym
    OBVIOUS
  <2>2. s \in Symbols /\ d.snaps[s].reasons = {} /\ is_tradable(d.context)
    BY <1>5, <2>1, SelectedFacts
  <2>3. PICK gap : gap = GapKnown(t)
    OBVIOUS
  <2>4. gap \in BOOLEAN
    BY <2>3 DEF GapKnown
  <2>5. PICK q : q = d.snaps[s]
    OBVIOUS
  <2>6. q = MarkGap(snapshots(eng, t), gap)[s]
    BY <1>2, <2>3, <2>5
  <2>7. Ready(q, t)
    BY <2>2, <2>4, <2>5, <2>6, MarkedReady
  <2>8. ASSUME NEW k \in Markets PROVE RestsOn(d, A, k)
    <3>1. PICK context, snaps : context = d.context /\ snaps = d.snaps
      OBVIOUS
    <3>2. context = build(ctx, snaps, t) /\ is_tradable(context)
      BY <1>2, <2>2, <3>1
    <3>3. PICK i : /\ LastTick(A, k, i) /\ A[i].e.at <= t /\ A[i].e # None
                   /\ A[i].e.status \in ContextPolicy.tradable
                   /\ context.declared => A[i].e.ses = A[Len(A)].e.ses
      BY <1>3, <1>4, <3>2, TradableStatus
    <3>4. /\ i \in 1..n /\ StatusOf(A[i].e, k)
          /\ \A j \in 1..n : j > i => ~StatusOf(A[j].e, k)
      BY <1>1, <3>3 DEF LastTick
    <3>5. n \in 1..n
      BY <1>4, <3>4
    <3>6. d.context.declared => A[i].e.ses = A[d.upto].e.ses
      BY <1>1, <1>2, <3>1, <3>3
    <3> QED
      BY <1>1, <1>2, <3>3, <3>4, <3>5, <3>6 DEF RestsOn
  <2> QED
    BY <1>2, <2>1, <2>5, <2>7, <2>8
<1>6. Authorised(d, A)
  BY <1>5 DEF Authorised
<1> QED
  BY <1>1, <1>2, <1>6

LEMMA SelectionInit == Init => SelectionInv
<1> SUFFICES ASSUME Init PROVE SelectionInv
  OBVIOUS
<1>1. applied = <<>> /\ eng = InitEngine /\ out = {}
  BY DEF Init
<1>2. PICK r : ctx = InitContext(r)
  BY DEF Init
<1>3. RowsApplied(applied)
  BY <1>1, EmptySequence DEF RowsApplied
<1>4. EngineFits(eng) /\ eng.lastAt = None
  BY <1>1, EngineInit
<1>5. ContextFits(ctx, applied)
  BY <1>1, <1>2, ContextInit
<1> QED
  BY <1>1, <1>3, <1>4, <1>5 DEF SelectionInv

\* A second starts from the rows and engines the state has.
LEMMA PipeStart ==
    ASSUME SelectionInv, NEW at \in Int, at = now
    PROVE  PipeFits(Pipeline, applied, at)
<1>1. PICK A, p : A = applied /\ p = Pipeline
  OBVIOUS
<1>2. p.eng = eng /\ p.ctx = ctx /\ p.applied = A /\ p.failed = failed
  BY <1>1 DEF Pipeline
<1>3. RowsApplied(A)
  BY <1>1 DEF SelectionInv
<1>4. Len(A) \in Nat
  BY <1>3, SequenceParts DEF RowsApplied
<1>5. Extends(A, A, at)
  BY <1>4 DEF Extends
<1>6. ASSUME ~failed
      PROVE  /\ EngineFits(eng) /\ ContextFits(ctx, A)
             /\ eng.lastAt # None => eng.lastAt <= at
  <2>1. /\ EngineFits(eng) /\ ContextFits(ctx, A)
        /\ eng.lastAt # None => eng.lastAt < now
    BY <1>1, <1>6 DEF SelectionInv
  <2>2. eng.lastAt # None => eng.lastAt \in Int
    BY <2>1 DEF EngineFits
  <2> QED
    BY <2>1, <2>2
<1>7. PipeFits(p, A, at)
  BY <1>2, <1>3, <1>5, <1>6 DEF PipeFits
<1> QED
  BY <1>1, <1>7

LEMMA SelectionReceive ==
    ASSUME CaptureInv, SelectionInv, NEW batch, batch \in IF down THEN {<<>>} ELSE Menus[menu],
           Receive(batch)
    PROVE  SelectionInv'
<1>1. PICK rows, ses, from, at : /\ rows = Sent(batch).rows /\ ses = Len(sessions)
                                 /\ from = Len(Current.env) /\ at = now
  OBVIOUS
<1>2. CapturedRows(rows, ses, from, at)
  BY <1>1, ReceivedRows
<1>3. at \in Int
  BY <1>1 DEF CaptureInv
<1>4. PICK A, live : A = applied /\ live = FoldLeft(PipelineApply, Pipeline, rows)
  OBVIOUS
<1>5. /\ eng' = live.eng /\ ctx' = live.ctx /\ applied' = live.applied
      /\ failed' = live.failed
  BY <1>1, <1>4 DEF Receive
<1>6. now' = now + 1 /\ out' = out
  BY DEF Receive
<1>7. RowsApplied(A)
  BY <1>4 DEF SelectionInv
<1>8. PipeFits(Pipeline, A, at)
  BY <1>1, <1>3, <1>4, PipeStart
<1>9. PipeFits(live, A, at)
  BY <1>2, <1>3, <1>4, <1>7, <1>8, PipeLoop
<1>10. PICK B : B = applied'
  OBVIOUS
<1>11. RowsApplied(B) /\ Extends(A, B, at)
  BY <1>5, <1>9, <1>10 DEF PipeFits
<1>12. ASSUME ~failed'
       PROVE  /\ EngineFits(eng') /\ ContextFits(ctx', B)
              /\ eng'.lastAt # None => eng'.lastAt < now'
  <2>1. /\ EngineFits(live.eng) /\ ContextFits(live.ctx, live.applied)
        /\ live.eng.lastAt # None => live.eng.lastAt <= at
    BY <1>5, <1>9, <1>12 DEF PipeFits
  <2>2. live.eng.lastAt # None => live.eng.lastAt \in Int
    BY <2>1 DEF EngineFits
  <2> QED
    BY <1>1, <1>3, <1>5, <1>6, <1>10, <2>1, <2>2
<1>13. ASSUME NEW d \in out' PROVE d.at \in Int /\ d.at < now' /\ Authorised(d, B)
  <2>1. d.at \in Int /\ d.at < now /\ Authorised(d, A)
    BY <1>4, <1>6, <1>13 DEF SelectionInv
  <2>2. Authorised(d, B)
    BY <1>1, <1>3, <1>7, <1>11, <2>1, AuthorisedMore
  <2> QED
    BY <1>1, <1>3, <1>6, <2>1, <2>2
<1> QED
  BY <1>10, <1>11, <1>12, <1>13, Zenon DEF SelectionInv

LEMMA SelectionDecide == ASSUME CaptureInv, SelectionInv, Decide PROVE SelectionInv'
<1>1. /\ applied' = applied /\ now' = now /\ ~failed /\ ClockDue
      /\ \/ failed' = TRUE /\ out' = out
         \/ \E d, C : Deciding(d, C, NextClock)
  BY DecideCases
<1>2. PICK t : t = NextClock
  OBVIOUS
<1>3. t \in Int /\ now > t /\ now \in Int
  BY <1>1, <1>2, DueIs, NextClockIs DEF CaptureInv
<1>4. /\ RowsApplied(applied) /\ EngineFits(eng) /\ ContextFits(ctx, applied)
      /\ eng.lastAt # None => eng.lastAt < now
      /\ \A d \in out : d.at \in Int /\ d.at < now /\ Authorised(d, applied)
  BY <1>1 DEF SelectionInv
<1>5. CASE failed' = TRUE /\ out' = out
  BY <1>1, <1>4, <1>5 DEF SelectionInv
<1>6. ASSUME NEW d, NEW C, Deciding(d, C, NextClock) PROVE SelectionInv'
  <2>1. Deciding(d, C, t)
    BY <1>2, <1>6
  <2>2. d.at = t /\ Authorised(d, applied)
    BY <1>3, <1>4, <2>1, DecisionAuthorised
  <2>3. /\ eng' = EngineDecided(eng, t) /\ ctx' = ContextDecided(ctx, d.snaps, t)
        /\ out' = out \cup {d}
    BY <2>1 DEF Deciding
  <2>4. EngineFits(eng') /\ eng'.lastAt = eng.lastAt
    BY <1>4, <2>3, DecidedFits
  <2>5. ContextFits(ctx', applied)
    BY <1>4, <2>3, ContextDecidedFits
  <2>6. \A z \in out' : z.at \in Int /\ z.at < now /\ Authorised(z, applied)
    BY <1>3, <1>4, <2>2, <2>3
  <2> QED
    BY <1>1, <1>4, <2>4, <2>5, <2>6 DEF SelectionInv
<1> QED
  BY <1>1, <1>5, <1>6

LEMMA SelectionStep == CaptureInv /\ SelectionInv /\ [Next]_vars => SelectionInv'
<1> SUFFICES ASSUME CaptureInv, SelectionInv, [Next]_vars PROVE SelectionInv'
  OBVIOUS
<1>1. ASSUME UNCHANGED <<now, applied, eng, ctx, out, failed>> PROVE SelectionInv'
  BY <1>1 DEF SelectionInv
<1>2. ASSUME NEW kind, Disconnect(kind) PROVE SelectionInv'
  BY <1>1, <1>2 DEF Disconnect
<1>3. CASE Connect
  BY <1>1, <1>3 DEF Connect
<1>4. CASE Certify
  BY <1>1, <1>4 DEF Certify
<1>5. CASE UNCHANGED vars
  BY <1>1, <1>5 DEF vars
<1> QED
  BY <1>2, <1>3, <1>4, <1>5, SelectionReceive, SelectionDecide DEF Next

\* The latest status of a market at a clock is the one the clock rests on.
LEMMA RestsOnLatest ==
    ASSUME RowsApplied(applied), NEW d, d.at \in Int, NEW k, RestsOn(d, applied, k)
    PROVE  LET tick == LatestStatus(d.at, k)
           IN  /\ tick # None /\ tick.status \in ContextPolicy.tradable
               /\ d.context.declared => tick.ses = applied[d.upto].e.ses
<1>1. PICK A, n : A = applied /\ n = Len(applied)
  OBVIOUS
<1>2. n \in Nat /\ DOMAIN A = 1..n
  BY <1>1, SequenceParts DEF RowsApplied
<1>3. PICK i \in 1..n :
        /\ StatusOf(A[i].e, k) /\ A[i].e.at <= d.at /\ A[i].e # None
        /\ A[i].e.status \in ContextPolicy.tradable
        /\ \A j \in 1..n : j > i /\ StatusOf(A[j].e, k) => A[j].e.at > d.at
        /\ d.context.declared => A[i].e.ses = A[d.upto].e.ses
  BY <1>1 DEF RestsOn
<1>4. PICK ticks : ticks = {j \in DOMAIN A : /\ IsStatusTick(A[j].e) /\ A[j].e.sym = k
                                             /\ A[j].e.at <= d.at}
  OBVIOUS
<1>5. i \in ticks /\ ticks \in SUBSET (1..n)
  BY <1>2, <1>3, <1>4 DEF StatusOf
<1>6. ASSUME NEW j \in ticks PROVE j <= i
  <2>1. j \in 1..n /\ StatusOf(A[j].e, k) /\ A[j].e.at <= d.at
    BY <1>2, <1>4 DEF StatusOf
  <2>2. A[j].e.at \in Int
    BY <1>1, <2>1 DEF RowsApplied, IsRow
  <2> QED
    BY <1>2, <1>3, <2>1, <2>2
<1>7. Max(ticks) = i
  <2>1. Max(ticks) \in ticks /\ \A y \in ticks : Max(ticks) >= y
    BY <1>2, <1>5, MaxOfPlaces
  <2>2. PICK a : a = Max(ticks)
    OBVIOUS
  <2>3. a \in 1..n /\ a >= i /\ a <= i
    BY <1>5, <1>6, <2>1, <2>2
  <2> QED
    BY <1>2, <2>2, <2>3
<1>8. PICK tick : tick = LatestStatus(d.at, k)
  OBVIOUS
<1>9. tick = IF ticks = {} THEN None ELSE A[Max(ticks)].e
  BY <1>1, <1>4, <1>8 DEF LatestStatus
<1>10. tick = A[i].e
  BY <1>5, <1>7, <1>9
<1> QED
  BY <1>1, <1>3, <1>8, <1>10

LEMMA SelectionImplied == SelectionInv => SelectionsAreAuthorised
<1> SUFFICES ASSUME SelectionInv, NEW d \in out, NEW r \in d.results, r.status = "SELECTED"
             PROVE  LET snap == d.snaps[r.cand.sym]
                    IN  /\ snap.reasons = {} /\ session_at(d.at) \in DecisionSessions
                        /\ snap.trade_age <= TradeStale /\ snap.quote_age <= QuoteStale
                        /\ \A k \in Markets :
                             LET tick == LatestStatus(d.at, k)
                             IN  /\ tick # None
                                 /\ tick.status \in ContextPolicy.tradable
                                 /\ d.context.declared => tick.ses = applied[d.upto].e.ses
  BY DEF SelectionsAreAuthorised
<1>1. RowsApplied(applied) /\ d.at \in Int /\ Authorised(d, applied)
  BY DEF SelectionInv
<1>2. Ready(d.snaps[r.cand.sym], d.at) /\ \A k \in Markets : RestsOn(d, applied, k)
  BY <1>1 DEF Authorised
<1>3. \A k \in Markets :
         LET tick == LatestStatus(d.at, k)
         IN  /\ tick # None /\ tick.status \in ContextPolicy.tradable
             /\ d.context.declared => tick.ses = applied[d.upto].e.ses
  BY <1>1, <1>2, RestsOnLatest
<1> QED
  BY <1>2, <1>3 DEF Ready

\* A selection is warm, complete, outside every known gap and rests on a tradable status
\* of every market, under a regime policy one of the stream session in use
\* (features/engine.py snapshots, context/engine.py apply and build, arbitration/engine.py).
THEOREM Selections == Spec => []SelectionsAreAuthorised
<1>1. Init => CaptureInv /\ SelectionInv
  BY CaptureInit, SelectionInit
<1>2. CaptureInv /\ SelectionInv /\ [Next]_vars => (CaptureInv /\ SelectionInv)'
  BY CaptureStep, SelectionStep
<1>3. CaptureInv /\ SelectionInv => SelectionsAreAuthorised
  BY SelectionImplied
<1> QED
  BY <1>1, <1>2, <1>3, PTL DEF Spec

-----------------------------------------------------------------------------
(***************************************************************************)
(* What a symbol's queues list: events at increasing places, all of a set  *)
(* of live ones, and of that set at least those within the longest window. *)
(***************************************************************************)
Longest == Windows[Len(Windows)]

\* Row n + 1 after the rows A.
Grown(A, x, B) == RowsApplied(A) /\ IsRow(x.e) /\ B = Append(A, x)

LEMMA GrownIs ==
    ASSUME NEW A, NEW x, NEW B, Grown(A, x, B)
    PROVE  /\ Len(A) \in Nat /\ Len(B) = Len(A) + 1 /\ B[Len(A) + 1] = x
           /\ \A i \in 1..Len(A) : B[i] = A[i]
           /\ RowsApplied(B)
<1>1. IsSequence(A)
  BY DEF Grown, RowsApplied
<1>2. Len(A) \in Nat
  BY <1>1, SequenceParts
<1>3. Len(B) = Len(A) + 1 /\ B[Len(A) + 1] = x /\ \A i \in 1..Len(A) : B[i] = A[i]
  BY <1>1, AppendSequence DEF Grown
<1>4. RowsApplied(B)
  BY AppliedRow DEF Grown
<1> QED
  BY <1>2, <1>3, <1>4

Enumerates(f, q, A, P, t, whole) ==
    /\ \A j \in 1..Len(q) : /\ f[j] \in P /\ q[j].at = A[f[j]].e.at
                            /\ whole => q[j] = A[f[j]].e
    /\ \A j, k \in 1..Len(q) : j < k => f[j] < f[k]
    /\ \A i \in P : A[i].e.at > t - Longest => \E j \in 1..Len(q) : f[j] = i

Listed(q, A, P, t, whole) == IsSequence(q) /\ \E f : Enumerates(f, q, A, P, t, whole)

LEMMA ListedNone ==
    ASSUME NEW A, NEW t, NEW whole PROVE Listed(<<>>, A, {}, t, whole)
<1>1. IsSequence(<<>>) /\ Len(<<>>) = 0
  BY EmptySequence
<1>2. PICK q, P : q = <<>> /\ P = {}
  OBVIOUS
<1>3. Len(q) = 0
  BY <1>1, <1>2
<1>4. Enumerates(0, q, A, P, t, whole)
  BY <1>2, <1>3 DEF Enumerates
<1> QED
  BY <1>1, <1>2, <1>4 DEF Listed

LEMMA ListedKept ==
    ASSUME NEW A, NEW x, NEW B, Grown(A, x, B), NEW P \in SUBSET (1..Len(A)),
           NEW q, NEW t, NEW whole, Listed(q, A, P, t, whole)
    PROVE  Listed(q, B, P, t, whole)
<1>1. \A i \in P : B[i] = A[i]
  BY GrownIs
<1>2. PICK f : Enumerates(f, q, A, P, t, whole)
  BY DEF Listed
<1>3. Enumerates(f, q, B, P, t, whole)
  BY <1>1, <1>2 DEF Enumerates
<1> QED
  BY <1>3 DEF Listed

LEMMA ListedAppend ==
    ASSUME NEW A, NEW x, NEW B, Grown(A, x, B), NEW P \in SUBSET (1..Len(A)),
           NEW q, NEW t, NEW whole, Listed(q, A, P, t, whole),
           NEW y, y.at = x.e.at, whole => y = x.e
    PROVE  Listed(Append(q, y), B, P \cup {Len(A) + 1}, t, whole)
<1>1. PICK n, z, Q : n = Len(A) /\ z = Append(q, y) /\ Q = P \cup {Len(A) + 1}
  OBVIOUS
<1>2. n \in Nat /\ B[n + 1] = x /\ \A i \in P : B[i] = A[i]
  BY <1>1, GrownIs
<1>3. PICK f : Enumerates(f, q, A, P, t, whole)
  BY DEF Listed
<1>4. IsSequence(q)
  BY DEF Listed
<1>5. PICK m \in Nat : m = Len(q)
  BY <1>4, SequenceParts
<1>6. /\ IsSequence(z) /\ Len(z) = m + 1 /\ z[m + 1] = y /\ \A j \in 1..m : z[j] = q[j]
  BY <1>1, <1>4, <1>5, AppendSequence
<1>7. PICK g : g = [j \in 1..(m + 1) |-> IF j = m + 1 THEN n + 1 ELSE f[j]]
  OBVIOUS
<1>8. /\ g[m + 1] = n + 1 /\ \A j \in 1..m : g[j] = f[j]
      /\ \A j \in 1..(m + 1) : j = m + 1 \/ j \in 1..m
  BY <1>7
<1>9. /\ \A j \in 1..m : /\ f[j] \in P /\ q[j].at = A[f[j]].e.at
                         /\ whole => q[j] = A[f[j]].e
      /\ \A j, k \in 1..m : j < k => f[j] < f[k]
      /\ \A i \in P : A[i].e.at > t - Longest => \E j \in 1..m : f[j] = i
  BY <1>3, <1>5 DEF Enumerates
<1>10. ASSUME NEW j \in 1..(m + 1)
       PROVE  /\ g[j] \in Q /\ z[j].at = B[g[j]].e.at
              /\ whole => z[j] = B[g[j]].e
  <2>1. CASE j = m + 1
    <3>1. PICK h : h = B[g[j]].e
      OBVIOUS
    <3>2. g[j] = n + 1 /\ z[j] = y /\ h = x.e
      BY <1>2, <1>6, <1>8, <2>1, <3>1
    <3>3. z[j].at = h.at /\ (whole => z[j] = h)
      BY <3>2
    <3> QED
      BY <1>1, <3>1, <3>2, <3>3
  <2>2. CASE j \in 1..m
    <3>1. PICK k, h : k = f[j] /\ h = A[k].e
      OBVIOUS
    <3>2. k \in P /\ q[j].at = h.at /\ (whole => q[j] = h)
      BY <1>9, <2>2, <3>1
    <3>3. g[j] = k /\ z[j] = q[j] /\ B[k].e = h
      BY <1>2, <1>6, <1>8, <2>2, <3>1, <3>2
    <3>4. z[j].at = B[g[j]].e.at
      BY <3>2, <3>3
    <3>5. whole => z[j] = B[g[j]].e
      BY <3>2, <3>3
    <3> QED
      BY <1>1, <3>2, <3>3, <3>4, <3>5
  <2> QED
    BY <1>8, <2>1, <2>2
<1>11. ASSUME NEW j \in 1..(m + 1), NEW k \in 1..(m + 1), j < k PROVE g[j] < g[k]
  <2>1. j \in 1..m
    BY <1>11
  <2>2. CASE k = m + 1
    <3>1. f[j] \in 1..n
      BY <1>1, <1>9, <2>1
    <3> QED
      BY <1>2, <1>8, <2>1, <2>2, <3>1
  <2>3. CASE k \in 1..m
    BY <1>8, <1>9, <1>11, <2>1, <2>3
  <2> QED
    BY <1>8, <2>2, <2>3
<1>12. ASSUME NEW i \in Q, B[i].e.at > t - Longest PROVE \E j \in 1..(m + 1) : g[j] = i
  <2>1. CASE i = n + 1
    <3>1. m + 1 \in 1..(m + 1)
      OBVIOUS
    <3> QED
      BY <1>8, <2>1, <3>1
  <2>2. CASE i \in P
    <3>1. PICK j \in 1..m : f[j] = i
      BY <1>2, <1>9, <1>12, <2>2
    <3>2. j \in 1..(m + 1)
      OBVIOUS
    <3> QED
      BY <1>8, <3>1, <3>2
  <2> QED
    BY <1>1, <2>1, <2>2
<1>13. Enumerates(g, z, B, Q, t, whole)
  BY <1>6, <1>10, <1>11, <1>12 DEF Enumerates
<1> QED
  BY <1>1, <1>6, <1>13 DEF Listed

\* Pruning at a time before the clock drops nothing the clock's windows hold.
LEMMA ListedPruned ==
    ASSUME NEW A, NEW P, NEW q, NEW t \in Int, NEW whole, Listed(q, A, P, t, whole),
           \A i \in P : A[i].e.at \in Int, NEW c \in Int, c <= t - Longest, Longest \in Int
    PROVE  Listed(DropOld(q, c), A, P, t, whole)
<1>1. PICK kept, z : kept = {i \in DOMAIN q : q[i].at > c} /\ z = DropOld(q, c)
  OBVIOUS
<1>2. IsSequence(q)
  BY DEF Listed
<1>3. PICK n \in Nat : n = Len(q) /\ DOMAIN q = 1..n
  BY <1>2, SequenceParts
<1>4. PICK f : Enumerates(f, q, A, P, t, whole)
  BY DEF Listed
<1>5. /\ \A j \in 1..n : /\ f[j] \in P /\ q[j].at = A[f[j]].e.at
                         /\ whole => q[j] = A[f[j]].e
      /\ \A j, k \in 1..n : j < k => f[j] < f[k]
      /\ \A i \in P : A[i].e.at > t - Longest => \E j \in 1..n : f[j] = i
  BY <1>3, <1>4 DEF Enumerates
<1>6. z = IF kept = {} THEN <<>>
          ELSE SubSeq(q, CHOOSE i \in kept : \A j \in kept : i <= j, Len(q))
  BY <1>1 DEF DropOld
<1>7. kept \in SUBSET (1..n)
  BY <1>1, <1>3
<1>8. ASSUME NEW i \in P, A[i].e.at > t - Longest PROVE \E j \in kept : f[j] = i
  <2>1. PICK j \in 1..n : f[j] = i
    BY <1>5, <1>8
  <2>2. q[j].at > c
    BY <1>5, <1>8, <2>1
  <2> QED
    BY <1>1, <1>3, <2>1, <2>2
<1>9. CASE kept = {}
  <2>1. z = <<>>
    BY <1>6, <1>9
  <2>2. IsSequence(z) /\ Len(z) = 0
    BY <2>1, EmptySequence
  <2>3. Enumerates(f, z, A, P, t, whole)
    BY <1>8, <1>9, <2>2 DEF Enumerates
  <2> QED
    BY <1>1, <2>2, <2>3 DEF Listed
<1>10. CASE kept # {}
  <2>1. PICK m : m = CHOOSE i \in kept : \A j \in kept : i <= j
    OBVIOUS
  <2>2. m \in kept /\ \A j \in kept : m <= j
    <3>1. PICK a \in kept : \A j \in kept : ~(j < a)
      <4>1. kept \in SUBSET Nat
        BY <1>7
      <4> QED
        BY <1>10, <4>1, FirstOf
    <3>2. \A j \in kept : a <= j
      BY <1>7, <3>1
    <3> QED
      BY <2>1, <3>2
  <2>3. z = SubSeq(q, m, n)
    BY <1>3, <1>6, <1>10, <2>1
  <2>4. m \in 1..n
    BY <1>7, <2>2
  <2>5. PICK k \in Nat : k = n - m + 1
    BY <2>4
  <2>6. /\ IsSequence(z) /\ Len(z) = k /\ \A j \in 1..k : z[j] = q[m + j - 1]
    <3>1. PICK S : q \in Seq(S)
      BY <1>2 DEF IsSequence
    <3>2. \A i \in m..n : q[i] \in S
      BY <1>3, <2>4, <3>1
    <3>3. m \in Int /\ n \in Int
      BY <2>4
    <3>4. /\ z \in Seq(S) /\ Len(z) = IF m <= n THEN n - m + 1 ELSE 0
          /\ \A i \in 1..(n - m + 1) : z[i] = q[m + i - 1]
      BY <2>3, <3>2, <3>3, SubSeqProperties
    <3>5. IsSequence(z)
      BY <3>4 DEF IsSequence
    <3> QED
      BY <2>4, <2>5, <3>4, <3>5
  <2>7. PICK g : g = [j \in 1..k |-> f[m + j - 1]]
    OBVIOUS
  <2>8. ASSUME NEW j \in 1..k
        PROVE  m + j - 1 \in 1..n /\ g[j] = f[m + j - 1] /\ z[j] = q[m + j - 1]
    BY <2>4, <2>5, <2>6, <2>7
  <2>9. ASSUME NEW j \in 1..k
        PROVE  /\ g[j] \in P /\ z[j].at = A[g[j]].e.at
               /\ whole => z[j] = A[g[j]].e
    BY <1>5, <2>8
  <2>10. ASSUME NEW j \in 1..k, NEW i \in 1..k, j < i PROVE g[j] < g[i]
    <3>1. PICK a, b : a = m + j - 1 /\ b = m + i - 1
      OBVIOUS
    <3>2. a \in 1..n /\ b \in 1..n /\ g[j] = f[a] /\ g[i] = f[b]
      BY <2>8, <3>1
    <3>3. a < b
      BY <2>4, <2>10, <3>1
    <3> QED
      BY <1>5, <3>2, <3>3
  <2>11. ASSUME NEW i \in P, A[i].e.at > t - Longest PROVE \E j \in 1..k : g[j] = i
    <3>1. PICK j \in kept : f[j] = i
      BY <1>8, <2>11
    <3>2. j \in 1..n /\ m <= j
      BY <1>7, <2>2, <3>1
    <3>3. PICK a : a = j - m + 1
      OBVIOUS
    <3>4. a \in 1..k /\ m + a - 1 = j
      BY <2>4, <2>5, <3>2, <3>3
    <3>5. g[a] = i
      BY <2>7, <3>1, <3>4
    <3> QED
      BY <3>4, <3>5
  <2>12. Enumerates(g, z, A, P, t, whole)
    BY <2>6, <2>9, <2>10, <2>11 DEF Enumerates
  <2> QED
    BY <1>1, <2>6, <2>12 DEF Listed
<1> QED
  BY <1>9, <1>10

-----------------------------------------------------------------------------
(***************************************************************************)
(* The sessions of a day: an instant between two of one session is of it.  *)
(***************************************************************************)
LEMMA SessionIs ==
    ASSUME NEW t \in Int
    PROVE  session_at(t) = IF t < Schedule.open THEN "pre_open"
                           ELSE IF t < Schedule.openEnd THEN "opening_auction"
                           ELSE IF t < Schedule.amEnd THEN "continuous_am"
                           ELSE IF t < Schedule.pmStart THEN "lunch_break"
                           ELSE IF t < Schedule.pmEnd THEN "continuous_pm"
                           ELSE IF t <= Schedule.close THEN "closing_auction" ELSE "closed"
<1>1. /\ Schedule.open \in Int /\ Schedule.openEnd \in Int /\ Schedule.amEnd \in Int
      /\ Schedule.pmStart \in Int /\ Schedule.pmEnd \in Int /\ Schedule.close \in Int
      /\ Schedule.open < Schedule.openEnd /\ Schedule.openEnd < Schedule.amEnd
      /\ Schedule.amEnd <= Schedule.pmStart /\ Schedule.pmStart < Schedule.pmEnd
      /\ Schedule.pmEnd < Schedule.close
  BY MarketAssumption
<1>2. CASE t < Schedule.open
  <2>1. /\ ~(t >= Schedule.open) /\ ~(t >= Schedule.openEnd) /\ ~(t >= Schedule.amEnd)
        /\ ~(t >= Schedule.pmStart) /\ ~(t >= Schedule.pmEnd)
    BY <1>1, <1>2
  <2>2. session_at(t) = "pre_open"
    BY <1>2, <2>1, Zenon DEF session_at
  <2> QED
    BY <1>2, <2>2
<1>3. CASE ~(t < Schedule.open) /\ t < Schedule.openEnd
  <2>1. /\ t >= Schedule.open /\ ~(t >= Schedule.openEnd) /\ ~(t >= Schedule.amEnd)
        /\ ~(t >= Schedule.pmStart) /\ ~(t >= Schedule.pmEnd)
    BY <1>1, <1>3
  <2>2. session_at(t) = "opening_auction"
    BY <1>3, <2>1, Zenon DEF session_at
  <2> QED
    BY <1>3, <2>2
<1>4. CASE ~(t < Schedule.openEnd) /\ t < Schedule.amEnd
  <2>1. /\ ~(t < Schedule.open) /\ t >= Schedule.openEnd /\ ~(t >= Schedule.amEnd)
        /\ ~(t >= Schedule.pmStart) /\ ~(t >= Schedule.pmEnd)
    BY <1>1, <1>4
  <2>2. session_at(t) = "continuous_am"
    BY <1>4, <2>1, Zenon DEF session_at
  <2> QED
    BY <1>4, <2>1, <2>2
<1>5. CASE ~(t < Schedule.amEnd) /\ t < Schedule.pmStart
  <2>1. /\ ~(t < Schedule.open) /\ ~(t < Schedule.openEnd) /\ t >= Schedule.amEnd
        /\ ~(t >= Schedule.pmStart) /\ ~(t >= Schedule.pmEnd)
    BY <1>1, <1>5
  <2>2. session_at(t) = "lunch_break"
    BY <1>5, <2>1, Zenon DEF session_at
  <2> QED
    BY <1>5, <2>1, <2>2
<1>6. CASE ~(t < Schedule.pmStart) /\ t < Schedule.pmEnd
  <2>1. /\ ~(t < Schedule.open) /\ ~(t < Schedule.openEnd) /\ ~(t < Schedule.amEnd)
        /\ t >= Schedule.pmStart /\ ~(t >= Schedule.pmEnd)
    BY <1>1, <1>6
  <2>2. session_at(t) = "continuous_pm"
    BY <1>6, <2>1, Zenon DEF session_at
  <2> QED
    BY <1>6, <2>1, <2>2
<1>7. CASE ~(t < Schedule.pmEnd) /\ t <= Schedule.close
  <2>1. /\ ~(t < Schedule.open) /\ ~(t < Schedule.openEnd) /\ ~(t < Schedule.amEnd)
        /\ ~(t < Schedule.pmStart) /\ t >= Schedule.pmEnd
    BY <1>1, <1>7
  <2>2. session_at(t) = "closing_auction"
    BY <1>7, <2>1, Zenon DEF session_at
  <2> QED
    BY <1>7, <2>1, <2>2
<1>8. CASE ~(t <= Schedule.close)
  <2>1. /\ ~(t < Schedule.open) /\ ~(t < Schedule.openEnd) /\ ~(t < Schedule.amEnd)
        /\ ~(t < Schedule.pmStart) /\ ~(t < Schedule.pmEnd)
    BY <1>1, <1>8
  <2>2. session_at(t) = "closed"
    BY <1>8, <2>1, Zenon DEF session_at
  <2> QED
    BY <1>8, <2>1, <2>2
<1> QED
  BY <1>2, <1>3, <1>4, <1>5, <1>6, <1>7, <1>8

LEMMA SessionBetween ==
    ASSUME NEW a \in Int, NEW b \in Int, NEW c \in Int, a <= b, b <= c,
           session_at(a) = session_at(c)
    PROVE  session_at(b) = session_at(a)
<1>1. /\ Schedule.open \in Int /\ Schedule.openEnd \in Int /\ Schedule.amEnd \in Int
      /\ Schedule.pmStart \in Int /\ Schedule.pmEnd \in Int /\ Schedule.close \in Int
      /\ Schedule.open < Schedule.openEnd /\ Schedule.openEnd < Schedule.amEnd
      /\ Schedule.amEnd <= Schedule.pmStart /\ Schedule.pmStart < Schedule.pmEnd
      /\ Schedule.pmEnd < Schedule.close
  BY MarketAssumption
<1>2. PICK x, y, z : x = session_at(a) /\ y = session_at(b) /\ z = session_at(c)
  OBVIOUS
<1>3. x = IF a < Schedule.open THEN "pre_open" ELSE IF a < Schedule.openEnd THEN "opening_auction"
          ELSE IF a < Schedule.amEnd THEN "continuous_am"
          ELSE IF a < Schedule.pmStart THEN "lunch_break"
          ELSE IF a < Schedule.pmEnd THEN "continuous_pm"
          ELSE IF a <= Schedule.close THEN "closing_auction" ELSE "closed"
  BY <1>2, SessionIs
<1>4. y = IF b < Schedule.open THEN "pre_open" ELSE IF b < Schedule.openEnd THEN "opening_auction"
          ELSE IF b < Schedule.amEnd THEN "continuous_am"
          ELSE IF b < Schedule.pmStart THEN "lunch_break"
          ELSE IF b < Schedule.pmEnd THEN "continuous_pm"
          ELSE IF b <= Schedule.close THEN "closing_auction" ELSE "closed"
  BY <1>2, SessionIs
<1>5. z = IF c < Schedule.open THEN "pre_open" ELSE IF c < Schedule.openEnd THEN "opening_auction"
          ELSE IF c < Schedule.amEnd THEN "continuous_am"
          ELSE IF c < Schedule.pmStart THEN "lunch_break"
          ELSE IF c < Schedule.pmEnd THEN "continuous_pm"
          ELSE IF c <= Schedule.close THEN "closing_auction" ELSE "closed"
  BY <1>2, SessionIs
<1>6. x = z
  BY <1>2
<1>7. y = x
  BY <1>1, <1>3, <1>4, <1>5, <1>6, SMTT(60)
<1> QED
  BY <1>2, <1>7

-----------------------------------------------------------------------------
(***************************************************************************)
(* What the queues of a symbol are to list: of the live events L, the      *)
(* trades, the changes from one complete quote to the next, and the last   *)
(* quote.                                                                  *)
(***************************************************************************)
OfKind(A, L, kind) == {i \in L : A[i].kind = kind}

QuotesTo(A, L, i) == {k \in L : k < i /\ A[k].kind = "quote"}

Changes(A, L) ==
    {i \in L : /\ A[i].kind = "quote" /\ is_complete(A[i].e) /\ QuotesTo(A, L, i) # {}
               /\ is_complete(A[Max(QuotesTo(A, L, i))].e)}

LastQuote(A, L) ==
    IF OfKind(A, L, "quote") = {} THEN None ELSE A[Max(OfKind(A, L, "quote"))].e

\* A quote that completes a change of the book.
ChangeTo(q, x) == x.kind = "quote" /\ q # None /\ is_complete(q) /\ is_complete(x.e)

Lists(f, A, L, t) ==
    /\ IsFeatures(f) /\ f.quote = LastQuote(A, L)
    /\ Listed(f.trades, A, OfKind(A, L, "trade"), t, TRUE)
    /\ Listed(f.flows, A, Changes(A, L), t, FALSE)

LEMMA LastQuoteIs ==
    ASSUME NEW A, RowsApplied(A), NEW L \in SUBSET (1..Len(A))
    PROVE  IF OfKind(A, L, "quote") = {} THEN LastQuote(A, L) = None
           ELSE /\ Max(OfKind(A, L, "quote")) \in L /\ LastQuote(A, L) # None
                /\ LastQuote(A, L) = A[Max(OfKind(A, L, "quote"))].e
<1>1. PICK n \in Nat : n = Len(A)
  BY SequenceParts DEF RowsApplied
<1>2. PICK Q : Q = OfKind(A, L, "quote")
  OBVIOUS
<1>3. Q \in SUBSET (1..n) /\ Q \in SUBSET L
  BY <1>1, <1>2 DEF OfKind
<1>4. CASE Q = {}
  BY <1>2, <1>4 DEF LastQuote
<1>5. CASE Q # {}
  <2>1. PICK m : m = Max(Q)
    OBVIOUS
  <2>2. m \in Q
    BY <1>3, <1>5, <2>1, MaxOfPlaces
  <2>3. IsRow(A[m].e)
    BY <1>1, <1>3, <2>2 DEF RowsApplied
  <2>4. A[m].e # None
    BY <2>3 DEF IsRow
  <2>5. LastQuote(A, L) = A[m].e
    BY <1>2, <1>5, <2>1 DEF LastQuote
  <2> QED
    BY <1>2, <1>3, <1>5, <2>1, <2>2, <2>4, <2>5
<1> QED
  BY <1>4, <1>5

LEMMA SameKinds ==
    ASSUME NEW A, NEW x, NEW B, Grown(A, x, B), NEW L \in SUBSET (1..Len(A))
    PROVE  /\ \A kind : OfKind(B, L, kind) = OfKind(A, L, kind)
           /\ \A i : QuotesTo(B, L, i) = QuotesTo(A, L, i)
           /\ Changes(B, L) = Changes(A, L) /\ LastQuote(B, L) = LastQuote(A, L)
<1>1. \A i \in L : B[i] = A[i]
  BY GrownIs
<1>2. \A kind : OfKind(B, L, kind) = OfKind(A, L, kind)
  BY <1>1 DEF OfKind
<1>3. \A i : QuotesTo(B, L, i) = QuotesTo(A, L, i)
  BY <1>1 DEF QuotesTo
<1>4. ASSUME NEW i \in L, QuotesTo(A, L, i) # {} PROVE Max(QuotesTo(A, L, i)) \in L
  <2>1. PICK n \in Nat : n = Len(A)
    BY GrownIs
  <2>2. QuotesTo(A, L, i) \in SUBSET (1..n) /\ QuotesTo(A, L, i) \in SUBSET L
    BY <2>1 DEF QuotesTo
  <2> QED
    BY <1>4, <2>2, MaxOfPlaces
<1>5. Changes(B, L) = Changes(A, L)
  <2>1. ASSUME NEW i \in L PROVE i \in Changes(B, L) <=> i \in Changes(A, L)
    <3>1. PICK Q : Q = QuotesTo(A, L, i)
      OBVIOUS
    <3>2. QuotesTo(B, L, i) = Q /\ B[i] = A[i] /\ (Q # {} => B[Max(Q)] = A[Max(Q)])
      BY <1>1, <1>3, <1>4, <3>1
    <3> QED
      BY <3>1, <3>2 DEF Changes
  <2>2. Changes(A, L) \in SUBSET L /\ Changes(B, L) \in SUBSET L
    BY DEF Changes
  <2> QED
    BY <2>1, <2>2
<1>6. LastQuote(B, L) = LastQuote(A, L)
  <2>1. PICK Q : Q = OfKind(A, L, "quote")
    OBVIOUS
  <2>2. OfKind(B, L, "quote") = Q
    BY <1>2, <2>1
  <2>3. RowsApplied(A) /\ Q # {} => Max(Q) \in L
    BY <2>1, LastQuoteIs DEF Grown
  <2>4. Q # {} => B[Max(Q)] = A[Max(Q)]
    BY <1>1, <2>3 DEF Grown
  <2> QED
    BY <2>1, <2>2, <2>4 DEF LastQuote
<1> QED
  BY <1>2, <1>3, <1>5, <1>6

\* One more live event, after all of L.
KindsAfter(A, L, x, B, M, n) ==
    /\ \A kind : OfKind(B, M, kind) = OfKind(A, L, kind) \cup (IF x.kind = kind THEN {n} ELSE {})
    /\ Changes(B, M) = Changes(A, L) \cup (IF ChangeTo(LastQuote(A, L), x) THEN {n} ELSE {})
    /\ LastQuote(B, M) = (IF x.kind = "quote" THEN x.e ELSE LastQuote(A, L))

LEMMA KindsAdd ==
    ASSUME NEW A, NEW x, NEW B, Grown(A, x, B), NEW L \in SUBSET (1..Len(A))
    PROVE  KindsAfter(A, L, x, B, L \cup {Len(A) + 1}, Len(A) + 1)
<1> SUFFICES ASSUME NEW n, n = Len(A) + 1, NEW M, M = L \cup {n}
             PROVE  KindsAfter(A, L, x, B, M, n)
  OBVIOUS
<1>1. /\ n \in Nat /\ n >= 1 /\ B[n] = x /\ L \in SUBSET (1..(n - 1)) /\ n \notin L
      /\ \A i \in L : B[i] = A[i]
  BY GrownIs
<1>2. RowsApplied(A) /\ n - 1 = Len(A) /\ n - 1 \in Nat
  BY <1>1 DEF Grown
<1>3. \A kind : OfKind(B, M, kind) = OfKind(A, L, kind) \cup (IF x.kind = kind THEN {n} ELSE {})
  BY <1>1 DEF OfKind
<1>4. ASSUME NEW i \in L PROVE QuotesTo(B, M, i) = QuotesTo(A, L, i)
  <2>1. ~(n < i)
    BY <1>1
  <2> QED
    BY <1>1, <2>1 DEF QuotesTo
<1>5. QuotesTo(B, M, n) = OfKind(A, L, "quote")
  <2>1. ASSUME NEW k PROVE (k \in M /\ k < n) <=> k \in L
    <3>1. k \in L => k < n
      BY <1>1
    <3>2. ~(n < n)
      BY <1>1
    <3>3. k \in M <=> (k \in L \/ k = n)
      OBVIOUS
    <3> QED
      BY <3>1, <3>2, <3>3
  <2>2. ASSUME NEW k \in L PROVE B[k] = A[k]
    BY <1>1
  <2>3. ASSUME NEW k PROVE k \in QuotesTo(B, M, n) <=> k \in OfKind(A, L, "quote")
    <3>1. k \in QuotesTo(B, M, n) <=> (k \in M /\ k < n) /\ B[k].kind = "quote"
      BY ZenonT(30) DEF QuotesTo
    <3>2. k \in OfKind(A, L, "quote") <=> k \in L /\ A[k].kind = "quote"
      BY ZenonT(30) DEF OfKind
    <3>3. k \in L => (B[k].kind = "quote" <=> A[k].kind = "quote")
      BY <2>2
    <3> QED
      BY <2>1, <3>1, <3>2, <3>3
  <2> QED
    BY <2>3 DEF QuotesTo, OfKind
<1>6. PICK Q : Q = OfKind(A, L, "quote")
  OBVIOUS
<1>7. IF Q = {} THEN LastQuote(A, L) = None
      ELSE /\ Max(Q) \in L /\ LastQuote(A, L) # None /\ LastQuote(A, L) = A[Max(Q)].e
  BY <1>2, <1>6, LastQuoteIs
<1>8. ASSUME NEW i \in L PROVE i \in Changes(B, M) <=> i \in Changes(A, L)
  <2>1. PICK P : P = QuotesTo(A, L, i)
    OBVIOUS
  <2>2. P # {} => Max(P) \in L
    <3>1. P \in SUBSET (1..(n - 1)) /\ P \in SUBSET L
      BY <1>1, <2>1 DEF QuotesTo
    <3> QED
      BY <1>2, <3>1, MaxOfPlaces
  <2>3. QuotesTo(B, M, i) = P /\ B[i] = A[i] /\ (P # {} => B[Max(P)] = A[Max(P)])
    BY <1>1, <1>4, <2>1, <2>2
  <2>4. i \in M
    OBVIOUS
  <2> QED
    BY <2>1, <2>3, <2>4 DEF Changes
<1>9. n \in Changes(B, M) <=> ChangeTo(LastQuote(A, L), x)
  <2>1. PICK q : q = LastQuote(A, L)
    OBVIOUS
  <2>2. n \in Changes(B, M) <=> /\ x.kind = "quote" /\ is_complete(x.e) /\ Q # {}
                                /\ is_complete(B[Max(Q)].e)
    BY <1>1, <1>5, <1>6 DEF Changes
  <2>3. Q # {} => B[Max(Q)].e = q /\ q # None
    BY <1>1, <1>7, <2>1
  <2>4. Q = {} => q = None
    BY <1>7, <2>1
  <2> QED
    BY <2>1, <2>2, <2>3, <2>4 DEF ChangeTo
<1>10. Changes(B, M) = Changes(A, L) \cup (IF ChangeTo(LastQuote(A, L), x) THEN {n} ELSE {})
  <2>1. Changes(A, L) \in SUBSET L /\ Changes(B, M) \in SUBSET M
    BY DEF Changes
  <2> QED
    BY <1>1, <1>8, <1>9, <2>1
<1>11. LastQuote(B, M) = (IF x.kind = "quote" THEN x.e ELSE LastQuote(A, L))
  <2>1. CASE x.kind = "quote"
    <3>1. OfKind(B, M, "quote") = Q \cup {n}
      BY <1>3, <1>6, <2>1
    <3>2. Q \in SUBSET (1..(n - 1))
      BY <1>1, <1>6 DEF OfKind
    <3>3. Max(Q \cup {n}) = n
      BY <1>1, <3>2, PlacesAdd
    <3> QED
      BY <1>1, <2>1, <3>1, <3>3 DEF LastQuote
  <2>2. CASE x.kind # "quote"
    <3>1. OfKind(B, M, "quote") = Q
      BY <1>3, <1>6, <2>2
    <3>2. Q # {} => B[Max(Q)] = A[Max(Q)]
      BY <1>1, <1>7
    <3> QED
      BY <1>6, <2>2, <3>1, <3>2 DEF LastQuote
  <2> QED
    BY <2>1, <2>2
<1> QED
  BY <1>3, <1>10, <1>11 DEF KindsAfter

LEMMA LongestIs == Longest \in Int /\ \A i \in DOMAIN Windows : Windows[i] \in Int /\ Windows[i] <= Longest
<1>1. PICK n : n = Len(Windows)
  OBVIOUS
<1>2. /\ n \in Nat \ {0} /\ DOMAIN Windows = 1..n
      /\ \A i, k \in DOMAIN Windows : Windows[i] \in Nat \ {0} /\ (i < k => Windows[i] < Windows[k])
  BY <1>1, FeatureAssumption
<1>3. n \in DOMAIN Windows /\ Longest = Windows[n]
  BY <1>1, <1>2 DEF Longest
<1>4. ASSUME NEW i \in DOMAIN Windows PROVE Windows[i] \in Int /\ Windows[i] <= Windows[n]
  <2>1. Windows[i] \in Int /\ Windows[n] \in Int
    BY <1>2, <1>3
  <2>2. i = n \/ i < n
    BY <1>2
  <2>3. i < n => Windows[i] < Windows[n]
    BY <1>2, <1>3
  <2> QED
    BY <2>1, <2>2, <2>3
<1>5. Windows[n] \in Int
  BY <1>2, <1>3
<1> QED
  BY <1>3, <1>4, <1>5

LEMMA ListsNothing ==
    ASSUME NEW f, IsFeatures(f), f.quote = None, f.trades = <<>>, f.flows = <<>>, NEW A, NEW t
    PROVE  Lists(f, A, {}, t)
<1>1. OfKind(A, {}, "trade") = {} /\ OfKind(A, {}, "quote") = {} /\ Changes(A, {}) = {}
  BY DEF OfKind, Changes
<1>2. f.quote = LastQuote(A, {})
  BY <1>1 DEF LastQuote
<1>3. /\ Listed(f.trades, A, OfKind(A, {}, "trade"), t, TRUE)
      /\ Listed(f.flows, A, Changes(A, {}), t, FALSE)
  BY <1>1, ListedNone
<1> QED
  BY <1>2, <1>3 DEF Lists

LEMMA ListsKept ==
    ASSUME NEW A, NEW x, NEW B, Grown(A, x, B), NEW L \in SUBSET (1..Len(A)),
           NEW f, NEW t, Lists(f, A, L, t)
    PROVE  Lists(f, B, L, t)
<1>1. PICK P, C : P = OfKind(A, L, "trade") /\ C = Changes(A, L)
  OBVIOUS
<1>2. P \in SUBSET (1..Len(A)) /\ C \in SUBSET (1..Len(A))
  BY <1>1 DEF OfKind, Changes
<1>3. /\ OfKind(B, L, "trade") = P /\ Changes(B, L) = C /\ LastQuote(B, L) = LastQuote(A, L)
  BY <1>1, SameKinds
<1>4. /\ IsFeatures(f) /\ f.quote = LastQuote(A, L)
      /\ Listed(f.trades, A, P, t, TRUE) /\ Listed(f.flows, A, C, t, FALSE)
  BY <1>1 DEF Lists
<1>5. Listed(f.trades, B, P, t, TRUE) /\ Listed(f.flows, B, C, t, FALSE)
  BY <1>2, <1>4, ListedKept
<1> QED
  BY <1>3, <1>4, <1>5 DEF Lists

Places(A, L) == RowsApplied(A) /\ L \in SUBSET (1..Len(A))

UpToClock(c, t) == c \in Int /\ t \in Int /\ c <= t

LEMMA ListsPruned ==
    ASSUME NEW A, NEW L, Places(A, L), NEW t, NEW f, Lists(f, A, L, t), NEW c, UpToClock(c, t)
    PROVE  Lists(_prune(f, c), A, L, t) /\ _prune(f, c).session = f.session
<1> USE DEF Places, UpToClock
<1>1. PICK P, C, a, b, h : /\ P = OfKind(A, L, "trade") /\ C = Changes(A, L) /\ h = _prune(f, c)
                           /\ a = DropOld(f.trades, c - Longest) /\ b = DropOld(f.flows, c - Longest)
  OBVIOUS
<1>2. /\ IsFeatures(f) /\ f.quote = LastQuote(A, L)
      /\ Listed(f.trades, A, P, t, TRUE) /\ Listed(f.flows, A, C, t, FALSE)
  BY <1>1 DEF Lists
<1>3. h = [session |-> f.session, from |-> f.from, trade |-> f.trade, quote |-> f.quote,
           trades |-> a, flows |-> b]
  BY <1>1, <1>2, PruneIs DEF Longest
<1>4. P \in SUBSET (1..Len(A)) /\ C \in SUBSET (1..Len(A))
  BY <1>1 DEF OfKind, Changes
<1>5. \A i \in 1..Len(A) : A[i].e.at \in Int
  BY DEF RowsApplied, IsRow
<1>6. Longest \in Int
  BY LongestIs
<1>7. PICK cut : cut = c - Longest
  OBVIOUS
<1>8. cut \in Int /\ cut <= t - Longest
  BY <1>6, <1>7
<1>9. \A i \in P : A[i].e.at \in Int
  BY <1>4, <1>5
<1>10. Listed(DropOld(f.trades, cut), A, P, t, TRUE)
  BY <1>2, <1>6, <1>8, <1>9, ListedPruned
<1>11. \A i \in C : A[i].e.at \in Int
  BY <1>4, <1>5
<1>12. Listed(DropOld(f.flows, cut), A, C, t, FALSE)
  BY <1>2, <1>6, <1>8, <1>11, ListedPruned
<1>13. Listed(a, A, P, t, TRUE) /\ Listed(b, A, C, t, FALSE)
  BY <1>1, <1>7, <1>10, <1>12
<1>14. /\ IsFeatures(h) /\ h.quote = f.quote /\ h.trades = a /\ h.flows = b
       /\ h.session = f.session
  BY <1>3 DEF IsFeatures
<1>15. Lists(h, A, L, t)
  BY <1>1, <1>2, <1>13, <1>14 DEF Lists
<1> QED
  BY <1>1, <1>14, <1>15

\* _observe lists the event it takes, in the market session of the event.
LEMMA ListsTaken ==
    ASSUME NEW A, NEW x, NEW B, Grown(A, x, B), NEW L \in SUBSET (1..Len(A)),
           NEW n, n = Len(A) + 1, NEW t \in Int, x.e.at <= t,
           x.kind \in {"trade", "quote", "auction"}, NEW f, IsFeatures(f),
           Lists(InSession(f, session_at(x.e.et)), A, L, t)
    PROVE  /\ Lists(_observe(f, x.e, x.kind), B, L \cup {n}, t)
           /\ _observe(f, x.e, x.kind).session = session_at(x.e.et)
<1>1. PICK e, kind, g, M, q, o :
         /\ e = x.e /\ kind = x.kind /\ g = InSession(f, session_at(e.et))
         /\ M = L \cup {n} /\ q = LastQuote(A, L) /\ o = _observe(f, e, kind)
  OBVIOUS
<1>2. PICK P, C : P = OfKind(A, L, "trade") /\ C = Changes(A, L)
  OBVIOUS
<1>3. /\ Lists(g, A, L, t) /\ g.session = session_at(e.et) /\ kind \in {"trade", "quote", "auction"}
      /\ e.at <= t
  BY <1>1, InSessionIs
<1>4. /\ IsFeatures(g) /\ g.quote = q /\ Listed(g.trades, A, P, t, TRUE)
      /\ Listed(g.flows, A, C, t, FALSE)
  BY <1>1, <1>2, <1>3 DEF Lists
<1>5. P \in SUBSET (1..Len(A)) /\ C \in SUBSET (1..Len(A))
  BY <1>2 DEF OfKind, Changes
<1>6. /\ OfKind(B, M, "trade") = P \cup (IF kind = "trade" THEN {n} ELSE {})
      /\ Changes(B, M) = C \cup (IF ChangeTo(q, x) THEN {n} ELSE {})
      /\ LastQuote(B, M) = (IF kind = "quote" THEN e ELSE q)
  <2>1. KindsAfter(A, L, x, B, L \cup {Len(A) + 1}, Len(A) + 1)
    BY KindsAdd
  <2>2. KindsAfter(A, L, x, B, M, n)
    BY <1>1, <2>1
  <2> QED
    BY <1>1, <1>2, <2>2 DEF KindsAfter
<1>7. Listed(g.trades, B, P, t, TRUE) /\ Listed(g.flows, B, C, t, FALSE)
  BY <1>4, <1>5, ListedKept
<1>8. Places(B, M) /\ e.at \in Int
  <2>1. RowsApplied(B) /\ Len(B) = Len(A) + 1 /\ Len(A) \in Nat
    BY GrownIs
  <2>2. e.at \in Int
    BY <1>1 DEF Grown, IsRow
  <2>3. PICK m \in Nat : m = Len(A)
    BY <2>1
  <2>4. L \in SUBSET (1..m) /\ n = m + 1
    BY <2>3
  <2>5. M = L \cup {m + 1}
    BY <1>1, <2>4
  <2>6. M \in SUBSET (1..(m + 1))
    BY <2>4, <2>5
  <2> QED
    BY <2>1, <2>2, <2>3, <2>6 DEF Places
<1>9. ASSUME NEW k, Lists(k, B, M, t)
       PROVE  Lists(_prune(k, e.at), B, M, t) /\ _prune(k, e.at).session = k.session
  <2>1. UpToClock(e.at, t)
    BY <1>3, <1>8 DEF UpToClock
  <2> QED
    BY <1>8, <1>9, <2>1, ListsPruned
<1>10. PICK h : h = [g EXCEPT !.from = IF @ = None THEN e.at ELSE @]
  OBVIOUS
<1>11. /\ IsFeatures(h) /\ h.session = g.session /\ h.trade = g.trade /\ h.quote = g.quote
       /\ h.trades = g.trades /\ h.flows = g.flows
  BY <1>4, <1>10 DEF IsFeatures
<1>12. CASE kind = "trade"
  <2>1. PICK k, new : k = [h EXCEPT !.trade = e, !.trades = Append(@, e)] /\ new = Append(g.trades, e)
    OBVIOUS
  <2>2. o = _prune(k, e.at)
    BY <1>1, <1>10, <1>12, <2>1, Zenon DEF _observe
  <2>3. k = [session |-> h.session, from |-> h.from, trade |-> e, quote |-> h.quote,
             trades |-> new, flows |-> h.flows]
    BY <1>11, <2>1 DEF IsFeatures
  <2>4. /\ IsFeatures(k) /\ k.session = g.session /\ k.quote = q /\ k.trades = new
        /\ k.flows = g.flows
    BY <1>4, <1>11, <2>3 DEF IsFeatures
  <2>5. Listed(Append(g.trades, e), B, P \cup {Len(A) + 1}, t, TRUE)
    BY <1>1, <1>4, <1>5, ListedAppend
  <2>6. ~ChangeTo(q, x)
    BY <1>1, <1>12 DEF ChangeTo
  <2>7. OfKind(B, M, "trade") = P \cup {n} /\ Changes(B, M) = C /\ LastQuote(B, M) = q
    BY <1>6, <1>12, <2>6
  <2>8. Listed(k.trades, B, OfKind(B, M, "trade"), t, TRUE)
    BY <2>1, <2>4, <2>5, <2>7
  <2>9. Listed(k.flows, B, Changes(B, M), t, FALSE)
    BY <1>7, <2>4, <2>7
  <2>10. Lists(k, B, M, t)
    BY <2>4, <2>7, <2>8, <2>9 DEF Lists
  <2>11. Lists(o, B, M, t) /\ o.session = k.session
    BY <1>9, <2>2, <2>10
  <2> QED
    BY <1>1, <1>3, <2>4, <2>11
<1>13. CASE kind = "quote"
  <2>1. PICK y : y = [at |-> e.at, flow |-> level_one_book_flow(g.quote, e)]
    OBVIOUS
  <2>2. PICK z : z = IF ChangeTo(q, x) THEN Append(g.flows, y) ELSE g.flows
    OBVIOUS
  <2>3. PICK k : k = [h EXCEPT !.quote = e, !.flows = z]
    OBVIOUS
  <2>4. z = IF g.quote # None /\ is_complete(g.quote) /\ is_complete(e)
            THEN Append(h.flows, y) ELSE h.flows
    BY <1>1, <1>4, <1>11, <1>13, <2>2 DEF ChangeTo
  <2>5. k = [h EXCEPT !.quote = e,
                      !.flows = IF g.quote # None /\ is_complete(g.quote) /\ is_complete(e)
                                THEN Append(@, [at |-> e.at,
                                                flow |-> level_one_book_flow(g.quote, e)])
                                ELSE @]
    BY <1>11, <2>1, <2>3, <2>4 DEF IsFeatures
  <2>6. o = _prune(k, e.at)
    BY <1>1, <1>10, <1>13, <2>5, Zenon DEF _observe
  <2>7. k = [session |-> h.session, from |-> h.from, trade |-> h.trade, quote |-> e,
             trades |-> h.trades, flows |-> z]
    BY <1>11, <2>3 DEF IsFeatures
  <2>8. /\ IsFeatures(k) /\ k.session = g.session /\ k.quote = e /\ k.trades = g.trades
        /\ k.flows = z
    BY <1>11, <2>7 DEF IsFeatures
  <2>9. OfKind(B, M, "trade") = P /\ LastQuote(B, M) = e
    BY <1>6, <1>13
  <2>10. y.at = x.e.at
    BY <1>1, <2>1
  <2>11. Listed(Append(g.flows, y), B, C \cup {Len(A) + 1}, t, FALSE)
    BY <1>4, <1>5, <2>10, ListedAppend
  <2>12. Listed(z, B, Changes(B, M), t, FALSE)
    <3>1. CASE ChangeTo(q, x)
      <4>1. z = Append(g.flows, y) /\ Changes(B, M) = C \cup {n}
        BY <1>6, <2>2, <3>1
      <4> QED
        BY <2>11, <4>1
    <3>2. CASE ~ChangeTo(q, x)
      <4>1. z = g.flows /\ Changes(B, M) = C
        BY <1>6, <2>2, <3>2
      <4> QED
        BY <1>7, <4>1
    <3> QED
      BY <3>1, <3>2
  <2>13. Listed(k.trades, B, OfKind(B, M, "trade"), t, TRUE)
    BY <1>7, <2>8, <2>9
  <2>14. Lists(k, B, M, t)
    BY <2>8, <2>9, <2>12, <2>13 DEF Lists
  <2>15. Lists(o, B, M, t) /\ o.session = k.session
    BY <1>9, <2>6, <2>14
  <2> QED
    BY <1>1, <1>3, <2>8, <2>15
<1>14. CASE kind = "auction"
  <2>1. o = g
    BY <1>1, <1>14, Zenon DEF _observe
  <2>2. ~ChangeTo(q, x)
    BY <1>1, <1>14 DEF ChangeTo
  <2>3. OfKind(B, M, "trade") = P /\ Changes(B, M) = C /\ LastQuote(B, M) = q
    BY <1>6, <1>14, <2>2
  <2>4. Lists(g, B, M, t)
    BY <1>4, <1>7, <2>3 DEF Lists
  <2> QED
    BY <1>1, <1>3, <2>1, <2>4
<1> QED
  BY <1>3, <1>12, <1>13, <1>14

-----------------------------------------------------------------------------
(***************************************************************************)
(* The live events of a symbol for a market session: those since the last  *)
(* accepted event of another stream session or market session.             *)
(***************************************************************************)
Accepted(x, s) == x.kind # "none" /\ x.e.sym = s

Live(A, s, session) ==
    {i \in 1..Len(A) :
        /\ Accepted(A[i], s)
        /\ \A k \in 1..Len(A) : Accepted(A[k], s) /\ k >= i =>
              A[k].e.ses = A[Len(A)].e.ses /\ session_at(A[k].e.et) = session}

\* Every stream session is later than those before it.
InTurn(A, ses) ==
    /\ \A i \in 1..Len(A) : A[i].e.ses <= A[Len(A)].e.ses
    /\ Len(A) > 0 => A[Len(A)].e.ses <= ses

Switches(A, ses) == Len(A) > 0 /\ ses # A[Len(A)].e.ses

Remain(A, s, session, ses) == IF Switches(A, ses) THEN {} ELSE Live(A, s, session)

LEMMA LiveAfter ==
    ASSUME NEW A, NEW x, NEW B, Grown(A, x, B), InTurn(A, x.e.ses), NEW s, NEW session
    PROVE  Live(B, s, session) =
              IF ~Accepted(x, s) THEN Remain(A, s, session, x.e.ses)
              ELSE IF session_at(x.e.et) = session
              THEN Remain(A, s, session, x.e.ses) \cup {Len(A) + 1} ELSE {}
<1>1. PICK n \in Nat : n = Len(A)
  BY GrownIs
<1>2. Len(B) = n + 1 /\ B[n + 1] = x /\ \A i \in 1..n : B[i] = A[i]
  BY <1>1, GrownIs
<1>3. PICK R, L, ses : R = Remain(A, s, session, ses) /\ L = Live(B, s, session) /\ ses = x.e.ses
  OBVIOUS
<1>4. \A i \in 1..n : A[i].e.ses \in Int
  BY <1>1 DEF Grown, RowsApplied, IsRow
<1>5. ses \in Int
  BY <1>3 DEF Grown, IsRow
<1>6. \A i \in 1..(n + 1) : i = n + 1 \/ i \in 1..n
  OBVIOUS
<1>7. L = {i \in 1..(n + 1) :
             /\ Accepted(B[i], s)
             /\ \A k \in 1..(n + 1) : Accepted(B[k], s) /\ k >= i =>
                   B[k].e.ses = ses /\ session_at(B[k].e.et) = session}
  BY <1>2, <1>3 DEF Live
<1>8. R \in SUBSET (1..n)
  BY <1>1, <1>3 DEF Remain, Live
<1>9. ASSUME NEW i \in 1..n
      PROVE  i \in R <=> /\ Accepted(A[i], s)
                         /\ \A k \in 1..n : Accepted(A[k], s) /\ k >= i =>
                               A[k].e.ses = ses /\ session_at(A[k].e.et) = session
  <2>1. CASE Switches(A, ses)
    <3>1. R = {}
      BY <1>3, <2>1 DEF Remain
    <3>2. A[i].e.ses <= A[n].e.ses /\ A[n].e.ses <= ses /\ ses # A[n].e.ses
      BY <1>1, <1>3, <2>1 DEF InTurn, Switches
    <3>3. n \in 1..n
      OBVIOUS
    <3>4. A[i].e.ses # ses
      BY <1>4, <1>5, <3>2, <3>3
    <3>5. i >= i
      OBVIOUS
    <3> QED
      BY <3>1, <3>4, <3>5
  <2>2. CASE ~Switches(A, ses)
    <3>1. ses = A[n].e.ses
      BY <1>1, <2>2 DEF Switches
    <3>2. R = Live(A, s, session)
      BY <1>3, <2>2 DEF Remain
    <3> QED
      BY <1>1, <3>1, <3>2 DEF Live
  <2> QED
    BY <2>1, <2>2
<1>10. ASSUME NEW i \in 1..n
       PROVE  i \in L <=> i \in R /\ (Accepted(x, s) => session_at(x.e.et) = session)
  <2>1. i \in 1..(n + 1) /\ n + 1 \in 1..(n + 1) /\ n + 1 >= i /\ \A k \in 1..n : k \in 1..(n + 1)
    OBVIOUS
  <2>2. i \in L <=> /\ Accepted(B[i], s)
                    /\ \A k \in 1..(n + 1) : Accepted(B[k], s) /\ k >= i =>
                          B[k].e.ses = ses /\ session_at(B[k].e.et) = session
    BY <1>7, <2>1
  <2>3. (\A k \in 1..(n + 1) : Accepted(B[k], s) /\ k >= i =>
             B[k].e.ses = ses /\ session_at(B[k].e.et) = session)
        <=> /\ \A k \in 1..n : Accepted(A[k], s) /\ k >= i =>
                  A[k].e.ses = ses /\ session_at(A[k].e.et) = session
            /\ Accepted(x, s) => x.e.ses = ses /\ session_at(x.e.et) = session
    BY <1>2, <1>6, <2>1
  <2> QED
    BY <1>2, <1>3, <1>9, <2>2, <2>3
<1>11. n + 1 \in L <=> Accepted(x, s) /\ session_at(x.e.et) = session
  <2>1. n + 1 \in 1..(n + 1) /\ \A k \in 1..(n + 1) : k >= n + 1 <=> k = n + 1
    OBVIOUS
  <2> QED
    BY <1>2, <1>3, <1>7, <2>1
<1>12. L \in SUBSET (1..(n + 1))
  BY <1>7
<1>13. \A i \in L : i = n + 1 \/ i \in 1..n
  BY <1>6, <1>12
<1>14. CASE ~Accepted(x, s)
  <2>1. L = R
    BY <1>8, <1>10, <1>11, <1>13, <1>14
  <2> QED
    BY <1>3, <1>14, <2>1
<1>15. CASE Accepted(x, s) /\ session_at(x.e.et) = session
  <2>1. L = R \cup {n + 1}
    BY <1>8, <1>10, <1>11, <1>13, <1>15
  <2> QED
    BY <1>1, <1>3, <1>15, <2>1
<1>16. CASE Accepted(x, s) /\ session_at(x.e.et) # session
  <2>1. L = {}
    BY <1>8, <1>10, <1>11, <1>13, <1>16
  <2> QED
    BY <1>3, <1>16, <2>1
<1> QED
  BY <1>14, <1>15, <1>16

\* Features of another session list nothing.
LEMMA FreshLists ==
    ASSUME NEW f, IsFeatures(f), NEW session, f.session # session \/ f = EmptyFeatures,
           NEW A, NEW t
    PROVE  Lists(InSession(f, session), A, {}, t)
<1>1. PICK g : g = InSession(f, session)
  OBVIOUS
<1>2. CASE f.session # session
  <2>1. g = [session |-> session, from |-> None, trade |-> None, quote |-> None,
             trades |-> <<>>, flows |-> <<>>]
    BY <1>1, <1>2, InSessionIs
  <2>2. IsFeatures(g) /\ g.quote = None /\ g.trades = <<>> /\ g.flows = <<>>
    BY <2>1 DEF IsFeatures
  <2> QED
    BY <1>1, <2>2, ListsNothing
<1>3. CASE f.session = session /\ f = EmptyFeatures
  <2>1. g = f
    BY <1>1, <1>3 DEF InSession
  <2>2. g.quote = None /\ g.trades = <<>> /\ g.flows = <<>>
    BY <1>3, <2>1 DEF EmptyFeatures
  <2> QED
    BY <1>1, <2>1, <2>2, ListsNothing
<1> QED
  BY <1>2, <1>3

\* _observe leaves its symbol in the market session of the event.
LEMMA ObservedSession ==
    ASSUME NEW f, IsFeatures(f), NEW e, NEW kind \in {"trade", "quote", "auction"}
    PROVE  IsFeatures(_observe(f, e, kind)) /\ _observe(f, e, kind).session = session_at(e.et)
<1>1. PICK g, h, o : /\ g = InSession(f, session_at(e.et)) /\ o = _observe(f, e, kind)
                     /\ h = [g EXCEPT !.from = IF @ = None THEN e.at ELSE @]
  OBVIOUS
<1>2. IsFeatures(g) /\ g.session = session_at(e.et)
  BY <1>1, InSessionIs DEF IsFeatures
<1>3. IsFeatures(h) /\ h.session = g.session /\ h.flows = g.flows
  BY <1>1, <1>2 DEF IsFeatures
<1>4. ASSUME NEW k, IsFeatures(k) PROVE IsFeatures(_prune(k, e.at)) /\ _prune(k, e.at).session = k.session
  BY <1>4, PruneIs DEF IsFeatures
<1>5. CASE kind = "trade"
  <2>1. PICK k : k = [h EXCEPT !.trade = e, !.trades = Append(@, e)]
    OBVIOUS
  <2>2. o = _prune(k, e.at)
    BY <1>1, <1>5, <2>1, Zenon DEF _observe
  <2>3. IsFeatures(k) /\ k.session = h.session
    BY <1>3, <2>1 DEF IsFeatures
  <2> QED
    BY <1>1, <1>2, <1>3, <1>4, <2>2, <2>3
<1>6. CASE kind = "quote"
  <2>1. PICK k : k = [h EXCEPT !.quote = e,
                        !.flows = IF g.quote # None /\ is_complete(g.quote) /\ is_complete(e)
                                  THEN Append(@, [at |-> e.at,
                                                  flow |-> level_one_book_flow(g.quote, e)])
                                  ELSE @]
    OBVIOUS
  <2>2. o = _prune(k, e.at)
    BY <1>1, <1>6, <2>1, Zenon DEF _observe
  <2>3. PICK z : z = IF g.quote # None /\ is_complete(g.quote) /\ is_complete(e)
                     THEN Append(h.flows, [at |-> e.at, flow |-> level_one_book_flow(g.quote, e)])
                     ELSE h.flows
    OBVIOUS
  <2>4. k = [h EXCEPT !.quote = e, !.flows = z]
    BY <1>3, <2>1, <2>3 DEF IsFeatures
  <2>5. IsFeatures(k) /\ k.session = h.session
    BY <1>3, <2>4 DEF IsFeatures
  <2> QED
    BY <1>1, <1>2, <1>3, <1>4, <2>2, <2>5
<1>7. CASE kind = "auction"
  <2>1. o = g
    BY <1>1, <1>7, Zenon DEF _observe
  <2> QED
    BY <1>1, <1>2, <2>1
<1> QED
  BY <1>5, <1>6, <1>7

-----------------------------------------------------------------------------
(***************************************************************************)
(* The engine against the rows applied so far: for every clock that may    *)
(* still come, each symbol lists its live events.                          *)
(***************************************************************************)
Seen(g, A, s, t) ==
    Lists(InSession(g.sym[s], session_at(t)), A, Live(A, s, session_at(t)), t)

After(g, t) == /\ t \in Int /\ (g.decided # None => g.decided < t)
               /\ g.lastAt # None => g.lastAt <= t

AllSeen(g, A) == \A s \in Symbols : \A t : After(g, t) => Seen(g, A, s, t)

Streamed(g, A) ==
    /\ RowsApplied(A)
    /\ g.decided # None => g.decided \in Int
    /\ IF Len(A) = 0 THEN g.lastSes = None ELSE g.lastSes = A[Len(A)].e.ses /\ g.lastAt \in Int
    /\ \A i \in 1..Len(A) :
          /\ A[i].e.ses <= A[Len(A)].e.ses /\ A[i].e.at <= g.lastAt
          /\ A[i].kind # "none" => A[i].e.et <= A[i].e.at

\* An accepted event happened before it was received.
LEMMA EventTimes ==
    ASSUME NEW e, decode_event(e) \in {"trade", "quote", "auction"} PROVE ~(e.et > e.at)
<1> SUFFICES ASSUME e.et > e.at PROVE FALSE
  OBVIOUS
<1>1. CASE ~e.ok
  <2>1. decode_event(e) = "error"
    BY <1>1, Zenon DEF decode_event
  <2> QED
    BY <2>1
<1>2. CASE e.ok /\ e.type = "trade"
  <2>1. decode_event(e) =
            IF e.et > e.at THEN "error"
            ELSE IF e.price = 0 /\ e.qty = 0 /\ e.side = "U" THEN "auction"
            ELSE IF e.price <= 0 \/ e.qty <= 0 \/ e.side \notin {"B", "S", "U"} \/ e.cum < e.qty
            THEN "error" ELSE "trade"
    BY <1>2, Zenon DEF decode_event
  <2> QED
    BY <2>1
<1>3. CASE e.ok /\ e.type = "quote"
  <2>1. e.type # "trade"
    BY <1>3
  <2>2. decode_event(e) = IF e.et > e.at \/ ~QuoteValid(e) THEN "error" ELSE "quote"
    BY <1>3, <2>1, Zenon DEF decode_event
  <2> QED
    BY <2>2
<1>4. CASE e.ok /\ e.type # "trade" /\ e.type # "quote"
  <2>1. decode_event(e) = "none"
    BY <1>4, Zenon DEF decode_event
  <2> QED
    BY <2>1
<1> QED
  BY <1>1, <1>2, <1>3, <1>4

\* What EngineApply makes of a row: nothing, or an accepted event of a symbol.
Taken(g, e, kind) ==
    kind = "none" \/ (kind \in {"trade", "quote", "auction"} /\ e.sym \in Symbols /\ ~(e.et > e.at))

LEMMA RowTaken ==
    ASSUME NEW g, EngineFits(g), NEW e, IsRow(e), NEW r, r = EngineApply(g, e), ~r.raised,
           g.lastAt # None => g.lastAt <= e.at
    PROVE  /\ Served(g, e, r.g) /\ r.kind = MarketApply(g.m, e).kind /\ Taken(g, e, r.kind)
           /\ r.g.decided = g.decided /\ r.g.lastAt = e.at /\ r.g.lastSes = e.ses
<1>1. PICK u, z : u = MarketApply(g.m, e) /\ z = r.g
  OBVIOUS
<1>2. e.at \in Int
  BY DEF IsRow
<1>3. Served(g, e, z) /\ r.kind = u.kind
  BY <1>1, <1>2, ServedIs DEF EngineFits
<1>4. Rejects(g.m, e, u) \/ Accepts(g.m, e, u)
  BY <1>1, MarketCases DEF EngineFits
<1>5. Taken(g, e, u.kind)
  <2>1. CASE Rejects(g.m, e, u)
    BY <2>1 DEF Rejects, Taken
  <2>2. CASE Accepts(g.m, e, u)
    <3>1. /\ u.kind = decode_event(e) /\ u.kind \in {"trade", "quote", "auction"}
          /\ e.sym \in Symbols
      BY <2>2 DEF Accepts
    <3>2. ~(e.et > e.at)
      BY <3>1, EventTimes
    <3> QED
      BY <3>1, <3>2 DEF Taken
  <2> QED
    BY <1>4, <2>1, <2>2
<1>6. z.decided = g.decided /\ z.lastAt = e.at /\ z.lastSes = e.ses
  BY <1>3 DEF Served
<1> QED
  BY <1>1, <1>3, <1>5, <1>6

LEMMA StreamedStep ==
    ASSUME NEW g, EngineFits(g), NEW A, Streamed(g, A), NEW x, NEW B, Grown(A, x, B),
           InTurn(A, x.e.ses), NEW r, r = EngineApply(g, x.e), ~r.raised, x.kind = r.kind,
           g.lastAt # None => g.lastAt <= x.e.at
    PROVE  Streamed(r.g, B)
<1>1. PICK n \in Nat : n = Len(A)
  BY GrownIs
<1>2. /\ Len(B) = n + 1 /\ B[n + 1] = x /\ RowsApplied(B)
      /\ \A i \in 1..n : B[i] = A[i]
  BY <1>1, GrownIs
<1>3. PICK e, z : e = x.e /\ z = r.g
  OBVIOUS
<1>4. IsRow(e) /\ \A i \in 1..n : IsRow(A[i].e)
  BY <1>1, <1>3 DEF Grown, RowsApplied
<1>5. z.decided = g.decided /\ z.lastAt = e.at /\ z.lastSes = e.ses /\ Taken(g, e, x.kind)
  BY <1>3, <1>4, RowTaken
<1>6. ASSUME NEW i \in 1..(n + 1)
      PROVE  /\ B[i].e.ses <= e.ses /\ B[i].e.at <= e.at
             /\ B[i].kind # "none" => B[i].e.et <= B[i].e.at
  <2>1. CASE i = n + 1
    <3>1. e.ses \in Int /\ e.at \in Int /\ e.et \in Int
      BY <1>4 DEF IsRow
    <3>2. e.ses <= e.ses /\ e.at <= e.at /\ (x.kind # "none" => e.et <= e.at)
      BY <1>5, <3>1 DEF Taken
    <3> QED
      BY <1>2, <1>3, <2>1, <3>2
  <2>2. CASE i \in 1..n
    <3>1. n > 0 /\ n \in 1..n
      BY <2>2
    <3>2. /\ A[i].e.ses \in Int /\ A[n].e.ses \in Int /\ e.ses \in Int /\ A[i].e.at \in Int
          /\ e.at \in Int
      BY <1>4, <2>2, <3>1 DEF IsRow
    <3>3. /\ A[i].e.ses <= A[n].e.ses /\ A[i].e.at <= g.lastAt /\ g.lastAt \in Int
          /\ A[i].kind # "none" => A[i].e.et <= A[i].e.at
      BY <1>1, <2>2, <3>1 DEF Streamed
    <3>4. A[n].e.ses <= e.ses
      BY <1>1, <1>3, <3>1 DEF InTurn
    <3>5. g.lastAt <= e.at
      BY <1>3, <3>3, MarketAssumption
    <3>6. A[i].e.ses <= e.ses /\ A[i].e.at <= e.at
      BY <3>2, <3>3, <3>4, <3>5
    <3> QED
      BY <1>2, <2>2, <3>3, <3>6
  <2> QED
    BY <2>1, <2>2
<1>7. z.decided # None => z.decided \in Int
  BY <1>5 DEF Streamed
<1>8. Len(B) # 0 /\ e.at \in Int
  BY <1>1, <1>2, <1>4 DEF IsRow
<1>9. Streamed(z, B)
  BY <1>2, <1>3, <1>5, <1>6, <1>7, <1>8 DEF Streamed
<1> QED
  BY <1>3, <1>9

LEMMA SeenStep ==
    ASSUME NEW g, EngineFits(g), NEW A, Streamed(g, A), AllSeen(g, A), NEW x, NEW B,
           Grown(A, x, B), InTurn(A, x.e.ses), NEW r, r = EngineApply(g, x.e), ~r.raised,
           x.kind = r.kind, g.lastAt # None => g.lastAt <= x.e.at
    PROVE  AllSeen(r.g, B)
<1>1. PICK e, z, kind, n : e = x.e /\ z = r.g /\ kind = x.kind /\ n = Len(A) + 1
  OBVIOUS
<1>2. IsRow(e) /\ e.ses # None /\ e.at \in Int
  BY <1>1, MarketAssumption DEF Grown, IsRow
<1>3. /\ Served(g, e, z) /\ kind = MarketApply(g.m, e).kind /\ Taken(g, e, kind)
      /\ z.decided = g.decided /\ z.lastAt = e.at
  BY <1>1, <1>2, RowTaken
<1>4. PICK sym : sym = (IF g.lastSes # None /\ e.ses # g.lastSes
                        THEN [s \in Symbols |-> EmptyFeatures] ELSE g.sym)
  OBVIOUS
<1>5. z.sym = IF kind = "none" THEN sym ELSE [sym EXCEPT ![e.sym] = _observe(@, e, kind)]
  BY <1>3, <1>4 DEF Served
<1>6. Switches(A, e.ses) <=> g.lastSes # None /\ e.ses # g.lastSes
  <2>1. Len(A) \in Nat /\ (Len(A) > 0 => IsRow(A[Len(A)].e))
    BY GrownIs DEF Grown, RowsApplied
  <2>2. Len(A) > 0 => A[Len(A)].e.ses # None
    BY <2>1, MarketAssumption DEF IsRow
  <2>3. IF Len(A) = 0 THEN g.lastSes = None ELSE g.lastSes = A[Len(A)].e.ses
    BY DEF Streamed
  <2> QED
    BY <2>1, <2>2, <2>3 DEF Switches
<1>7. DOMAIN sym = Symbols /\ \A s \in Symbols : IsFeatures(sym[s])
  <2>1. DOMAIN g.sym = Symbols /\ \A s \in Symbols : IsFeatures(g.sym[s])
    BY DEF EngineFits, FeatureOf
  <2>2. IsFeatures(EmptyFeatures)
    BY DEF IsFeatures, EmptyFeatures
  <2> QED
    BY <1>4, <2>1, <2>2
<1> SUFFICES ASSUME NEW s \in Symbols, NEW t, After(z, t) PROVE Seen(z, B, s, t)
  BY <1>1 DEF AllSeen
<1>8. PICK X, R, f : X = session_at(t) /\ R = Remain(A, s, X, e.ses) /\ f = sym[s]
  OBVIOUS
<1>9. t \in Int /\ e.at <= t /\ After(g, t)
  <2>1. t \in Int /\ (g.decided # None => g.decided < t) /\ (e.at # None => e.at <= t)
    BY <1>3 DEF After
  <2>2. e.at <= t
    BY <1>2, <2>1, MarketAssumption
  <2>3. g.lastAt # None => g.lastAt \in Int /\ g.lastAt <= e.at
    BY <1>1 DEF EngineFits
  <2>4. g.lastAt # None => g.lastAt <= t
    BY <1>2, <2>1, <2>2, <2>3
  <2> QED
    BY <2>1, <2>2, <2>4 DEF After
<1>10. Lists(InSession(f, X), A, R, t) /\ IsFeatures(f)
  <2>1. CASE Switches(A, e.ses)
    <3>1. f = EmptyFeatures /\ R = {}
      BY <1>4, <1>6, <1>8, <2>1 DEF Remain
    <3> QED
      BY <1>7, <1>8, <3>1, FreshLists
  <2>2. CASE ~Switches(A, e.ses)
    <3>1. f = g.sym[s] /\ R = Live(A, s, X)
      BY <1>4, <1>6, <1>8, <2>2 DEF Remain
    <3>2. Seen(g, A, s, t)
      BY <1>9 DEF AllSeen
    <3> QED
      BY <1>7, <1>8, <3>1, <3>2 DEF Seen
  <2> QED
    BY <2>1, <2>2
<1>11. R \in SUBSET (1..Len(A))
  BY <1>8 DEF Remain, Live
<1>12. Live(B, s, X) = IF ~Accepted(x, s) THEN R
                       ELSE IF session_at(e.et) = X THEN R \cup {n} ELSE {}
  <2>1. Live(B, s, X) = IF ~Accepted(x, s) THEN Remain(A, s, X, x.e.ses)
                        ELSE IF session_at(x.e.et) = X
                        THEN Remain(A, s, X, x.e.ses) \cup {Len(A) + 1} ELSE {}
    BY LiveAfter
  <2> QED
    BY <1>1, <1>8, <2>1
<1>13. CASE ~Accepted(x, s)
  <2>1. z.sym[s] = f
    <3>1. kind = "none" \/ e.sym # s
      BY <1>1, <1>13 DEF Accepted
    <3> QED
      BY <1>5, <1>7, <1>8, <3>1
  <2>2. Lists(InSession(f, X), B, R, t)
    BY <1>10, <1>11, ListsKept
  <2>3. Live(B, s, X) = R
    BY <1>12, <1>13
  <2> QED
    BY <1>8, <2>1, <2>2, <2>3 DEF Seen
<1>14. CASE Accepted(x, s)
  <2>1. e.sym = s /\ kind # "none" /\ kind \in {"trade", "quote", "auction"}
    BY <1>1, <1>3, <1>14 DEF Accepted, Taken
  <2>2. PICK o : o = _observe(f, e, kind)
    OBVIOUS
  <2>3. z.sym[s] = o
    <3>1. z.sym = [sym EXCEPT ![s] = o]
      BY <1>5, <1>8, <2>1, <2>2
    <3> QED
      BY <1>7, <3>1
  <2>4. IsFeatures(o) /\ o.session = session_at(e.et)
    BY <1>10, <2>1, <2>2, ObservedSession
  <2>5. CASE session_at(e.et) = X
    <3>1. Lists(InSession(f, session_at(x.e.et)), A, R, t)
      BY <1>1, <1>10, <2>5
    <3>2. x.kind \in {"trade", "quote", "auction"} /\ x.e.at <= t
      BY <1>1, <1>9, <2>1
    <3>3. Lists(_observe(f, x.e, x.kind), B, R \cup {n}, t)
      BY <1>1, <1>9, <1>10, <1>11, <3>1, <3>2, ListsTaken
    <3>4. InSession(o, X) = o
      BY <2>4, <2>5 DEF InSession
    <3>5. Live(B, s, X) = R \cup {n}
      BY <1>12, <1>14, <2>5
    <3> QED
      BY <1>1, <1>8, <2>2, <2>3, <3>3, <3>4, <3>5 DEF Seen
  <2>6. CASE session_at(e.et) # X
    <3>1. Live(B, s, X) = {}
      BY <1>12, <1>14, <2>6
    <3>2. Lists(InSession(o, X), B, {}, t)
      BY <2>4, <2>6, FreshLists
    <3> QED
      BY <1>8, <2>3, <3>1, <3>2 DEF Seen
  <2> QED
    BY <2>5, <2>6
<1> QED
  BY <1>13, <1>14

\* The market sessions that are over at a clock have no live event at a later one.
LEMMA LiveOver ==
    ASSUME NEW g, NEW A, Streamed(g, A), NEW c \in Int, g.lastAt # None => g.lastAt <= c,
           NEW t \in Int, c <= t, NEW s, session_at(c) # session_at(t)
    PROVE  Live(A, s, session_at(t)) = {}
<1> SUFFICES ASSUME NEW i \in Live(A, s, session_at(t)) PROVE FALSE
  OBVIOUS
<1>1. PICK n \in Nat : n = Len(A)
  BY SequenceParts DEF Streamed, RowsApplied
<1>2. i \in 1..n /\ Accepted(A[i], s) /\ i >= i
  BY <1>1 DEF Live
<1>3. session_at(A[i].e.et) = session_at(t)
  BY <1>1, <1>2 DEF Live
<1>4. A[i].e.et \in Int /\ A[i].e.at \in Int
  BY <1>1, <1>2 DEF Streamed, RowsApplied, IsRow
<1>5. A[i].e.at <= g.lastAt /\ g.lastAt \in Int /\ A[i].e.et <= A[i].e.at
  <2>1. A[i].kind # "none" /\ n # 0
    BY <1>2 DEF Accepted
  <2> QED
    BY <1>1, <1>2, <2>1 DEF Streamed
<1>6. g.lastAt <= c
  BY <1>5, MarketAssumption
<1>7. A[i].e.et <= c
  BY <1>4, <1>5, <1>6
<1>8. session_at(c) = session_at(A[i].e.et)
  BY <1>3, <1>4, <1>7, SessionBetween
<1> QED
  BY <1>3, <1>8

\* A clock the engine serves.
Serves(g, c) == /\ c \in Int /\ (g.decided # None => g.decided < c)
                /\ g.lastAt # None => g.lastAt <= c

LEMMA DecidedIs ==
    ASSUME NEW g, EngineFits(g), NEW c, NEW z, z = EngineDecided(g, c)
    PROVE  /\ z.decided = c /\ z.lastAt = g.lastAt /\ z.lastSes = g.lastSes
           /\ \A s \in Symbols : z.sym[s] = _prune(InSession(g.sym[s], session_at(c)), c)
<1>1. PICK new : new = [s \in Symbols |-> _prune(InSession(g.sym[s], session_at(c)), c)]
  OBVIOUS
<1>2. z = [g EXCEPT !.sym = new, !.decided = c]
  BY <1>1 DEF EngineDecided, EngineFits, IsEngine
<1>3. z.decided = c /\ z.lastAt = g.lastAt /\ z.lastSes = g.lastSes /\ z.sym = new
  BY <1>2 DEF EngineFits, IsEngine
<1> QED
  BY <1>1, <1>3

LEMMA StreamedDecided ==
    ASSUME NEW g, EngineFits(g), NEW A, Streamed(g, A), NEW c, Serves(g, c)
    PROVE  Streamed(EngineDecided(g, c), A)
<1>1. PICK z : z = EngineDecided(g, c)
  OBVIOUS
<1>2. z.decided = c /\ z.lastAt = g.lastAt /\ z.lastSes = g.lastSes
  BY <1>1, DecidedIs
<1>3. Streamed(z, A)
  BY <1>2 DEF Streamed, Serves
<1> QED
  BY <1>1, <1>3

LEMMA SeenDecided ==
    ASSUME NEW g, EngineFits(g), NEW A, Streamed(g, A), AllSeen(g, A), NEW c, Serves(g, c)
    PROVE  AllSeen(EngineDecided(g, c), A)
<1>1. PICK z : z = EngineDecided(g, c)
  OBVIOUS
<1>2. /\ z.decided = c /\ z.lastAt = g.lastAt
      /\ \A s \in Symbols : z.sym[s] = _prune(InSession(g.sym[s], session_at(c)), c)
  BY <1>1, DecidedIs
<1> SUFFICES ASSUME NEW s \in Symbols, NEW t, After(z, t) PROVE Seen(z, A, s, t)
  BY <1>1 DEF AllSeen
<1>3. c \in Int /\ t \in Int /\ c < t /\ After(g, t) /\ UpToClock(c, t)
  <2>1. c \in Int /\ (g.decided # None => g.decided < c) /\ (g.lastAt # None => g.lastAt <= c)
    BY DEF Serves
  <2>2. t \in Int /\ (c # None => c < t)
    BY <1>2 DEF After
  <2>3. c < t
    BY <2>1, <2>2, MarketAssumption
  <2>4. g.decided # None => g.decided < t
    <3>1. g.decided # None => g.decided \in Int
      BY DEF Streamed
    <3> QED
      BY <2>1, <2>2, <2>3, <3>1
  <2>5. g.lastAt # None => g.lastAt <= t
    BY <1>2 DEF After
  <2> QED
    BY <2>1, <2>2, <2>3, <2>4, <2>5 DEF After, UpToClock
<1>4. PICK f, o, X, Y : /\ X = session_at(t) /\ Y = session_at(c)
                        /\ f = InSession(g.sym[s], Y) /\ o = _prune(f, c)
  OBVIOUS
<1>5. z.sym[s] = o
  BY <1>2, <1>4
<1>6. IsFeatures(f) /\ f.session = Y
  <2>1. FeatureOf(g.sym[s], g.m.sym[s])
    BY DEF EngineFits
  <2> QED
    BY <1>4, <2>1, InSessionFits DEF FeatureOf
<1>7. IsFeatures(o) /\ o.session = Y
  <2>1. o = [session |-> f.session, from |-> f.from, trade |-> f.trade, quote |-> f.quote,
             trades |-> DropOld(f.trades, c - Windows[Len(Windows)]),
             flows |-> DropOld(f.flows, c - Windows[Len(Windows)])]
    BY <1>4, <1>6, PruneIs
  <2> QED
    BY <1>6, <2>1 DEF IsFeatures
<1>8. CASE X = Y
  <2>1. Lists(f, A, Live(A, s, X), t)
    <3>1. Seen(g, A, s, t)
      BY <1>3 DEF AllSeen
    <3> QED
      BY <1>4, <1>8, <3>1 DEF Seen
  <2>2. Places(A, Live(A, s, X))
    BY DEF Places, Live, Streamed
  <2>3. Lists(o, A, Live(A, s, X), t)
    BY <1>3, <1>4, <2>1, <2>2, ListsPruned
  <2>4. InSession(o, X) = o
    BY <1>7, <1>8 DEF InSession
  <2> QED
    BY <1>4, <1>5, <2>3, <2>4 DEF Seen
<1>9. CASE X # Y
  <2>1. Live(A, s, X) = {}
    <3>1. g.lastAt # None => g.lastAt <= c
      BY DEF Serves
    <3>2. c <= t
      BY <1>3
    <3> QED
      BY <1>3, <1>4, <1>9, <3>1, <3>2, LiveOver
  <2>2. Lists(InSession(o, X), A, {}, t)
    BY <1>7, <1>9, FreshLists
  <2> QED
    BY <1>4, <1>5, <2>1, <2>2 DEF Seen
<1> QED
  BY <1>8, <1>9

LEMMA SeenInit == AllSeen(InitEngine, <<>>) /\ Streamed(InitEngine, <<>>)
<1>1. PICK z, h, A : /\ h = [s \in Symbols |-> EmptyFeatures] /\ z = InitEngine /\ A = <<>>
  OBVIOUS
<1>2. /\ z.sym = h /\ z.lastSes = None /\ z.lastAt = None /\ z.decided = None
  BY <1>1 DEF InitEngine
<1>3. RowsApplied(A) /\ Len(A) = 0
  BY <1>1, EmptySequence DEF RowsApplied
<1>4. Streamed(z, A)
  BY <1>2, <1>3 DEF Streamed
<1>5. ASSUME NEW s \in Symbols, NEW t PROVE Seen(z, A, s, t)
  <2>1. z.sym[s] = EmptyFeatures
    BY <1>1, <1>2
  <2>2. IsFeatures(EmptyFeatures)
    BY DEF IsFeatures, EmptyFeatures
  <2>3. Lists(InSession(EmptyFeatures, session_at(t)), A, {}, t)
    BY <2>2, FreshLists
  <2>4. Live(A, s, session_at(t)) = {}
    BY <1>3 DEF Live
  <2> QED
    BY <2>1, <2>3, <2>4 DEF Seen
<1>6. AllSeen(z, A)
  BY <1>5 DEF AllSeen
<1> QED
  BY <1>1, <1>4, <1>6

-----------------------------------------------------------------------------
(***************************************************************************)
(* A window over a list of live events is the window over the events.      *)
(***************************************************************************)
Since(A, P, after) == {i \in P : after < A[i].e.at}

\* f takes the places R of a queue, in order, to the places T of the rows.
Pairs(f, R, T, N) ==
    /\ N \in Nat /\ R \in SUBSET (1..N)
    /\ \A j \in R : f[j] \in T
    /\ \A i \in T : \E j \in R : f[j] = i
    /\ \A j, k \in R : j < k => f[j] < f[k]

LEMMA RecentPairs ==
    ASSUME NEW q, IsSequence(q), NEW f, NEW A, RowsApplied(A), NEW P \in SUBSET (1..Len(A)),
           NEW t \in Int, NEW whole, Enumerates(f, q, A, P, t, whole),
           \A i \in P : A[i].e.at <= t, NEW w \in Int, w <= Longest
    PROVE  Pairs(f, Recent(q, t, w), Since(A, P, t - w), Len(q))
<1>1. PICK n \in Nat : n = Len(q) /\ DOMAIN q = 1..n
  BY SequenceParts
<1>2. /\ \A j \in 1..n : f[j] \in P /\ q[j].at = A[f[j]].e.at
      /\ \A j, k \in 1..n : j < k => f[j] < f[k]
      /\ \A i \in P : A[i].e.at > t - Longest => \E j \in 1..n : f[j] = i
  BY <1>1 DEF Enumerates
<1>3. PICK R, T, after : /\ R = Recent(q, t, w) /\ T = Since(A, P, after) /\ after = t - w
  OBVIOUS
<1>4. \A i \in P : A[i].e.at \in Int /\ A[i].e.at <= t
  BY DEF RowsApplied, IsRow
<1>5. R = {j \in 1..n : after < q[j].at}
  <2>1. \A j \in 1..n : q[j].at <= t
    BY <1>2, <1>4
  <2>2. R = {j \in 1..n : t - w < q[j].at /\ q[j].at <= t}
    BY <1>1, <1>3 DEF Recent
  <2> QED
    BY <1>3, <2>1, <2>2
<1>6. T = {i \in P : after < A[i].e.at}
  BY <1>3 DEF Since
<1>7. \A j \in R : f[j] \in T
  BY <1>2, <1>5, <1>6
<1>8. ASSUME NEW i \in T PROVE \E j \in R : f[j] = i
  <2>1. i \in P /\ after < A[i].e.at /\ A[i].e.at \in Int
    BY <1>4, <1>6
  <2>2. A[i].e.at > t - Longest
    BY <1>3, <2>1, LongestIs
  <2>3. PICK j \in 1..n : f[j] = i
    BY <1>2, <2>1, <2>2
  <2>4. after < q[j].at
    BY <1>2, <2>1, <2>3
  <2> QED
    BY <1>5, <2>3, <2>4
<1>9. R \in SUBSET (1..n) /\ \A j, k \in R : j < k => f[j] < f[k]
  BY <1>2, <1>5
<1>10. Pairs(f, R, T, n)
  BY <1>7, <1>8, <1>9 DEF Pairs
<1> QED
  BY <1>1, <1>3, <1>10

LEMMA PairsOnce ==
    ASSUME NEW f, NEW R, NEW T \in SUBSET Int, NEW N, Pairs(f, R, T, N)
    PROVE  /\ IsFiniteSet(R) /\ T = Carried(f, R)
           /\ \A j, k \in R : f[j] = f[k] => j = k
<1>1. N \in Nat /\ R \in SUBSET (1..N) /\ \A j, k \in R : j < k => f[j] < f[k]
  BY DEF Pairs
<1>2. IsFiniteSet(R)
  <2>1. 1 \in Int /\ N \in Int
    BY <1>1
  <2>2. IsFiniteSet(1..N)
    BY <2>1, FS_Interval
  <2> QED
    BY <1>1, <2>2, FS_Subset
<1>3. T = Carried(f, R)
  BY DEF Pairs, Carried
<1>4. ASSUME NEW j \in R, NEW k \in R, f[j] = f[k] PROVE j = k
  <2>1. j \in 1..N /\ k \in 1..N /\ f[j] \in T /\ f[k] \in T
    BY <1>1 DEF Pairs
  <2>3. j \in Int /\ k \in Int
    BY <1>1, <2>1
  <2>4. f[j] \in Int /\ f[k] \in Int
    BY <2>1
  <2>2. ~(j < k) /\ ~(k < j)
    BY <1>1, <1>4, <2>4
  <2> QED
    BY <2>2, <2>3
<1> QED
  BY <1>2, <1>3, <1>4

LEMMA PairsCount ==
    ASSUME NEW f, NEW R, NEW T \in SUBSET Int, NEW N, Pairs(f, R, T, N)
    PROVE  IsFiniteSet(T) /\ Cardinality(R) = Cardinality(T)
<1>1. /\ IsFiniteSet(R) /\ T = Carried(f, R)
      /\ \A j, k \in R : f[j] = f[k] => j = k
  BY PairsOnce
<1>2. PICK h : h = [j \in R |-> f[j]]
  OBVIOUS
<1>3. h \in Bijection(R, T)
  <2>1. h \in [R -> T] /\ \A j, k \in R : h[j] = h[k] => j = k
    BY <1>1, <1>2 DEF Carried
  <2>2. \A i \in T : \E j \in R : h[j] = i
    BY <1>1, <1>2 DEF Carried
  <2> QED
    BY <2>1, <2>2, Zenon DEF Bijection, Injection, Surjection, IsInjective
<1>4. ExistsBijection(R, T)
  BY <1>3 DEF ExistsBijection
<1> QED
  BY <1>1, <1>4, FS_Bijection

LEMMA PairsEnds ==
    ASSUME NEW f, NEW R, NEW M \in Nat, NEW T \in SUBSET (1..M), NEW N, Pairs(f, R, T, N),
           R # {}
    PROVE  /\ Min(R) \in R /\ f[Min(R)] = Min(T)
           /\ Max(R) \in R /\ f[Max(R)] = Max(T)
<1>1. N \in Nat /\ R \in SUBSET (1..N) /\ \A j, k \in R : j < k => f[j] < f[k]
  BY DEF Pairs
<1>2. (\A j \in R : f[j] \in T) /\ \A i \in T : \E j \in R : f[j] = i
  BY DEF Pairs
<1>3. PICK a, b, c, d : a = Min(R) /\ b = Max(R) /\ c = Min(T) /\ d = Max(T)
  OBVIOUS
<1>4. a \in R /\ (\A j \in R : a <= j) /\ b \in R /\ (\A j \in R : b >= j)
  BY <1>1, <1>3, MinOfPlaces, MaxOfPlaces
<1>5. T # {}
  BY <1>2, <1>4
<1>6. c \in T /\ (\A i \in T : c <= i) /\ d \in T /\ (\A i \in T : d >= i)
  BY <1>3, <1>5, MinOfPlaces, MaxOfPlaces
<1>7. ASSUME NEW j \in R PROVE j \in Int /\ f[j] \in Int
  <2>1. j \in 1..N /\ f[j] \in T
    BY <1>1, <1>2
  <2>2. f[j] \in 1..M
    BY <2>1
  <2> QED
    BY <1>1, <2>1, <2>2
<1>8. f[a] = c
  <2>1. PICK j \in R : f[j] = c
    BY <1>2, <1>6
  <2>2. a = j \/ a < j
    BY <1>4, <1>7
  <2>3. f[a] <= c
    BY <1>1, <1>4, <1>7, <2>1, <2>2
  <2>4. c <= f[a]
    BY <1>2, <1>4, <1>6
  <2>5. c \in Int /\ f[a] \in Int
    BY <1>4, <1>7, <2>1
  <2> QED
    BY <2>3, <2>4, <2>5
<1>9. f[b] = d
  <2>1. PICK j \in R : f[j] = d
    BY <1>2, <1>6
  <2>2. b = j \/ j < b
    BY <1>4, <1>7
  <2>3. f[b] >= d
    BY <1>1, <1>4, <1>7, <2>1, <2>2
  <2>4. d >= f[b]
    BY <1>2, <1>4, <1>6
  <2>5. d \in Int /\ f[b] \in Int
    BY <1>4, <1>7, <2>1
  <2> QED
    BY <2>3, <2>4, <2>5
<1> QED
  BY <1>3, <1>4, <1>8, <1>9

\* What a window has of the live events L received after an instant.
Recounts(w, A, L, after) ==
    LET T == Since(A, OfKind(A, L, "trade"), after)
        first == A[Min(T)].e  last == A[Max(T)].e
    IN  /\ w.trades = Cardinality(T)
        /\ w.volume = SumFunction([k \in T |-> A[k].e.qty])
        /\ w.changes = Cardinality(Since(A, Changes(A, L), after))
        /\ w.trades >= 2 => w.return = basis_points(last.price - first.price, first.price)

\* The rows of a set of places are none later than a clock.
Heard(A, L, t) == \A i \in L : A[i].e.at <= t

LEMMA SinceIs ==
    ASSUME NEW A, NEW L, Places(A, L), NEW after
    PROVE  /\ Since(A, OfKind(A, L, "trade"), after) \in SUBSET (1..Len(A))
           /\ Since(A, Changes(A, L), after) \in SUBSET (1..Len(A))
BY DEF Places, Since, OfKind, Changes

\* A queue that lists the places P, and a window it reaches back over.
Reaches(q, A, P, t, whole, w) ==
    /\ Places(A, P) /\ Heard(A, P, t) /\ Listed(q, A, P, t, whole)
    /\ t \in Int /\ w \in Int /\ w <= Longest

\* The items R of the queue stand for the rows T.
Counts(R, T) == IsFiniteSet(T) /\ Cardinality(R) = Cardinality(T)

StandFor(q, A, R, T) ==
    /\ Volume(q, R) = SumFunction([k \in T |-> A[k].e.qty])
    /\ R # {} => q[Min(R)] = A[Min(T)].e /\ q[Max(R)] = A[Max(T)].e

LEMMA RowsCounted ==
    ASSUME NEW q, NEW A, NEW P, NEW t, NEW whole, NEW w, Reaches(q, A, P, t, whole, w)
    PROVE  Counts(Recent(q, t, w), Since(A, P, t - w))
<1> USE DEF Reaches
<1>1. PICK f : Enumerates(f, q, A, P, t, whole)
  BY DEF Listed
<1>2. PICK R, T, N : R = Recent(q, t, w) /\ T = Since(A, P, t - w) /\ N = Len(q)
  OBVIOUS
<1>3. Pairs(f, R, T, N)
  <2>1. Pairs(f, Recent(q, t, w), Since(A, P, t - w), Len(q))
    BY <1>1, RecentPairs DEF Listed, Places, Heard
  <2> QED
    BY <1>2, <2>1
<1>4. T \in SUBSET Int
  <2>1. T \in SUBSET (1..Len(A))
    BY <1>2 DEF Since, Places
  <2>2. Len(A) \in Nat
    BY SequenceParts DEF Places, RowsApplied
  <2> QED
    BY <2>1, <2>2
<1>5. IsFiniteSet(T) /\ Cardinality(R) = Cardinality(T)
  BY <1>3, <1>4, PairsCount
<1> QED
  BY <1>2, <1>5 DEF Counts

LEMMA TradesCounted ==
    ASSUME NEW q, NEW A, NEW P, NEW t, NEW w, Reaches(q, A, P, t, TRUE, w)
    PROVE  StandFor(q, A, Recent(q, t, w), Since(A, P, t - w))
<1> USE DEF Reaches
<1> SUFFICES ASSUME NEW R, R = Recent(q, t, w), NEW T, T = Since(A, P, t - w)
             PROVE  StandFor(q, A, R, T)
  OBVIOUS
<1>1. PICK f : Enumerates(f, q, A, P, t, TRUE)
  BY DEF Listed
<1>2. PICK N, M \in Nat : N = Len(q) /\ M = Len(A)
  <2>1. Len(A) \in Nat /\ Len(q) \in Nat
    BY SequenceParts DEF Places, RowsApplied, Listed
  <2> QED
    BY <2>1
<1>3. Pairs(f, R, T, N)
  <2>1. Pairs(f, Recent(q, t, w), Since(A, P, t - w), Len(q))
    BY <1>1, RecentPairs DEF Listed, Places, Heard
  <2> QED
    BY <1>2, <2>1
<1>4. T \in SUBSET (1..M) /\ \A i \in 1..M : IsRow(A[i].e)
  BY <1>2 DEF Since, Places, RowsApplied
<1>5. N \in Nat /\ R \in SUBSET (1..N) /\ \A j \in R : f[j] \in T
  BY <1>3 DEF Pairs
<1>6. \A j \in R : q[j] = A[f[j]].e
  BY <1>1, <1>2, <1>5 DEF Enumerates
<1>7. Volume(q, R) = SumFunction([k \in T |-> A[k].e.qty])
  <2>1. PICK a, b : a = [j \in R |-> q[j].qty] /\ b = [k \in T |-> A[k].e.qty]
    OBVIOUS
  <2>2. /\ IsFiniteSet(R) /\ T = Carried(f, R)
        /\ \A j, k \in R : f[j] = f[k] => j = k
    <3>1. T \in SUBSET Int
      BY <1>4
    <3> QED
      BY <1>3, <3>1, PairsOnce
  <2>3. ASSUME NEW j \in R PROVE a[j] \in Int /\ b[f[j]] = a[j]
    <3>1. f[j] \in T /\ q[j] = A[f[j]].e /\ IsRow(A[f[j]].e)
      BY <1>4, <1>5, <1>6
    <3>2. q[j].qty \in Int
      BY <3>1 DEF IsRow
    <3> QED
      BY <2>1, <3>1, <3>2
  <2>4. Carries(f, R, a, b)
    BY <2>2, <2>3 DEF Carries
  <2>5. SumFunctionOnSet(b, Carried(f, R)) = SumFunctionOnSet(a, R)
    BY <2>2, <2>4, SumCarried
  <2>6. Volume(q, R) = SumFunctionOnSet(a, R)
    BY <2>1, VolumeIs
  <2>7. SumFunction(b) = SumFunctionOnSet(b, T)
    BY <2>1 DEF SumFunction
  <2> QED
    BY <2>1, <2>2, <2>5, <2>6, <2>7
<1>8. ASSUME R # {} PROVE q[Min(R)] = A[Min(T)].e /\ q[Max(R)] = A[Max(T)].e
  <2>1. /\ Min(R) \in R /\ f[Min(R)] = Min(T)
        /\ Max(R) \in R /\ f[Max(R)] = Max(T)
    BY <1>3, <1>4, <1>8, PairsEnds
  <2> QED
    BY <1>6, <2>1
<1> QED
  BY <1>7, <1>8 DEF StandFor

LEMMA WindowIs ==
    ASSUME NEW A, NEW L, Places(A, L), NEW t \in Int, NEW f, Lists(f, A, L, t), Heard(A, L, t),
           NEW w \in Int, w <= Longest
    PROVE  Recounts(_window(f, t, w), A, L, t - w)
<1>1. PICK P, C, q, z : /\ P = OfKind(A, L, "trade") /\ C = Changes(A, L)
                        /\ q = f.trades /\ z = f.flows
  OBVIOUS
<1>2. PICK R, F, T, D : /\ R = Recent(q, t, w) /\ F = Recent(z, t, w)
                        /\ T = Since(A, P, t - w) /\ D = Since(A, C, t - w)
  OBVIOUS
<1>3. Listed(q, A, P, t, TRUE) /\ Listed(z, A, C, t, FALSE)
  BY <1>1 DEF Lists
<1>4. Reaches(q, A, P, t, TRUE, w) /\ Reaches(z, A, C, t, FALSE, w)
  <2>1. Places(A, P) /\ Places(A, C) /\ Heard(A, P, t) /\ Heard(A, C, t)
    BY <1>1 DEF Places, Heard, OfKind, Changes
  <2> QED
    BY <1>3, <2>1 DEF Reaches
<1>5. IsFiniteSet(T) /\ Cardinality(R) = Cardinality(T)
  <2>1. Counts(Recent(q, t, w), Since(A, P, t - w))
    BY <1>4, RowsCounted
  <2> QED
    BY <1>2, <2>1 DEF Counts
<1>6. IsFiniteSet(D) /\ Cardinality(F) = Cardinality(D)
  <2>1. Counts(Recent(z, t, w), Since(A, C, t - w))
    BY <1>4, RowsCounted
  <2> QED
    BY <1>2, <2>1 DEF Counts
<1>7. /\ Volume(q, R) = SumFunction([k \in T |-> A[k].e.qty])
      /\ R # {} => q[Min(R)] = A[Min(T)].e /\ q[Max(R)] = A[Max(T)].e
  <2>1. StandFor(q, A, Recent(q, t, w), Since(A, P, t - w))
    BY <1>4, TradesCounted
  <2> QED
    BY <1>2, <2>1 DEF StandFor
<1>8. PICK n, volume, first, last, x :
         /\ n = Cardinality(R) /\ volume = Volume(q, R) /\ first = q[Min(R)] /\ last = q[Max(R)]
         /\ x = _window(f, t, w)
  OBVIOUS
<1>9. /\ x.trades = n /\ x.changes = Cardinality(F) /\ x.volume = volume
      /\ x.return = IF n < 2 THEN None
                    ELSE basis_points(last.price - first.price, first.price)
  BY <1>1, <1>2, <1>8 DEF _window, window_values
<1>10. n \in Nat
  BY <1>5, <1>8, FS_CardinalityType
<1>11. ASSUME n >= 2
       PROVE  x.return = basis_points(A[Max(T)].e.price - A[Min(T)].e.price, A[Min(T)].e.price)
  <2>1. R # {}
    BY <1>8, <1>10, <1>11, FS_EmptySet
  <2>2. first = A[Min(T)].e /\ last = A[Max(T)].e
    BY <1>7, <1>8, <2>1
  <2>3. x.return = basis_points(last.price - first.price, first.price)
    BY <1>9, <1>10, <1>11
  <2> QED
    BY <2>2, <2>3
<1>12. Recounts(x, A, L, t - w)
  BY <1>1, <1>2, <1>5, <1>6, <1>7, <1>8, <1>9, <1>11 DEF Recounts
<1> QED
  BY <1>8, <1>12

-----------------------------------------------------------------------------
(***************************************************************************)
(* A recorded clock: its windows are those of the events visible then.     *)
(***************************************************************************)
VisibleIn(A, s, n, session) ==
    {i \in 1..n :
        /\ Accepted(A[i], s)
        /\ \A k \in 1..n : Accepted(A[k], s) /\ k >= i =>
              A[k].e.ses = A[n].e.ses /\ session_at(A[k].e.et) = session}

PointInTime(d, A) ==
    /\ d.upto \in 0..Len(A)
    /\ \A s \in Symbols, i \in DOMAIN Windows :
          Recounts(d.snaps[s].windows[i], A, VisibleIn(A, s, d.upto, session_at(d.at)),
                   d.at - Windows[i])

\* The first n rows are the same.
Same(A, B, n) == n \in Nat /\ \A i \in 1..n : B[i] = A[i]

LEMMA SameSince ==
    ASSUME NEW A, NEW B, NEW n, Same(A, B, n), NEW P \in SUBSET (1..n), NEW after
    PROVE  Since(B, P, after) = Since(A, P, after)
BY DEF Same, Since

LEMMA SameLists ==
    ASSUME NEW A, NEW B, NEW n, Same(A, B, n), NEW L \in SUBSET (1..n)
    PROVE  /\ OfKind(B, L, "trade") = OfKind(A, L, "trade")
           /\ Changes(B, L) = Changes(A, L)
<1>1. n \in Nat /\ \A i \in 1..n : B[i] = A[i]
  BY DEF Same
<1>2. OfKind(B, L, "trade") = OfKind(A, L, "trade")
  BY <1>1 DEF OfKind
<1>3. ASSUME NEW i PROVE QuotesTo(B, L, i) = QuotesTo(A, L, i)
  BY <1>1 DEF QuotesTo
<1>4. ASSUME NEW i \in L PROVE i \in Changes(B, L) <=> i \in Changes(A, L)
  <2>1. PICK Q : Q = QuotesTo(A, L, i)
    OBVIOUS
  <2>2. B[i] = A[i] /\ QuotesTo(B, L, i) = Q
    BY <1>1, <1>3, <2>1
  <2>3. CASE Q = {}
    BY <2>1, <2>2, <2>3 DEF Changes
  <2>4. CASE Q # {}
    <3>1. Q \in SUBSET (1..n)
      BY <2>1 DEF QuotesTo
    <3>2. Max(Q) \in Q
      BY <1>1, <2>4, <3>1, MaxOfPlaces
    <3>3. B[Max(Q)] = A[Max(Q)]
      BY <1>1, <3>1, <3>2
    <3> QED
      BY <2>1, <2>2, <3>3 DEF Changes
  <2> QED
    BY <2>3, <2>4
<1>5. Changes(B, L) = Changes(A, L)
  <2>1. \A i : i \in Changes(B, L) <=> i \in Changes(A, L)
    BY <1>4 DEF Changes
  <2> QED
    BY <2>1
<1> QED
  BY <1>2, <1>5

LEMMA SameRecounts ==
    ASSUME NEW A, NEW B, NEW n, Same(A, B, n), NEW L \in SUBSET (1..n), NEW w, NEW after,
           Recounts(w, A, L, after)
    PROVE  Recounts(w, B, L, after)
<1>1. PICK P, C, T, D : /\ P = OfKind(A, L, "trade") /\ C = Changes(A, L)
                        /\ T = Since(A, P, after) /\ D = Since(A, C, after)
  OBVIOUS
<1>2. P \in SUBSET (1..n) /\ C \in SUBSET (1..n)
  BY <1>1 DEF OfKind, Changes
<1>3. /\ P = OfKind(B, L, "trade") /\ C = Changes(B, L)
      /\ T = Since(B, P, after) /\ D = Since(B, C, after)
  BY <1>1, <1>2, SameLists, SameSince
<1>4. T \in SUBSET (1..n) /\ \A i \in T : B[i] = A[i]
  BY <1>1, <1>2 DEF Since, Same
<1>5. /\ w.trades = Cardinality(T) /\ w.volume = SumFunction([k \in T |-> A[k].e.qty])
      /\ w.changes = Cardinality(D)
      /\ w.trades >= 2 =>
           w.return = basis_points(A[Max(T)].e.price - A[Min(T)].e.price, A[Min(T)].e.price)
  BY <1>1 DEF Recounts
<1>6. [k \in T |-> A[k].e.qty] = [k \in T |-> B[k].e.qty]
  BY <1>4
<1>7. w.volume = SumFunction([k \in T |-> B[k].e.qty])
  BY <1>5, <1>6
<1>8. ASSUME w.trades >= 2
      PROVE  w.return = basis_points(B[Max(T)].e.price - B[Min(T)].e.price, B[Min(T)].e.price)
  <2>1. T # {}
    BY <1>5, <1>8, FS_EmptySet
  <2>2. n \in Nat
    BY DEF Same
  <2>3. Min(T) \in T /\ Max(T) \in T
    BY <1>4, <2>1, <2>2, MinOfPlaces, MaxOfPlaces
  <2>4. B[Min(T)] = A[Min(T)] /\ B[Max(T)] = A[Max(T)]
    BY <1>4, <2>3
  <2> QED
    BY <1>5, <1>8, <2>4
<1> QED
  BY <1>1, <1>3, <1>5, <1>7, <1>8 DEF Recounts

LEMMA SameVisible ==
    ASSUME NEW A, NEW B, NEW n, Same(A, B, n), NEW s, NEW session
    PROVE  VisibleIn(B, s, n, session) = VisibleIn(A, s, n, session)
<1>1. n \in Nat /\ \A i \in 1..n : B[i] = A[i]
  BY DEF Same
<1>2. ASSUME NEW i \in 1..n
      PROVE  i \in VisibleIn(B, s, n, session) <=> i \in VisibleIn(A, s, n, session)
  <2>1. n \in 1..n
    BY <1>1
  <2>2. B[n] = A[n] /\ B[i] = A[i]
    BY <1>1, <2>1
  <2> QED
    BY <1>1, <2>2 DEF VisibleIn
<1>3. \A i : i \in VisibleIn(B, s, n, session) <=> i \in VisibleIn(A, s, n, session)
  BY <1>2 DEF VisibleIn
<1> QED
  BY <1>3

LEMMA PointInTimeMore ==
    ASSUME NEW A, RowsApplied(A), NEW B, RowsApplied(B), NEW at, Extends(A, B, at),
           NEW d, PointInTime(d, A)
    PROVE  PointInTime(d, B)
<1>1. PICK n : n = d.upto
  OBVIOUS
<1>2. Len(A) \in Nat /\ Len(B) \in Nat
  BY SequenceParts DEF RowsApplied
<1>3. n \in 0..Len(A) /\ n \in 0..Len(B) /\ Same(A, B, n)
  <2>1. Len(A) <= Len(B) /\ \A i \in 1..Len(A) : B[i] = A[i]
    BY DEF Extends
  <2>2. n \in 0..Len(A)
    BY <1>1 DEF PointInTime
  <2> QED
    BY <1>2, <2>1, <2>2 DEF Same
<1>4. ASSUME NEW s \in Symbols, NEW i \in DOMAIN Windows
      PROVE  Recounts(d.snaps[s].windows[i], B, VisibleIn(B, s, n, session_at(d.at)),
                      d.at - Windows[i])
  <2>1. PICK L, w, after : /\ L = VisibleIn(A, s, n, session_at(d.at))
                           /\ w = d.snaps[s].windows[i] /\ after = d.at - Windows[i]
    OBVIOUS
  <2>2. Recounts(w, A, L, after)
    BY <1>1, <2>1 DEF PointInTime
  <2>3. L \in SUBSET (1..n)
    BY <2>1 DEF VisibleIn
  <2>4. Recounts(w, B, L, after)
    BY <1>3, <2>2, <2>3, SameRecounts
  <2>5. VisibleIn(B, s, n, session_at(d.at)) = L
    BY <1>3, <2>1, SameVisible
  <2> QED
    BY <2>1, <2>4, <2>5
<1> QED
  BY <1>1, <1>3, <1>4 DEF PointInTime

\* The windows of a symbol at a clock, marked or not.
LEMMA ClockWindows ==
    ASSUME NEW g, NEW t, NEW gap \in BOOLEAN, NEW s \in Symbols, NEW i \in DOMAIN Windows
    PROVE  MarkGap(snapshots(g, t), gap)[s].windows[i]
              = _window(_prune(InSession(g.sym[s], session_at(t)), t), t, Windows[i])
<1>1. PICK all, p, q : /\ all = snapshots(g, t) /\ p = _snapshot(g, s, t)
                       /\ q = MarkGap(all, gap)[s]
  OBVIOUS
<1>2. DOMAIN all = Symbols /\ all[s] = p
  BY <1>1 DEF snapshots
<1>3. q.windows = p.windows
  <2>1. "windows" # "reasons" /\ "windows" \in DOMAIN p
    BY <1>1 DEF _snapshot
  <2> QED
    BY <1>1, <1>2, <2>1 DEF MarkGap
<1>4. PICK f : f = _prune(InSession(g.sym[s], session_at(t)), t)
  OBVIOUS
<1>5. p.windows = [k \in DOMAIN Windows |-> _window(f, t, Windows[k])]
  BY <1>1, <1>4 DEF _snapshot
<1>6. q.windows[i] = _window(f, t, Windows[i])
  BY <1>3, <1>5
<1> QED
  BY <1>1, <1>4, <1>6

LEMMA DecisionPointInTime ==
    ASSUME Streamed(eng, applied), AllSeen(eng, applied), NEW t, Serves(eng, t),
           NEW d, NEW C, Deciding(d, C, t)
    PROVE  PointInTime(d, applied)
<1>1. PICK A, n, X : A = applied /\ n = Len(applied) /\ X = session_at(t)
  OBVIOUS
<1>2. /\ d.at = t /\ d.upto = n
      /\ d.snaps = MarkGap(snapshots(eng, t), GapKnown(t))
  BY <1>1, RecordParts
<1>3. n \in Nat /\ RowsApplied(A)
  BY <1>1, SequenceParts DEF Streamed, RowsApplied
<1>4. t \in Int /\ After(eng, t) /\ UpToClock(t, t)
  BY DEF Serves, After, UpToClock
<1>5. PICK gap : gap = GapKnown(t)
  OBVIOUS
<1>6. gap \in BOOLEAN
  BY <1>5 DEF GapKnown
<1>7. ASSUME NEW s \in Symbols, NEW i \in DOMAIN Windows
      PROVE  Recounts(d.snaps[s].windows[i], A, VisibleIn(A, s, n, X), t - Windows[i])
  <2>1. PICK L, f, o : /\ L = Live(A, s, X) /\ f = InSession(eng.sym[s], X)
                       /\ o = _prune(f, t)
    OBVIOUS
  <2>2. Places(A, L)
    BY <1>3, <2>1 DEF Places, Live
  <2>3. Lists(f, A, L, t)
    <3>1. Seen(eng, A, s, t)
      BY <1>1, <1>4 DEF AllSeen
    <3> QED
      BY <1>1, <2>1, <3>1 DEF Seen
  <2>4. Lists(o, A, L, t)
    BY <1>4, <2>1, <2>2, <2>3, ListsPruned
  <2>5. Heard(A, L, t)
    <3>1. ASSUME NEW k \in L PROVE A[k].e.at <= t
      <4>1. k \in 1..n /\ n # 0
        BY <1>1, <1>3, <2>1 DEF Live
      <4>2. A[k].e.at <= eng.lastAt /\ eng.lastAt \in Int
        BY <1>1, <4>1 DEF Streamed
      <4>3. eng.lastAt <= t
        BY <4>2, MarketAssumption DEF Serves
      <4>4. A[k].e.at \in Int
        BY <1>1, <1>3, <4>1 DEF RowsApplied, IsRow
      <4> QED
        BY <1>4, <4>2, <4>3, <4>4
    <3> QED
      BY <3>1 DEF Heard
  <2>6. PICK w : w = Windows[i]
    OBVIOUS
  <2>7. w \in Int /\ w <= Longest
    BY <2>6, LongestIs
  <2>8. Recounts(_window(o, t, w), A, L, t - w)
    BY <1>4, <2>2, <2>4, <2>5, <2>7, WindowIs
  <2>9. d.snaps[s].windows[i] = _window(o, t, w)
    <3>1. MarkGap(snapshots(eng, t), gap)[s].windows[i]
            = _window(_prune(InSession(eng.sym[s], session_at(t)), t), t, Windows[i])
      BY <1>6, ClockWindows
    <3> QED
      BY <1>1, <1>2, <1>5, <2>1, <2>6, <3>1
  <2>10. VisibleIn(A, s, n, X) = L
    BY <1>1, <2>1 DEF VisibleIn, Live
  <2> QED
    BY <2>6, <2>8, <2>9, <2>10
<1>8. PointInTime(d, A)
  BY <1>1, <1>2, <1>3, <1>7 DEF PointInTime
<1> QED
  BY <1>1, <1>8

\* The pipeline over the rows of one stream session.
SeenPipe(p, ses) ==
    ~p.failed => /\ Streamed(p.eng, p.applied) /\ AllSeen(p.eng, p.applied)
                 /\ InTurn(p.applied, ses)

LEMMA SeenPipeStep ==
    ASSUME NEW p, NEW A, NEW at \in Int, PipeFits(p, A, at), NEW ses, SeenPipe(p, ses),
           NEW e, IsRow(e), e.at = at, e.ses = ses
    PROVE  SeenPipe(PipelineApply(p, e), ses)
<1>1. PICK z : z = PipelineApply(p, e)
  OBVIOUS
<1>2. CASE p.failed
  <2>1. z = p
    BY <1>1, <1>2 DEF PipelineApply
  <2> QED
    BY <1>1, <2>1
<1>3. CASE ~p.failed
  <2>1. PICK f, c, x, B : /\ f = EngineApply(p.eng, e) /\ c = ContextApply(p.ctx, e)
                          /\ x = [e |-> e, kind |-> f.kind] /\ B = Append(p.applied, x)
    OBVIOUS
  <2>2. z = Piped(p, e, f, c)
    BY <1>1, <1>3, <2>1 DEF PipelineApply
  <2>3. /\ z.eng = f.g /\ z.failed = (f.raised \/ c.raised)
        /\ z.applied = B
    BY <2>1, <2>2 DEF Piped
  <2>4. /\ RowsApplied(p.applied) /\ EngineFits(p.eng)
        /\ p.eng.lastAt # None => p.eng.lastAt <= at
    BY <1>3 DEF PipeFits
  <2>5. x.e = e /\ x.kind = f.kind
    BY <2>1
  <2>6. /\ Streamed(p.eng, p.applied) /\ AllSeen(p.eng, p.applied)
        /\ InTurn(p.applied, x.e.ses)
    BY <1>3, <2>5 DEF SeenPipe
  <2>7. Grown(p.applied, x, B)
    BY <2>1, <2>4, <2>5 DEF Grown
  <2>8. ASSUME ~z.failed
        PROVE  Streamed(z.eng, B) /\ AllSeen(z.eng, B) /\ InTurn(B, ses)
    <3>1. ~f.raised
      BY <2>3, <2>8
    <3>2. f = EngineApply(p.eng, x.e) /\ (p.eng.lastAt # None => p.eng.lastAt <= x.e.at)
      BY <2>1, <2>4, <2>5
    <3>3. Streamed(f.g, B)
      BY <2>4, <2>5, <2>6, <2>7, <3>1, <3>2, StreamedStep
    <3>4. AllSeen(f.g, B)
      BY <2>4, <2>5, <2>6, <2>7, <3>1, <3>2, SeenStep
    <3>5. Len(B) = Len(p.applied) + 1 /\ Len(p.applied) \in Nat /\ B[Len(p.applied) + 1] = x
      BY <2>7, GrownIs
    <3>6. B[Len(B)].e.ses = ses /\ ses \in Int
      <4>1. B[Len(B)] = x
        BY <3>5
      <4> QED
        BY <2>5, <4>1 DEF IsRow
    <3>7. \A i \in 1..Len(B) : B[i].e.ses <= B[Len(B)].e.ses
      BY <3>3 DEF Streamed
    <3>8. InTurn(B, ses)
      BY <3>6, <3>7 DEF InTurn
    <3> QED
      BY <2>3, <3>3, <3>4, <3>8
  <2>9. SeenPipe(z, ses)
    BY <2>3, <2>8 DEF SeenPipe
  <2> QED
    BY <1>1, <2>9
<1> QED
  BY <1>2, <1>3

LEMMA SeenPipeLoop ==
    ASSUME NEW A, RowsApplied(A), NEW at \in Int, PipeFits(Pipeline, A, at),
           NEW rows, NEW ses, NEW from, CapturedRows(rows, ses, from, at),
           SeenPipe(Pipeline, ses)
    PROVE  SeenPipe(FoldLeft(PipelineApply, Pipeline, rows), ses)
<1>1. IsSequence(rows)
  BY DEF CapturedRows
<1>2. PICK N \in Nat : N = Len(rows)
  BY <1>1, SequenceParts
<1>3. PICK f : /\ f[0] = Pipeline /\ f[N] = FoldLeft(PipelineApply, Pipeline, rows)
               /\ \A n \in 1..N : f[n] = PipelineApply(f[n - 1], rows[n])
  BY <1>1, <1>2, RowsLoop
<1> DEFINE B == {n \in 0..N : PipeFits(f[n], A, at) /\ SeenPipe(f[n], ses)}
<1>4. 0 \in B
  BY <1>3
<1>5. ASSUME NEW n \in 1..N, n - 1 \in B PROVE n \in B
  <2>1. PICK p, e : p = f[n - 1] /\ e = rows[n]
    OBVIOUS
  <2>2. PipeFits(p, A, at) /\ SeenPipe(p, ses)
    BY <1>5, <2>1
  <2>3. IsRow(e) /\ e.at = at /\ e.ses = ses
    BY <1>2, <2>1 DEF CapturedRows, Captured
  <2>4. PipeFits(PipelineApply(p, e), A, at)
    BY <2>2, <2>3, PipeStep
  <2>5. SeenPipe(PipelineApply(p, e), ses)
    BY <2>2, <2>3, SeenPipeStep
  <2>6. f[n] = PipelineApply(p, e)
    BY <1>3, <2>1
  <2> QED
    BY <2>4, <2>5, <2>6
<1>6. N \in B
  <2> HIDE DEF B
  <2>1. \A n \in 1..N : n - 1 \in B => n \in B
    BY <1>5
  <2>2. \A n \in 0..N : n \in B
    BY <1>4, <2>1, UpTo
  <2> QED
    BY <2>2
<1> QED
  BY <1>3, <1>6

-----------------------------------------------------------------------------
(***************************************************************************)
(* Every recorded clock counted the events visible to it.                  *)
(***************************************************************************)
SnapshotInv ==
    /\ ~failed => /\ Streamed(eng, applied) /\ AllSeen(eng, applied)
                  /\ InTurn(applied, Len(sessions))
    /\ \A d \in out : PointInTime(d, applied)

\* No stream session is ever taken back.
LEMMA SameSessions ==
    ASSUME CaptureInv, CaptureInv', DOMAIN sessions' = DOMAIN sessions
    PROVE  Len(sessions') = Len(sessions)
<1>1. PICK s, z : s = sessions /\ z = sessions'
  OBVIOUS
<1>2. IsSequence(s) /\ IsSequence(z) /\ DOMAIN z = DOMAIN s
  BY <1>1 DEF CaptureInv
<1>3. PICK M, N \in Nat : /\ M = Len(s) /\ N = Len(z) /\ DOMAIN s = 1..M /\ DOMAIN z = 1..N
  <2>1. Len(s) \in Nat /\ Len(z) \in Nat /\ DOMAIN s = 1..Len(s) /\ DOMAIN z = 1..Len(z)
    BY <1>2, SequenceParts
  <2> QED
    BY <2>1
<1>4. M = N
  <2>1. 1..M = 1..N
    BY <1>2, <1>3
  <2>2. M > 0 => M \in 1..N
    BY <1>3, <2>1
  <2>3. N > 0 => N \in 1..M
    BY <1>3, <2>1
  <2> QED
    BY <1>3, <2>2, <2>3
<1> QED
  BY <1>1, <1>3, <1>4

LEMMA SnapshotInit == Init => SnapshotInv
<1> SUFFICES ASSUME Init PROVE SnapshotInv
  OBVIOUS
<1>1. applied = <<>> /\ eng = InitEngine /\ out = {}
  BY DEF Init
<1>2. Streamed(eng, applied) /\ AllSeen(eng, applied)
  BY <1>1, SeenInit
<1>3. InTurn(applied, Len(sessions))
  BY <1>1, EmptySequence DEF InTurn
<1> QED
  BY <1>1, <1>2, <1>3 DEF SnapshotInv

LEMMA SnapshotReceive ==
    ASSUME CaptureInv, CaptureInv', SelectionInv, SnapshotInv,
           NEW batch, batch \in IF down THEN {<<>>} ELSE Menus[menu], Receive(batch)
    PROVE  SnapshotInv'
<1>1. PICK rows, ses, from, at : /\ rows = Sent(batch).rows /\ ses = Len(sessions)
                                 /\ from = Len(Current.env) /\ at = now
  OBVIOUS
<1>2. CapturedRows(rows, ses, from, at)
  BY <1>1, ReceivedRows
<1>3. at \in Int
  BY <1>1 DEF CaptureInv
<1>4. PICK A, live : A = applied /\ live = FoldLeft(PipelineApply, Pipeline, rows)
  OBVIOUS
<1>5. /\ eng' = live.eng /\ applied' = live.applied /\ failed' = live.failed /\ out' = out
  BY <1>1, <1>4 DEF Receive
<1>6. Len(sessions') = ses
  <2>1. DOMAIN sessions' = DOMAIN sessions
    BY DEF Receive
  <2> QED
    BY <1>1, <2>1, SameSessions
<1>7. RowsApplied(A)
  BY <1>4 DEF SelectionInv
<1>8. PipeFits(Pipeline, A, at)
  BY <1>1, <1>3, <1>4, PipeStart
<1>9. SeenPipe(Pipeline, ses)
  <2>1. PICK p : p = Pipeline
    OBVIOUS
  <2>2. p.eng = eng /\ p.applied = applied /\ p.failed = failed
    BY <2>1 DEF Pipeline
  <2>3. SeenPipe(p, ses)
    BY <1>1, <2>2 DEF SeenPipe, SnapshotInv
  <2> QED
    BY <2>1, <2>3
<1>10. PipeFits(live, A, at)
  BY <1>2, <1>3, <1>4, <1>7, <1>8, PipeLoop
<1>11. SeenPipe(live, ses)
  BY <1>2, <1>3, <1>4, <1>7, <1>8, <1>9, SeenPipeLoop
<1>12. PICK B : B = applied'
  OBVIOUS
<1>13. RowsApplied(B) /\ Extends(A, B, at)
  BY <1>5, <1>10, <1>12 DEF PipeFits
<1>14. ~failed' => Streamed(eng', B) /\ AllSeen(eng', B) /\ InTurn(B, Len(sessions'))
  BY <1>5, <1>6, <1>11, <1>12 DEF SeenPipe
<1>15. ASSUME NEW d \in out' PROVE PointInTime(d, B)
  <2>1. PointInTime(d, A)
    BY <1>4, <1>5, <1>15 DEF SnapshotInv
  <2> QED
    BY <1>7, <1>13, <2>1, PointInTimeMore
<1> QED
  BY <1>12, <1>14, <1>15, Zenon DEF SnapshotInv

LEMMA SnapshotDecide ==
    ASSUME CaptureInv, SelectionInv, SnapshotInv, Decide PROVE SnapshotInv'
<1>1. /\ applied' = applied /\ sessions' = sessions /\ ~failed /\ ClockDue
      /\ \/ failed' = TRUE /\ out' = out
         \/ \E d, C : Deciding(d, C, NextClock)
  BY DecideCases
<1>2. PICK t : t = NextClock
  OBVIOUS
<1>3. t \in Int
  BY <1>1, <1>2, DueIs, NextClockIs
<1>4. /\ EngineFits(eng) /\ Streamed(eng, applied) /\ AllSeen(eng, applied)
      /\ InTurn(applied, Len(sessions)) /\ \A d \in out : PointInTime(d, applied)
  BY <1>1 DEF SelectionInv, SnapshotInv
<1>5. CASE failed' = TRUE /\ out' = out
  BY <1>1, <1>4, <1>5 DEF SnapshotInv
<1>6. ASSUME NEW d, NEW C, Deciding(d, C, NextClock) PROVE SnapshotInv'
  <2>1. Deciding(d, C, t)
    BY <1>2, <1>6
  <2>2. eng' = EngineDecided(eng, t) /\ out' = out \cup {d} /\ ~SnapshotsRefused(eng, t)
    BY <2>1 DEF Deciding
  <2>3. Serves(eng, t)
    <3>1. /\ eng.decided # None => ~(t <= eng.decided)
          /\ eng.lastAt # None => ~(eng.lastAt > t)
      BY <2>2 DEF SnapshotsRefused
    <3>2. /\ eng.decided # None => eng.decided \in Int
          /\ eng.lastAt # None => eng.lastAt \in Int
      BY <1>4 DEF Streamed, EngineFits
    <3> QED
      BY <1>3, <3>1, <3>2 DEF Serves
  <2>4. PointInTime(d, applied)
    BY <1>4, <2>1, <2>3, DecisionPointInTime
  <2>5. Streamed(EngineDecided(eng, t), applied)
    BY <1>4, <2>3, StreamedDecided
  <2>6. AllSeen(EngineDecided(eng, t), applied)
    BY <1>4, <2>3, SeenDecided
  <2>7. Streamed(eng', applied) /\ AllSeen(eng', applied)
    BY <2>2, <2>5, <2>6
  <2>8. \A z \in out' : PointInTime(z, applied)
    BY <1>4, <2>2, <2>4
  <2> QED
    BY <1>1, <1>4, <2>7, <2>8 DEF SnapshotInv
<1> QED
  BY <1>1, <1>5, <1>6

\* A session is added or the capture ends: the engine has the rows it had.
LEMMA SnapshotKept ==
    ASSUME CaptureInv, CaptureInv', SelectionInv, SnapshotInv,
           UNCHANGED <<applied, eng, out, failed>>, Len(sessions') >= Len(sessions)
    PROVE  SnapshotInv'
<1>1. PICK A, m, n : A = applied /\ m = Len(sessions) /\ n = Len(sessions')
  OBVIOUS
<1>2. m \in Nat /\ n \in Nat /\ m <= n
  <2>1. IsSequence(sessions) /\ IsSequence(sessions')
    BY DEF CaptureInv
  <2>2. Len(sessions) \in Nat /\ Len(sessions') \in Nat
    BY <2>1, SequenceParts
  <2> QED
    BY <1>1, <2>2
<1>3. RowsApplied(A) /\ Len(A) \in Nat
  BY <1>1, SequenceParts DEF SelectionInv, RowsApplied
<1>4. ASSUME InTurn(A, m) PROVE InTurn(A, n)
  <2>1. ASSUME Len(A) > 0 PROVE A[Len(A)].e.ses <= n
    <3>1. Len(A) \in 1..Len(A)
      BY <1>3, <2>1
    <3>2. A[Len(A)].e.ses \in Int
      BY <1>3, <3>1 DEF RowsApplied, IsRow
    <3>3. A[Len(A)].e.ses <= m
      BY <1>4, <2>1 DEF InTurn
    <3> QED
      BY <1>2, <3>2, <3>3
  <2> QED
    BY <1>4, <2>1 DEF InTurn
<1>5. ~failed => Streamed(eng, A) /\ AllSeen(eng, A) /\ InTurn(A, n)
  BY <1>1, <1>4 DEF SnapshotInv
<1>6. \A d \in out : PointInTime(d, A)
  BY <1>1 DEF SnapshotInv
<1> QED
  BY <1>1, <1>5, <1>6 DEF SnapshotInv

LEMMA SnapshotStep ==
    CaptureInv /\ CaptureInv' /\ SelectionInv /\ SnapshotInv /\ [Next]_vars => SnapshotInv'
<1> SUFFICES ASSUME CaptureInv, CaptureInv', SelectionInv, SnapshotInv, [Next]_vars
             PROVE  SnapshotInv'
  OBVIOUS
<1>1. Len(sessions) \in Nat
  BY CurrentIs
<1>2. ASSUME UNCHANGED <<applied, eng, out, failed>>, DOMAIN sessions' = DOMAIN sessions
      PROVE  SnapshotInv'
  <2>1. Len(sessions') >= Len(sessions)
    BY <1>1, <1>2, SameSessions
  <2> QED
    BY <1>2, <2>1, SnapshotKept
<1>3. ASSUME NEW kind, Disconnect(kind) PROVE SnapshotInv'
  BY <1>2, <1>3 DEF Disconnect
<1>4. CASE Connect
  <2>1. PICK x : sessions' = Append(sessions, x)
    BY <1>4 DEF Connect
  <2>2. Len(sessions') = Len(sessions) + 1
    BY <2>1, AppendSequence DEF CaptureInv
  <2>3. UNCHANGED <<applied, eng, out, failed>> /\ Len(sessions') >= Len(sessions)
    BY <1>1, <1>4, <2>2 DEF Connect
  <2> QED
    BY <2>3, SnapshotKept
<1>5. CASE Certify
  <2>1. UNCHANGED <<applied, eng, out, failed>> /\ DOMAIN sessions' = DOMAIN sessions
    BY <1>5 DEF Certify
  <2> QED
    BY <1>2, <2>1
<1>6. CASE UNCHANGED vars
  BY <1>2, <1>6 DEF vars
<1> QED
  BY <1>3, <1>4, <1>5, <1>6, SnapshotReceive, SnapshotDecide DEF Next

\* The sets of the property, over the rows applied.
LEMMA VisibleIs ==
    ASSUME NEW s, NEW n \in 0..Len(applied), NEW t, NEW w, NEW L,
           L = VisibleIn(applied, s, n, session_at(t))
    PROVE  /\ TradesWithin(s, n, t, w) = Since(applied, OfKind(applied, L, "trade"), t - w)
           /\ ChangesWithin(s, n, t, w) = Since(applied, Changes(applied, L), t - w)
<1>1. Visible(s, n, t) = L
  BY DEF Visible, AcceptedOf, VisibleIn, Accepted
<1>2. TradesWithin(s, n, t, w) = Since(applied, OfKind(applied, L, "trade"), t - w)
  BY <1>1 DEF TradesWithin, Since, OfKind
<1>3. \A i : QuotesBefore(s, n, t, i) = QuotesTo(applied, L, i)
  BY <1>1 DEF QuotesBefore, QuotesTo
<1>4. \A i : i \in ChangesWithin(s, n, t, w) <=> i \in Since(applied, Changes(applied, L), t - w)
  BY <1>1, <1>3 DEF ChangesWithin, Since, Changes
<1>5. ChangesWithin(s, n, t, w) = Since(applied, Changes(applied, L), t - w)
  <2>1. PICK a, b : a = ChangesWithin(s, n, t, w) /\ b = Since(applied, Changes(applied, L), t - w)
    OBVIOUS
  <2>2. \A i : i \in a <=> i \in b
    BY <1>4, <2>1
  <2>3. a = b
    BY <2>2
  <2> QED
    BY <2>1, <2>3
<1> QED
  BY <1>2, <1>5

LEMMA SnapshotImplied == SnapshotInv => SnapshotsArePointInTime
<1> SUFFICES ASSUME SnapshotInv, NEW d \in out, NEW s \in Symbols, NEW i \in DOMAIN Windows
             PROVE  LET w == d.snaps[s].windows[i]
                        trades == TradesWithin(s, d.upto, d.at, Windows[i])
                        first == applied[Min(trades)].e  last == applied[Max(trades)].e
                    IN  /\ w.trades = Cardinality(trades)
                        /\ w.volume = SumFunction([k \in trades |-> applied[k].e.qty])
                        /\ w.changes = Cardinality(ChangesWithin(s, d.upto, d.at, Windows[i]))
                        /\ w.trades >= 2 =>
                              w.return = basis_points(last.price - first.price, first.price)
  BY DEF SnapshotsArePointInTime
<1>1. PICK w, L, T, after : /\ w = d.snaps[s].windows[i]
                            /\ L = VisibleIn(applied, s, d.upto, session_at(d.at))
                            /\ after = d.at - Windows[i]
                            /\ T = Since(applied, OfKind(applied, L, "trade"), after)
  OBVIOUS
<1>2. d.upto \in 0..Len(applied) /\ Recounts(w, applied, L, after)
  BY <1>1 DEF SnapshotInv, PointInTime
<1>3. /\ TradesWithin(s, d.upto, d.at, Windows[i]) = T
      /\ ChangesWithin(s, d.upto, d.at, Windows[i]) = Since(applied, Changes(applied, L), after)
  BY <1>1, <1>2, VisibleIs
<1>4. /\ w.trades = Cardinality(T)
      /\ w.volume = SumFunction([k \in T |-> applied[k].e.qty])
      /\ w.changes = Cardinality(Since(applied, Changes(applied, L), after))
      /\ w.trades >= 2 =>
            w.return = basis_points(applied[Max(T)].e.price - applied[Min(T)].e.price,
                                    applied[Min(T)].e.price)
  BY <1>1, <1>2 DEF Recounts
<1> QED
  BY <1>1, <1>3, <1>4

\* Every window of every recorded clock is a function of exactly the accepted events of the
\* current stream and market session received in it, over every reset, pruning and session
\* switch (features/engine.py _observe, _prune, _snapshot and _window).
THEOREM PointInTimeSnapshots == Spec => []SnapshotsArePointInTime
<1>1. Init => CaptureInv /\ SelectionInv /\ SnapshotInv
  BY CaptureInit, SelectionInit, SnapshotInit
<1>2. CaptureInv /\ SelectionInv /\ SnapshotInv /\ [Next]_vars
        => (CaptureInv /\ SelectionInv /\ SnapshotInv)'
  BY CaptureStep, SelectionStep, SnapshotStep
<1>3. CaptureInv /\ SelectionInv /\ SnapshotInv => SnapshotsArePointInTime
  BY SnapshotImplied
<1> QED
  BY <1>1, <1>2, <1>3, PTL DEF Spec
=============================================================================
