---------------------------- MODULE Arbitration ----------------------------
(***************************************************************************)
(* arbitration/engine.py and arbitration/model.py: the stateful selector   *)
(* shared by replay and the live shadow clock.  At each clock it takes one *)
(* winner per symbol outside its cooldown, and at most Policy.capacity     *)
(* winners; only a candidate really selected starts a cooldown.            *)
(***************************************************************************)
EXTENDS Baselines

CONSTANTS Policy,    \* [cooldown, capacity, rules: strategy -> [priority, minimum]]
          SymbolRank \* the alphabetical order of the symbols

\* A rule for every strategy of the baselines, each of its own priority.
ASSUME ArbitrationAssumption ==
    /\ Policy.capacity \in Nat \ {0} /\ Policy.cooldown \in Nat
    /\ DOMAIN Policy.rules = BASELINE_NAMES
    /\ \A a \in BASELINE_NAMES : Policy.rules[a].priority \in Nat
    /\ \A a, b \in BASELINE_NAMES :
          a # b => Policy.rules[a].priority # Policy.rules[b].priority
    /\ \A s, z \in Symbols : /\ SymbolRank[s] \in Nat
                             /\ s # z => SymbolRank[s] # SymbolRank[z]

\* selected is the last candidate selected of each symbol that had one.
InitArbitrator == [selected |-> <<>>, clock |-> None]

\* Priority, then strength, then symbol; candidates of a symbol differ in priority.
Precedes(a, b) ==
    LET pa == Policy.rules[a.strategy].priority  pb == Policy.rules[b.strategy].priority
    IN  \/ pa < pb
        \/ pa = pb /\ b.strength < a.strength
        \/ pa = pb /\ ~(a.strength < b.strength) /\ SymbolRank[a.sym] < SymbolRank[b.sym]

Eligible(candidates, s) ==
    {c \in candidates : /\ c.sym = s /\ c.block = None
                        /\ c.strength >= Policy.rules[c.strategy].minimum}

\* Mutant: the comparison with the end of the cooldown is inverted.
CoolingDownInverted(a, s, t) ==
    s \in DOMAIN a.selected /\ t >= a.selected[s].at + Policy.cooldown

CoolingDown(a, s, t) ==
    s \in DOMAIN a.selected /\ t < a.selected[s].at + Policy.cooldown

Winners(a, candidates, t) ==
    {c \in candidates :
        LET rivals == Eligible(candidates, c.sym)
        IN  /\ c \in rivals /\ ~CoolingDown(a, c.sym, t)
            /\ \A r \in rivals : r # c => Precedes(c, r)}

\* The position of a winner among the winners of its clock, best first.
RankOf(c, winners) == Cardinality({w \in winners : w # c /\ Precedes(w, c)})

Selected(a, candidates, t) ==
    LET winners == Winners(a, candidates, t)
    IN  {c \in winners : RankOf(c, winners) < Policy.capacity}

\* CandidateArbitrator._result for each candidate of the clock.
Result(a, candidates, t, c) ==
    LET winners == Winners(a, candidates, t)
        chosen == Selected(a, candidates, t)
        mine == {w \in winners : w.sym = c.sym}
        rejected(reason, by) == [cand |-> c, status |-> "REJECTED", reason |-> reason,
                                 priority |-> None, by |-> by]
    IN  IF c.block # None THEN rejected("UPSTREAM_BLOCKED", None)
        ELSE IF c \notin Eligible(candidates, c.sym) THEN rejected("BELOW_MINIMUM_STRENGTH", None)
        ELSE IF CoolingDown(a, c.sym, t) THEN rejected("SYMBOL_COOLDOWN", a.selected[c.sym])
        ELSE IF c \in chosen THEN [cand |-> c, status |-> "SELECTED", reason |-> None,
                                   priority |-> RankOf(c, winners), by |-> c]
        ELSE IF mine \subseteq chosen
        THEN rejected("LOWER_STRATEGY_PRIORITY", CHOOSE w \in mine : TRUE)
        ELSE rejected("CLOCK_CAPACITY", None)

decide(a, candidates, t) == {Result(a, candidates, t, c) : c \in candidates}

DecideRefused(a, t) == a.clock # None /\ t <= a.clock

ArbitratorDecided(a, candidates, t) ==
    LET chosen == Selected(a, candidates, t)
    IN  [clock |-> t,
         selected |-> [s \in DOMAIN a.selected \cup {c.sym : c \in chosen} |->
             IF \E c \in chosen : c.sym = s THEN CHOOSE c \in chosen : c.sym = s
             ELSE a.selected[s]]]
=============================================================================
