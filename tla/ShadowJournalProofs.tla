------------------------ MODULE ShadowJournalProofs ------------------------
(***************************************************************************)
(* A committed journal is whole, for any clocks, rows, sessions, processes *)
(* and crashes.                                                            *)
(*                                                                         *)
(* The first half is about the journal object alone: whatever is called on *)
(* it, live or in a rebuild, its records are those of the clocks before    *)
(* the next one, and only close makes a manifest of them.  The second half *)
(* is the inductive invariant: the spool holds a prefix of one journal's   *)
(* objects, because a second process connects after the first clock and so *)
(* can close no journal; and an object reaches the store only after the    *)
(* ones before it, from the spool or from a rebuild of the same day.       *)
(***************************************************************************)
EXTENDS ShadowJournal, WellFoundedInduction, TLAPS

LEMMA FirstOf == ASSUME NEW B \in SUBSET Nat, B # {} PROVE \E n \in B : \A m \in B : ~(m < n)
<1>1. PICK n \in B : \A m \in B : ~(<<m, n>> \in OpToRel(<, Nat))
  BY NatLessThanWellFounded, WFMin, Zenon
<1> QED
  BY <1>1 DEF OpToRel

LEMMA Counting ==
    ASSUME NEW N \in Nat, NEW B, 0 \in B, \A n \in 1..N : n - 1 \in B => n \in B
    PROVE  N \in B
<1> DEFINE C == {n \in 0..N : n \notin B}
<1>1. C = {}
  <2> SUFFICES ASSUME C # {} PROVE FALSE
    OBVIOUS
  <2>1. PICK n \in C : \A m \in C : ~(m < n)
    <3>1. C \in SUBSET Nat
      OBVIOUS
    <3> HIDE DEF C
    <3> QED
      BY <3>1, FirstOf
  <2>2. n \in 1..N /\ n - 1 \in 0..N /\ n - 1 < n
    BY <2>1
  <2>3. n - 1 \notin C
    <3> HIDE DEF C
    <3> QED
      BY <2>1, <2>2
  <2> QED
    BY <2>1, <2>2, <2>3
<1> QED
  BY <1>1

-----------------------------------------------------------------------------
(***************************************************************************)
(* The journal's loops: over the clocks, the rows of a session, the        *)
(* certified sessions and the sessions of the day.                         *)
(***************************************************************************)
StepOf(loop, x, n) ==
    IF loop.over = "clocks"
    THEN IF x.next = n /\ Clocks[n] <= loop.cutoff THEN Decided(x, Clocks[n]) ELSE x
    ELSE IF loop.over = "rows" THEN ReplayRow(x, loop.rows, n)
    ELSE IF loop.over = "sessions" THEN ReplaySession(x, loop.sessions[n])
    ELSE IF loop.sessions[n] \in loop.chosen THEN Append(x, loop.sessions[n]) ELSE x

Looping(f, loop, base, N) ==
    f = [n \in 0..N |-> IF n = 0 THEN base ELSE StepOf(loop, f[n - 1], n)]

LEMMA LoopExists == ASSUME NEW loop, NEW base, NEW N \in Nat PROVE \E f : Looping(f, loop, base, N)
<1> DEFINE B == {n \in Nat : \E f : Looping(f, loop, base, n)}
<1>1. 0 \in B
  <2>1. PICK f : f = [n \in 0..0 |-> base]
    OBVIOUS
  <2>2. Looping(f, loop, base, 0)
    BY <2>1 DEF Looping
  <2> QED
    BY <2>2
<1>2. ASSUME NEW m \in 1..N, m - 1 \in B PROVE m \in B
  <2>1. PICK f : Looping(f, loop, base, m - 1)
    BY <1>2
  <2>2. PICK g : g = [n \in 0..m |-> IF n = m THEN StepOf(loop, f[m - 1], m) ELSE f[n]]
    OBVIOUS
  <2>3. ASSUME NEW n \in 0..m PROVE g[n] = IF n = 0 THEN base ELSE StepOf(loop, g[n - 1], n)
    <3>1. CASE n = m
      <4>1. m - 1 \in 0..m /\ m - 1 # m /\ m \in 0..m /\ m # 0
        OBVIOUS
      <4>2. g[m - 1] = f[m - 1] /\ g[m] = StepOf(loop, f[m - 1], m)
        BY <2>2, <4>1
      <4> QED
        BY <3>1, <4>1, <4>2
    <3>2. CASE n # m
      <4>1. n \in 0..(m - 1)
        BY <3>2
      <4>2. g[n] = f[n] /\ (n # 0 => n - 1 \in 0..(m - 1) /\ n - 1 # m /\ g[n - 1] = f[n - 1])
        BY <2>2, <4>1
      <4>3. f[n] = IF n = 0 THEN base ELSE StepOf(loop, f[n - 1], n)
        BY <2>1, <4>1 DEF Looping
      <4> QED
        BY <4>2, <4>3
    <3> QED
      BY <3>1, <3>2
  <2>4. Looping(g, loop, base, m)
    BY <2>2, <2>3 DEF Looping
  <2> QED
    BY <2>4
<1> HIDE DEF B
<1>3. N \in B
  BY <1>1, <1>2, Counting
<1> QED
  BY <1>3 DEF B

LEMMA LoopAt ==
    ASSUME NEW f, NEW loop, NEW base, NEW N \in Nat, Looping(f, loop, base, N)
    PROVE  /\ f[0] = base
           /\ \A n \in 1..N : f[n] = StepOf(loop, f[n - 1], n)
BY DEF Looping

OverClocks(c) == [over |-> "clocks", cutoff |-> c]
OverRows(r) == [over |-> "rows", rows |-> r]
OverDay(s, S) == [over |-> "day", sessions |-> s, chosen |-> S]
OverSessions(s) == [over |-> "sessions", sessions |-> s]

LEMMA ClockLoop ==
    ASSUME NEW jj, NEW c PROVE
      /\ \A x, n : StepOf(OverClocks(c), x, n) =
                     IF x.next = n /\ Clocks[n] <= c THEN Decided(x, Clocks[n]) ELSE x
      /\ Looping(DecidedUpTo(jj, c), OverClocks(c), jj, Len(Clocks))
<1>1. \A x, n : StepOf(OverClocks(c), x, n) =
                  IF x.next = n /\ Clocks[n] <= c THEN Decided(x, Clocks[n]) ELSE x
  BY DEF StepOf, OverClocks
<1>2. PICK L : L = OverClocks(c)
  OBVIOUS
<1>3. PICK d : d = CHOOSE f : Looping(f, L, jj, Len(Clocks))
  OBVIOUS
<1>4. Looping(d, L, jj, Len(Clocks))
  <2>1. Len(Clocks) \in Nat
    BY JournalAssumption
  <2>2. \E f : Looping(f, L, jj, Len(Clocks))
    BY <2>1, LoopExists
  <2> QED
    BY <1>3, <2>2
<1>5. ASSUME NEW f
      PROVE  Looping(f, L, jj, Len(Clocks)) <=>
               f = [n \in 0..Len(Clocks) |->
                      IF n = 0 THEN jj
                      ELSE IF f[n - 1].next = n /\ Clocks[n] <= c
                           THEN Decided(f[n - 1], Clocks[n]) ELSE f[n - 1]]
  <2>1. [n \in 0..Len(Clocks) |-> IF n = 0 THEN jj ELSE StepOf(L, f[n - 1], n)] =
        [n \in 0..Len(Clocks) |->
                      IF n = 0 THEN jj
                      ELSE IF f[n - 1].next = n /\ Clocks[n] <= c
                           THEN Decided(f[n - 1], Clocks[n]) ELSE f[n - 1]]
    BY <1>1, <1>2
  <2> QED
    BY <2>1 DEF Looping
<1>6. d = DecidedUpTo(jj, c)
  BY <1>3, <1>5 DEF DecidedUpTo
<1> QED
  BY <1>1, <1>2, <1>4, <1>6

LEMMA RowLoop ==
    ASSUME NEW jj, NEW rows, Len(rows) \in Nat PROVE
      \E f : /\ Looping(f, OverRows(rows), jj, Len(rows))
             /\ ReplayRows(jj, rows) = f[Len(rows)]
<1>1. \A x, n : StepOf(OverRows(rows), x, n) = ReplayRow(x, rows, n)
  BY DEF StepOf, OverRows
<1>2. PICK L : L = OverRows(rows)
  OBVIOUS
<1>3. PICK d : d = CHOOSE f : Looping(f, L, jj, Len(rows))
  OBVIOUS
<1>4. Looping(d, L, jj, Len(rows))
  BY <1>3, LoopExists
<1>5. ASSUME NEW f
      PROVE  Looping(f, L, jj, Len(rows)) <=>
               f = [n \in 0..Len(rows) |-> IF n = 0 THEN jj ELSE ReplayRow(f[n - 1], rows, n)]
  BY <1>1, <1>2, Zenon DEF Looping
<1>6. ReplayRows(jj, rows) = d[Len(rows)]
  BY <1>3, <1>5 DEF ReplayRows
<1> QED
  BY <1>2, <1>4, <1>6

LEMMA SessionLoop ==
    ASSUME NEW sessions, Len(sessions) \in Nat PROVE
      \E f : /\ Looping(f, OverSessions(sessions), NewJournal, Len(sessions))
             /\ Replayed(sessions) = f[Len(sessions)]
<1>1. \A x, n : StepOf(OverSessions(sessions), x, n) = ReplaySession(x, sessions[n])
  BY DEF StepOf, OverSessions
<1>2. PICK L, b : L = OverSessions(sessions) /\ b = NewJournal
  OBVIOUS
<1>3. PICK d : d = CHOOSE f : Looping(f, L, b, Len(sessions))
  OBVIOUS
<1>4. Looping(d, L, b, Len(sessions))
  BY <1>3, LoopExists
<1>5. ASSUME NEW f
      PROVE  Looping(f, L, b, Len(sessions)) <=>
               f = [n \in 0..Len(sessions) |->
                      IF n = 0 THEN NewJournal ELSE ReplaySession(f[n - 1], sessions[n])]
  BY <1>1, <1>2, Zenon DEF Looping
<1>6. Replayed(sessions) = d[Len(sessions)]
  BY <1>3, <1>5 DEF Replayed
<1> QED
  BY <1>2, <1>4, <1>6

LEMMA AmongType ==
    ASSUME NEW T, NEW sessions \in Seq(T), NEW S PROVE Among(sessions, S) \in Seq(T)
<1>1. PICK L, N, b : L = OverDay(sessions, S) /\ N = Len(sessions) /\ b = <<>>
  OBVIOUS
<1>2. N \in Nat
  BY <1>1
<1>3. \A x, n : StepOf(L, x, n) = IF sessions[n] \in S THEN Append(x, sessions[n]) ELSE x
  BY <1>1 DEF StepOf, OverDay
<1>4. PICK f : f = CHOOSE g : Looping(g, L, b, N)
  OBVIOUS
<1>5. Looping(f, L, b, N)
  BY <1>2, <1>4, LoopExists
<1>6. ASSUME NEW g
      PROVE  Looping(g, L, b, N) <=>
               g = [n \in 0..Len(sessions) |->
                      IF n = 0 THEN <<>>
                      ELSE IF sessions[n] \in S THEN Append(g[n - 1], sessions[n]) ELSE g[n - 1]]
  <2>1. [n \in 0..N |-> IF n = 0 THEN b ELSE StepOf(L, g[n - 1], n)] =
        [n \in 0..Len(sessions) |->
           IF n = 0 THEN <<>>
           ELSE IF sessions[n] \in S THEN Append(g[n - 1], sessions[n]) ELSE g[n - 1]]
    BY <1>1, <1>3
  <2> QED
    BY <2>1 DEF Looping
<1>7. Among(sessions, S) = f[N]
  BY <1>1, <1>4, <1>6 DEF Among
<1>8. f[0] = <<>> /\ \A n \in 1..N : f[n] = StepOf(L, f[n - 1], n)
  BY <1>1, <1>2, <1>5, LoopAt
<1> DEFINE B == {n \in 0..N : f[n] \in Seq(T)}
<1>9. 0 \in B
  <2>1. <<>> \in Seq(T) /\ f[0] = <<>>
    BY <1>8
  <2>2. f[0] \in Seq(T)
    BY <2>1, Zenon
  <2>3. 0 \in 0..N
    BY <1>2
  <2> QED
    BY <2>2, <2>3, Zenon
<1>10. ASSUME NEW n \in 1..N, n - 1 \in B PROVE n \in B
  <2>1. PICK x, s : x = f[n - 1] /\ s = sessions[n]
    OBVIOUS
  <2>2. s \in T /\ x \in Seq(T)
    BY <1>1, <1>10, <2>1
  <2>3. f[n] = IF s \in S THEN Append(x, s) ELSE x
    BY <1>3, <1>8, <2>1
  <2>4. Append(x, s) \in Seq(T)
    BY <2>2
  <2>5. f[n] \in Seq(T)
    BY <2>2, <2>3, <2>4
  <2> QED
    BY <2>5
<1>11. N \in B
  <2> HIDE DEF B
  <2> QED
    BY <1>2, <1>9, <1>10, Counting
<1> QED
  BY <1>7, <1>11

-----------------------------------------------------------------------------
(***************************************************************************)
(* What every operation of the journal keeps.                              *)
(***************************************************************************)
RecordedAt(log) == {d.at : d \in log}
ClocksUpTo(n) == {Clocks[i] : i \in 1..n}

Shape(jj) ==
    jj = [next |-> jj.next, pending |-> jj.pending, lastIn |-> jj.lastIn,
          applied |-> jj.applied, open |-> jj.open, gaps |-> jj.gaps, ids |-> jj.ids,
          first |-> jj.first, failed |-> jj.failed, manifest |-> jj.manifest, log |-> jj.log]

\* The records are those of the clocks before the next one.
IsJournal(jj) ==
    /\ Shape(jj)
    /\ jj.next \in 1..(Len(Clocks) + 1)
    /\ RecordedAt(jj.log) = ClocksUpTo(jj.next - 1)

\* An operation other than connecting, closing or failing to.
Same(a, b) == /\ b.ids = a.ids /\ b.first = a.first /\ b.manifest = a.manifest
              /\ a.failed => b.failed

\* No clock after the limit has been decided.
Until(jj, limit) == jj.next > 1 => Clocks[jj.next - 1] <= limit

LEMMA NewIsJournal ==
    IsJournal(NewJournal) /\ NewJournal.manifest = None /\ NewJournal.next = 1
    /\ NewJournal.ids = <<>> /\ NewJournal.first = None
<1>1. PICK n : n = NewJournal
  OBVIOUS
<1>2. /\ n = [next |-> 1, pending |-> <<>>, lastIn |-> None, applied |-> {}, open |-> None,
              gaps |-> {}, ids |-> <<>>, first |-> None, failed |-> FALSE, manifest |-> None,
              log |-> {}]
  BY <1>1 DEF NewJournal
<1>3. Shape(n) /\ n.next = 1 /\ n.log = {} /\ n.manifest = None /\ n.ids = <<>> /\ n.first = None
  BY <1>2 DEF Shape
<1>4. 1 \in 1..(Len(Clocks) + 1)
  BY JournalAssumption
<1>5. RecordedAt({}) = ClocksUpTo(0)
  BY DEF RecordedAt, ClocksUpTo
<1> QED
  BY <1>1, <1>3, <1>4, <1>5 DEF IsJournal

\* What neither decides a clock nor connects.
LEMMA Unmoved ==
    ASSUME NEW a, NEW b, IsJournal(a), Shape(b), b.next = a.next, b.log = a.log
    PROVE  /\ IsJournal(b)
           /\ \A limit : Until(a, limit) => Until(b, limit)
BY DEF IsJournal, Until

LEMMA FailedFacts ==
    ASSUME NEW jj, IsJournal(jj)
    PROVE  /\ IsJournal(Failed(jj)) /\ Same(jj, Failed(jj)) /\ Failed(jj).failed
           /\ Failed(jj).next = jj.next
           /\ \A limit : Until(jj, limit) => Until(Failed(jj), limit)
<1>1. PICK b : b = Failed(jj)
  OBVIOUS
<1>2. Shape(b) /\ b.next = jj.next /\ b.log = jj.log /\ b.failed /\ Same(jj, b)
  BY <1>1 DEF IsJournal, Shape, Failed, Same
<1> QED
  BY <1>1, <1>2, Unmoved

LEMMA ApplyFacts ==
    ASSUME NEW jj, IsJournal(jj), NEW cutoff
    PROVE  LET b == _apply_until(jj, cutoff) IN
           /\ IsJournal(b) /\ Same(jj, b) /\ b.next = jj.next
           /\ \A limit : Until(jj, limit) => Until(b, limit)
<1>1. PICK b, due : b = _apply_until(jj, cutoff) /\ due = Due(jj.pending, cutoff)
  OBVIOUS
<1>2. CASE \E r \in Range(due) : RefusesRow(jj, r)
  <2>1. b = Failed(jj)
    BY <1>1, <1>2 DEF _apply_until
  <2> QED
    BY <1>1, <2>1, FailedFacts
<1>3. CASE ~\E r \in Range(due) : RefusesRow(jj, r)
  <2>1. PICK x, y : x = jj.applied \cup Range(due) /\ y = SubSeq(jj.pending, Len(due) + 1, Len(jj.pending))
    OBVIOUS
  <2>2. b = [jj EXCEPT !.applied = x, !.pending = y]
    BY <1>1, <1>3, <2>1 DEF _apply_until
  <2>3. Shape(b) /\ b.next = jj.next /\ b.log = jj.log /\ Same(jj, b)
    BY <2>2 DEF IsJournal, Shape, Same
  <2> QED
    BY <1>1, <2>3, Unmoved
<1> QED
  BY <1>2, <1>3

LEMMA DecidedFacts ==
    ASSUME NEW jj, IsJournal(jj), jj.next <= Len(Clocks), NEW t, t = Clocks[jj.next]
    PROVE  LET b == Decided(jj, t) IN
           /\ IsJournal(b) /\ Same(jj, b)
           /\ \A limit : Until(jj, limit) /\ t <= limit => Until(b, limit)
<1>1. PICK a, b : a = _apply_until(jj, t) /\ b = Decided(jj, t)
  OBVIOUS
<1>2. IsJournal(a) /\ Same(jj, a) /\ a.next = jj.next
  BY <1>1, ApplyFacts
<1>3. CASE jj.failed \/ a.failed
  <2>1. b = Failed(jj)
    BY <1>1, <1>3 DEF Decided
  <2> QED
    BY <1>1, <2>1, FailedFacts
<1>4. CASE ~(jj.failed \/ a.failed)
  <2>1. PICK r : r = [at |-> t, rows |-> a.applied, gap |-> _gap_affected(a, t)]
    OBVIOUS
  <2>2. PICK n, l : n = a.next + 1 /\ l = a.log \cup {r}
    OBVIOUS
  <2>3. b = [a EXCEPT !.next = n, !.log = l]
    BY <1>1, <1>4, <2>1, <2>2 DEF Decided
  <2>4. Shape(b) /\ b.next = n /\ b.log = l /\ Same(a, b)
    BY <1>2, <2>3 DEF IsJournal, Shape, Same
  <2>5. jj.next \in Nat /\ jj.next >= 1 /\ n = jj.next + 1 /\ Len(Clocks) \in Nat
    BY <1>2, <2>2, JournalAssumption DEF IsJournal
  <2>6. n \in 1..(Len(Clocks) + 1)
    BY <2>5
  <2>7. RecordedAt(l) = RecordedAt(a.log) \cup {t}
    BY <2>1, <2>2 DEF RecordedAt
  <2>8. ClocksUpTo(n - 1) = ClocksUpTo(jj.next - 1) \cup {t}
    <3>1. n - 1 = jj.next
      BY <2>5
    <3>2. 1..jj.next = (1..(jj.next - 1)) \cup {jj.next}
      BY <2>5
    <3> QED
      BY <3>1, <3>2 DEF ClocksUpTo
  <2>9. RecordedAt(l) = ClocksUpTo(n - 1)
    BY <1>2, <2>7, <2>8 DEF IsJournal
  <2>10. \A limit : t <= limit => Until(b, limit)
    BY <2>4, <2>5 DEF Until
  <2> QED
    BY <1>1, <1>2, <2>4, <2>6, <2>9, <2>10 DEF IsJournal, Same
<1> QED
  BY <1>3, <1>4

\* The loop of _advance.
LEMMA DecidedUpToFacts ==
    ASSUME NEW jj, IsJournal(jj), NEW cutoff
    PROVE  LET b == DecidedUpTo(jj, cutoff)[Len(Clocks)] IN
           /\ IsJournal(b) /\ Same(jj, b)
           /\ \A limit \in Int : cutoff \in Int /\ cutoff <= limit /\ Until(jj, limit) => Until(b, limit)
<1>1. PICK N, f, L : N = Len(Clocks) /\ f = DecidedUpTo(jj, cutoff) /\ L = OverClocks(cutoff)
  OBVIOUS
<1>2. N \in Nat
  BY <1>1, JournalAssumption
<1>3. /\ f[0] = jj
      /\ \A n \in 1..N : f[n] = IF f[n - 1].next = n /\ Clocks[n] <= cutoff
                                THEN Decided(f[n - 1], Clocks[n]) ELSE f[n - 1]
  <2>1. Looping(f, L, jj, N)
    BY <1>1, ClockLoop
  <2>2. f[0] = jj /\ \A n \in 1..N : f[n] = StepOf(L, f[n - 1], n)
    BY <1>2, <2>1, LoopAt
  <2> QED
    BY <1>1, <2>2, ClockLoop
<1> DEFINE Kept(x) == /\ IsJournal(x) /\ Same(jj, x)
                      /\ \A limit \in Int : cutoff \in Int /\ cutoff <= limit /\ Until(jj, limit)
                            => Until(x, limit)
           B == {n \in 0..N : Kept(f[n])}
<1>4. 0 \in B
  BY <1>2, <1>3 DEF Same
<1>5. ASSUME NEW n \in 1..N, n - 1 \in B PROVE n \in B
  <2>1. PICK x : x = f[n - 1]
    OBVIOUS
  <2>2. Kept(x)
    BY <1>5, <2>1
  <2>3. CASE x.next = n /\ Clocks[n] <= cutoff
    <3>1. f[n] = Decided(x, Clocks[n])
      BY <1>3, <2>1, <2>3
    <3>2. n <= Len(Clocks) /\ Clocks[n] \in Int
      BY <1>1, JournalAssumption
    <3>3. PICK y : y = Decided(x, Clocks[n])
      OBVIOUS
    <3>4. IsJournal(y) /\ Same(x, y) /\ \A limit : Until(x, limit) /\ Clocks[n] <= limit => Until(y, limit)
      BY <2>2, <2>3, <3>2, <3>3, DecidedFacts
    <3>5. \A limit \in Int : cutoff \in Int /\ cutoff <= limit => Clocks[n] <= limit
      BY <2>3, <3>2
    <3>6. Same(jj, y)
      BY <2>2, <3>4 DEF Same
    <3>7. Kept(y)
      BY <2>2, <3>4, <3>5, <3>6
    <3> QED
      BY <3>1, <3>3, <3>7
  <2>4. CASE ~(x.next = n /\ Clocks[n] <= cutoff)
    <3>1. f[n] = x
      BY <1>3, <2>1, <2>4
    <3> QED
      BY <2>2, <3>1
  <2> QED
    BY <2>3, <2>4
<1>6. N \in B
  <2> HIDE DEF B
  <2> QED
    BY <1>2, <1>4, <1>5, Counting
<1> QED
  BY <1>1, <1>6

LEMMA ForgetFacts ==
    ASSUME NEW jj, IsJournal(jj)
    PROVE  LET b == [jj EXCEPT !.pending = <<>>] IN
           /\ IsJournal(b) /\ Same(jj, b) /\ b.next = jj.next
           /\ \A limit : Until(jj, limit) => Until(b, limit)
<1>1. PICK b : b = [jj EXCEPT !.pending = <<>>]
  OBVIOUS
<1>2. Shape(b) /\ b.next = jj.next /\ b.log = jj.log /\ Same(jj, b)
  BY <1>1 DEF IsJournal, Shape, Same
<1> QED
  BY <1>1, <1>2, Unmoved

LEMMA AdvanceFacts ==
    ASSUME NEW jj, IsJournal(jj), NEW cutoff
    PROVE  LET b == _advance(jj, cutoff) IN
           /\ IsJournal(b) /\ Same(jj, b)
           /\ \A limit \in Int : cutoff \in Int /\ cutoff <= limit /\ Until(jj, limit) => Until(b, limit)
<1>1. PICK d, b : d = DecidedUpTo(jj, cutoff)[Len(Clocks)] /\ b = _advance(jj, cutoff)
  OBVIOUS
<1>2. /\ IsJournal(d) /\ Same(jj, d)
      /\ \A limit \in Int : cutoff \in Int /\ cutoff <= limit /\ Until(jj, limit) => Until(d, limit)
  BY <1>1, DecidedUpToFacts
<1>3. b \in {d, [d EXCEPT !.pending = <<>>], _apply_until(d, cutoff)}
  BY <1>1 DEF _advance
<1>4. IsJournal(b) /\ Same(d, b) /\ \A limit : Until(d, limit) => Until(b, limit)
  <2>1. CASE b = d
    BY <1>2, <2>1 DEF Same
  <2>2. CASE b = [d EXCEPT !.pending = <<>>]
    BY <1>2, <2>2, ForgetFacts
  <2>3. CASE b = _apply_until(d, cutoff)
    BY <1>2, <2>3, ApplyFacts
  <2> QED
    BY <1>3, <2>1, <2>2, <2>3
<1>5. Same(jj, b)
  BY <1>2, <1>4 DEF Same
<1> QED
  BY <1>1, <1>2, <1>4, <1>5

\* _safe: a failed or closed journal stays as it is.
LEMMA SafeFacts ==
    ASSUME NEW jj, IsJournal(jj), NEW op, IsJournal(op), Same(jj, op)
    PROVE  IsJournal(Safe(jj, op)) /\ Same(jj, Safe(jj, op)) /\ Safe(jj, op) \in {jj, op}
BY DEF Safe, Same

LEMMA IngestFacts ==
    ASSUME NEW jj, IsJournal(jj), NEW rows
    PROVE  LET b == ingest(jj, rows) IN
           /\ IsJournal(b) /\ Same(jj, b)
           /\ \A limit : Until(jj, limit) => Until(b, limit)
<1>1. PICK b, all :
         /\ b = ingest(jj, rows)
         /\ all = (IF jj.lastIn = None THEN <<>> ELSE <<jj.lastIn>>)
                  \o [i \in DOMAIN rows |-> rows[i].at]
  OBVIOUS
<1>2. PICK p, x : p = jj.pending \o rows /\ x = all[Len(all)]
  OBVIOUS
<1>3. PICK c : c = [jj EXCEPT !.pending = p, !.lastIn = x]
  OBVIOUS
<1>4. b \in {jj, Failed(jj), c}
  BY <1>1, <1>2, <1>3 DEF ingest, Safe
<1>5. CASE b = jj
  BY <1>1, <1>5 DEF Same
<1>6. CASE b = Failed(jj)
  BY <1>1, <1>6, FailedFacts
<1>7. CASE b = c
  <2>1. Shape(c) /\ c.next = jj.next /\ c.log = jj.log /\ Same(jj, c)
    BY <1>3 DEF IsJournal, Shape, Same
  <2> QED
    BY <1>1, <1>7, <2>1, Unmoved
<1> QED
  BY <1>4, <1>5, <1>6, <1>7

LEMMA AdvanceAtFacts ==
    ASSUME NEW jj, IsJournal(jj), NEW at
    PROVE  LET b == advance(jj, at) IN
           /\ IsJournal(b) /\ Same(jj, b)
           /\ \A limit \in Int : at \in Int /\ at <= limit /\ Until(jj, limit) => Until(b, limit)
<1>1. PICK a, b : a = _advance(jj, at - Cadence) /\ b = advance(jj, at)
  OBVIOUS
<1>2. /\ IsJournal(a) /\ Same(jj, a)
      /\ \A limit \in Int : at - Cadence \in Int /\ at - Cadence <= limit /\ Until(jj, limit)
            => Until(a, limit)
  BY <1>1, AdvanceFacts
<1>3. b = Safe(jj, a)
  BY <1>1 DEF advance
<1>4. IsJournal(b) /\ Same(jj, b) /\ b \in {jj, a}
  BY <1>2, <1>3, SafeFacts
<1>5. \A limit \in Int : at \in Int /\ at <= limit => at - Cadence \in Int /\ at - Cadence <= limit
  BY JournalAssumption
<1> QED
  BY <1>1, <1>2, <1>4, <1>5

LEMMA DisconnectedFacts ==
    ASSUME NEW jj, IsJournal(jj), NEW at, NEW unavailable
    PROVE  LET b == disconnected(jj, at, unavailable) IN
           /\ IsJournal(b) /\ Same(jj, b)
           /\ \A limit \in Int : at \in Int /\ at <= limit /\ Until(jj, limit) => Until(b, limit)
<1>1. PICK o : o = IF unavailable /\ jj.open = None THEN at ELSE jj.open
  OBVIOUS
<1>2. PICK g : g = [jj EXCEPT !.open = o]
  OBVIOUS
<1>3. PICK a, b : a = _advance(g, at) /\ b = disconnected(jj, at, unavailable)
  OBVIOUS
<1>4. b = Safe(jj, a)
  BY <1>1, <1>2, <1>3 DEF disconnected
<1>5. Shape(g) /\ g.next = jj.next /\ g.log = jj.log /\ Same(jj, g)
  BY <1>2 DEF IsJournal, Shape, Same
<1>6. IsJournal(g) /\ \A limit : Until(jj, limit) => Until(g, limit)
  BY <1>5, Unmoved
<1>7. /\ IsJournal(a) /\ Same(g, a)
      /\ \A limit \in Int : at \in Int /\ at <= limit /\ Until(g, limit) => Until(a, limit)
  BY <1>3, <1>6, AdvanceFacts
<1>8. Same(jj, a)
  BY <1>5, <1>7 DEF Same
<1>9. IsJournal(b) /\ Same(jj, b) /\ b \in {jj, a}
  BY <1>4, <1>7, <1>8, SafeFacts
<1> QED
  BY <1>3, <1>6, <1>7, <1>9

\* A connection adds its id, and remembers the first of them.
LEMMA ConnectedFacts ==
    ASSUME NEW jj, IsJournal(jj), NEW id, NEW at
    PROVE  LET b == connected(jj, id, at) IN
           /\ IsJournal(b) /\ b.manifest = jj.manifest /\ (jj.failed => b.failed)
           /\ \A limit : Until(jj, limit) => Until(b, limit)
           /\ jj.manifest = None /\ ~b.failed => b.ids = Append(jj.ids, id)
           /\ jj.manifest = None /\ jj.first = None /\ at > Clocks[1] => b.failed
<1>1. PICK b, f, i, g :
         /\ b = connected(jj, id, at)
         /\ f = IF jj.first = None THEN at ELSE jj.first
         /\ i = Append(jj.ids, id)
         /\ g = IF jj.open # None /\ at > jj.open
                THEN jj.gaps \cup {[start |-> jj.open, end |-> at]} ELSE jj.gaps
  OBVIOUS
<1>2. PICK c : c = [jj EXCEPT !.first = f, !.ids = i, !.open = None, !.gaps = g]
  OBVIOUS
<1>3. PICK bad : bad = (\/ jj.first = None /\ at > Clocks[1]
                        \/ id \in Range(jj.ids)
                        \/ jj.open # None /\ at < jj.open)
  OBVIOUS
<1>4. b = Safe(jj, IF bad THEN Failed(jj) ELSE c)
  BY <1>1, <1>2, <1>3 DEF connected
<1>5. CASE jj.failed \/ jj.manifest # None
  <2>1. b = jj
    BY <1>4, <1>5 DEF Safe
  <2> QED
    BY <1>1, <1>5, <2>1
<1>6. CASE ~(jj.failed \/ jj.manifest # None) /\ bad
  <2>1. b = Failed(jj)
    BY <1>4, <1>6 DEF Safe
  <2> QED
    BY <1>1, <2>1, FailedFacts DEF Same
<1>7. CASE ~(jj.failed \/ jj.manifest # None) /\ ~bad
  <2>1. b = c
    BY <1>4, <1>7 DEF Safe
  <2>2. /\ Shape(c) /\ c.next = jj.next /\ c.log = jj.log /\ c.manifest = jj.manifest
        /\ c.ids = i /\ c.failed = jj.failed
    BY <1>2 DEF IsJournal, Shape
  <2>3. IsJournal(c) /\ \A limit : Until(jj, limit) => Until(c, limit)
    BY <2>2, Unmoved
  <2>4. ~(jj.first = None /\ at > Clocks[1])
    BY <1>3, <1>7
  <2> QED
    BY <1>1, <1>7, <2>1, <2>2, <2>3, <2>4
<1> QED
  BY <1>5, <1>6, <1>7

\* A manifest has a record of every clock, and names the sessions the journal saw.
LEMMA CloseFacts ==
    ASSUME NEW jj, IsJournal(jj), jj.manifest = None, NEW at, NEW manifests, NEW by
    PROVE  LET b == close(jj, at, manifests, by) IN
           /\ IsJournal(b)
           /\ \A limit \in Int : at \in Int /\ at <= limit /\ Until(jj, limit) => Until(b, limit)
           /\ ~b.failed => /\ RecordedAt(b.manifest.log) = Range(Clocks)
                           /\ b.manifest.by = by /\ b.manifest.uris = jj.ids
                           /\ ~jj.failed /\ jj.first # None /\ b.next = Len(Clocks) + 1
                           /\ jj.ids # <<>>
<1>1. PICK a, b : a = _advance(jj, at) /\ b = close(jj, at, manifests, by)
  OBVIOUS
<1>2. /\ IsJournal(a) /\ Same(jj, a)
      /\ \A limit \in Int : at \in Int /\ at <= limit /\ Until(jj, limit) => Until(a, limit)
  BY <1>1, AdvanceFacts
<1>3. PICK bad : bad = (\/ a.failed \/ a.next <= Len(Clocks) \/ a.first = None
                        \/ Misnamed(a, manifests))
  OBVIOUS
<1>4. PICK m : m = [log |-> a.log, ids |-> a.ids, uris |-> manifests,
                    first |-> a.first, completed |-> at, by |-> by]
  OBVIOUS
<1>5. PICK c : c = [a EXCEPT !.manifest = m]
  OBVIOUS
<1>6. b = Safe(jj, IF bad THEN Failed(a) ELSE c)
  BY <1>1, <1>3, <1>4, <1>5 DEF close
<1>7. CASE jj.failed
  <2>1. b = jj
    BY <1>6, <1>7 DEF Safe
  <2> QED
    BY <1>1, <1>7, <2>1
<1>8. CASE ~jj.failed /\ bad
  <2>1. b = Failed(a)
    BY <1>6, <1>8 DEF Safe
  <2> QED
    BY <1>1, <1>2, <2>1, FailedFacts
<1>9. CASE ~jj.failed /\ ~bad
  <2>1. b = c
    BY <1>6, <1>9 DEF Safe
  <2>2. /\ Shape(c) /\ c.next = a.next /\ c.log = a.log /\ c.manifest = m
    BY <1>2, <1>5 DEF IsJournal, Shape
  <2>3. IsJournal(c) /\ \A limit : Until(a, limit) => Until(c, limit)
    BY <1>2, <2>2, Unmoved
  <2>4. a.next = Len(Clocks) + 1 /\ Len(Clocks) \in Nat
    BY <1>2, <1>3, <1>9, JournalAssumption DEF IsJournal
  <2>5. RecordedAt(a.log) = Range(Clocks)
    <3>1. RecordedAt(a.log) = ClocksUpTo(Len(Clocks))
      BY <1>2, <2>4 DEF IsJournal
    <3>2. DOMAIN Clocks = 1..Len(Clocks)
      BY JournalAssumption
    <3> QED
      BY <3>1, <3>2 DEF ClocksUpTo, Range
  <2>6. manifests = jj.ids /\ jj.first # None /\ jj.ids # <<>>
    BY <1>2, <1>3, <1>9 DEF Misnamed, Same
  <2> QED
    BY <1>1, <1>2, <1>4, <1>9, <2>1, <2>2, <2>3, <2>4, <2>5, <2>6
<1> QED
  BY <1>7, <1>8, <1>9

-----------------------------------------------------------------------------
(***************************************************************************)
(* The rebuild.                                                            *)
(***************************************************************************)
Unclosed(jj) == IsJournal(jj) /\ jj.manifest = None

LEMMA ReplayRowUnclosed ==
    ASSUME NEW jj, Unclosed(jj), NEW rows, NEW n PROVE Unclosed(ReplayRow(jj, rows, n))
<1>1. PICK a, b : a = ingest(jj, <<rows[n]>>) /\ b = advance(a, rows[n].at + Cadence)
  OBVIOUS
<1>2. ReplayRow(jj, rows, n) \in {a, b}
  BY <1>1 DEF ReplayRow
<1>3. IsJournal(a) /\ Same(jj, a)
  BY <1>1, IngestFacts DEF Unclosed
<1>4. IsJournal(b) /\ Same(a, b)
  BY <1>1, <1>3, AdvanceAtFacts
<1> QED
  BY <1>2, <1>3, <1>4 DEF Unclosed, Same

LEMMA ReplayRowsUnclosed ==
    ASSUME NEW jj, Unclosed(jj), NEW rows, Len(rows) \in Nat PROVE Unclosed(ReplayRows(jj, rows))
<1>1. PICK f : Looping(f, OverRows(rows), jj, Len(rows)) /\ ReplayRows(jj, rows) = f[Len(rows)]
  BY RowLoop
<1>2. /\ f[0] = jj
      /\ \A n \in 1..Len(rows) : f[n] = StepOf(OverRows(rows), f[n - 1], n)
  BY <1>1, LoopAt
<1>3. \A x, n : StepOf(OverRows(rows), x, n) = ReplayRow(x, rows, n)
  BY DEF StepOf, OverRows
<1> DEFINE B == {n \in 0..Len(rows) : Unclosed(f[n])}
<1>4. 0 \in B /\ \A n \in 1..Len(rows) : n - 1 \in B => n \in B
  BY <1>2, <1>3, ReplayRowUnclosed
<1>5. Len(rows) \in B
  <2> HIDE DEF B
  <2> QED
    BY <1>4, Counting
<1> QED
  BY <1>1, <1>5

LEMMA ReplaySessionUnclosed ==
    ASSUME NEW jj, Unclosed(jj), NEW s, Len(s.rows) \in Nat PROVE Unclosed(ReplaySession(jj, s))
<1>1. PICK c, r : c = connected(jj, s.id, s.connected) /\ r = ReplayRows(c, s.rows)
  OBVIOUS
<1>2. Unclosed(c)
  BY <1>1, ConnectedFacts DEF Unclosed
<1>3. Unclosed(r)
  BY <1>1, <1>2, ReplayRowsUnclosed
<1>4. \A at, u : Unclosed(disconnected(r, at, u))
  BY <1>3, DisconnectedFacts DEF Unclosed, Same
<1> QED
  BY <1>1, <1>4 DEF ReplaySession

Readable(sessions) == Len(sessions) \in Nat /\ \A n \in 1..Len(sessions) : Len(sessions[n].rows) \in Nat

LEMMA ReplayedUnclosed ==
    ASSUME NEW sessions, Readable(sessions) PROVE Unclosed(Replayed(sessions))
<1>0. PICK N : N = Len(sessions) /\ N \in Nat
  BY DEF Readable
<1>1. PICK f, L : /\ Looping(f, L, NewJournal, N) /\ L = OverSessions(sessions)
                  /\ Replayed(sessions) = f[N]
  BY <1>0, SessionLoop
<1>2. f[0] = NewJournal /\ \A n \in 1..N : f[n] = StepOf(L, f[n - 1], n)
  BY <1>0, <1>1, LoopAt
<1>3. \A x, n : StepOf(L, x, n) = ReplaySession(x, sessions[n])
  BY <1>1 DEF StepOf, OverSessions
<1> DEFINE B == {n \in 0..N : Unclosed(f[n])}
<1>4. 0 \in B
  BY <1>0, <1>2, NewIsJournal DEF Unclosed
<1>5. ASSUME NEW n \in 1..N, n - 1 \in B PROVE n \in B
  <2>1. PICK x, s : x = f[n - 1] /\ s = sessions[n]
    OBVIOUS
  <2>2. Unclosed(x) /\ Len(s.rows) \in Nat
    BY <1>0, <1>5, <2>1 DEF Readable
  <2>3. f[n] = ReplaySession(x, s)
    BY <1>2, <1>3, <2>1
  <2>4. Unclosed(f[n])
    BY <2>2, <2>3, ReplaySessionUnclosed
  <2> QED
    BY <2>4
<1>6. N \in B
  <2> HIDE DEF B
  <2> QED
    BY <1>0, <1>4, <1>5, Counting
<1> QED
  BY <1>1, <1>6

LEMMA RebuiltFacts ==
    ASSUME NEW sessions, Readable(sessions), ~_replay_journal(sessions).failed
    PROVE  LET m == _replay_journal(sessions).manifest IN
           RecordedAt(m.log) = Range(Clocks) /\ m.by = "recovery"
<1>1. PICK r : r = Replayed(sessions)
  OBVIOUS
<1>2. IsJournal(r) /\ r.manifest = None
  BY <1>1, ReplayedUnclosed DEF Unclosed
<1>3. \E at, manifests : _replay_journal(sessions) = close(r, at, manifests, "recovery")
  BY <1>1 DEF _replay_journal
<1> QED
  BY <1>2, <1>3, CloseFacts

-----------------------------------------------------------------------------
(***************************************************************************)
(* The inductive invariant.                                                *)
(***************************************************************************)
Ended == [id : Nat \X Nat, connected : Nat, disconnected : Nat, published : Nat,
          kind : {"stale", "capture_error", "shutdown", "completed"},
          hb : Nat \cup {None}, rows : Seq(Rows)]

Capturing == {"run", "closing"}

Types ==
    /\ now \in Nat /\ procs \in Nat /\ procs >= 1
    /\ proc \in {"off", "run", "closing", "publish"}
    /\ cur \in Segments \cup {None}
    /\ late \in Nat \cup {None} /\ (late # None => cur # None)
    /\ queue \in Seq(Rows)
    /\ day \in Seq(Ended)
    /\ cur # None => /\ proc = "run" /\ cur.connected <= now
                     /\ cur.hb # None => cur.hb <= now

\* A session's id is its process and its place in the day.
Numbered ==
    /\ \A i \in DOMAIN day : day[i].id[1] <= procs /\ day[i].id[2] <= Len(day)
    /\ cur # None => cur.id = <<procs, Len(day) + 1>>

EndedBy(p) == {s.id : s \in {x \in Range(day) : x.id[1] = p}}
Connected == IF cur = None THEN {} ELSE {cur.id}
Ascending(ids) == \A i, k \in DOMAIN ids : i < k => ids[i][2] < ids[k][2]

\* The live journal has seen the sessions of its own process.
Seen ==
    proc \in Capturing /\ ~j.failed =>
       /\ j.ids \in Seq(Nat \X Nat)
       /\ Range(j.ids) = EndedBy(procs) \cup Connected
       /\ Ascending(j.ids)

Live ==
    /\ IsJournal(j) /\ Until(j, now)
    /\ proc \in Capturing => j.manifest = None
    /\ Seen

SessionInv == Types /\ Numbered /\ Live

LEMMA SessionInit == Init => SessionInv
<1> SUFFICES ASSUME Init PROVE SessionInv
  OBVIOUS
<1>1. now = 0 /\ procs = 1 /\ proc = "run" /\ cur = None /\ late = None /\ queue = <<>> /\ day = <<>>
      /\ j = NewJournal
  BY DEF Init
<1>2. <<>> \in Seq(Rows) /\ <<>> \in Seq(Ended) /\ <<>> \in Seq(Nat \X Nat)
  OBVIOUS
<1>3. Types
  BY <1>1, <1>2 DEF Types
<1>4. Numbered
  BY <1>1 DEF Numbered
<1>5. EndedBy(procs) \cup Connected = {} /\ Range(<<>>) = {} /\ Ascending(<<>>)
  BY <1>1 DEF EndedBy, Connected, Range, Ascending
<1>6. Live
  BY <1>1, <1>2, <1>5, NewIsJournal DEF Live, Seen, Until
<1> QED
  BY <1>3, <1>4, <1>6 DEF SessionInv

\* The journal does not change, and what it has seen has not either.
LEMMA QuietSession ==
    ASSUME SessionInv, Types', Numbered', UNCHANGED <<j, day>>, now' >= now,
           proc' \in Capturing =>
              /\ proc \in Capturing /\ procs' = procs
              /\ Connected' = Connected
    PROVE  SessionInv'
<1>1. EndedBy(procs)' = EndedBy(procs) \/ procs' # procs
  BY DEF EndedBy
<1>2. IsJournal(j)' /\ (proc \in Capturing => j.manifest = None)'
  BY DEF SessionInv, Live
<1>3. Until(j, now)'
  <2>1. j.next \in 1..(Len(Clocks) + 1) /\ now \in Nat /\ now' \in Nat
    BY DEF SessionInv, Live, IsJournal, Types
  <2>2. j.next > 1 => Clocks[j.next - 1] \in Nat
    BY <2>1, JournalAssumption
  <2> QED
    BY <2>1, <2>2 DEF SessionInv, Live, Until
<1>4. Seen'
  BY <1>1 DEF SessionInv, Live, Seen
<1> QED
  BY <1>2, <1>3, <1>4 DEF SessionInv, Live

\* The journal's own step: what the capture told it, by now.
LEMMA ToldSession ==
    ASSUME SessionInv, Types', Numbered', now' = now, procs' = procs,
           IsJournal(j'), Same(j, j'), \A limit \in Int : now <= limit /\ Until(j, limit) => Until(j', limit),
           proc \in Capturing,
           EndedBy(procs)' \cup Connected' = EndedBy(procs) \cup Connected
    PROVE  SessionInv'
<1>1. Until(j, now)' /\ (j.manifest = None)'
  BY DEF SessionInv, Live, Types, Same
<1>2. Seen'
  BY DEF SessionInv, Live, Seen, Same
<1> QED
  BY <1>1, <1>2 DEF SessionInv, Live

LEMMA TickSession == ASSUME SessionInv, NEW beat \in BOOLEAN, Tick(beat) PROVE SessionInv'
<1>1. now \in Nat /\ now' = now + 1 /\ UNCHANGED <<proc, procs, late, queue, j, day>>
  BY DEF SessionInv, Types, Tick
<1>2. CASE ~beat
  <2>1. cur' = cur
    BY <1>2 DEF Tick
  <2>2. Types' /\ Numbered' /\ Connected' = Connected
    BY <1>1, <2>1 DEF SessionInv, Types, Numbered, Connected, Segments
  <2> QED
    BY <1>1, <2>2, QuietSession
<1>3. CASE beat
  <2>1. cur # None /\ cur \in Segments /\ cur' = [cur EXCEPT !.hb = now + 1]
    BY <1>3 DEF Tick, SessionInv, Types
  <2>2. cur' \in Segments /\ cur'.id = cur.id /\ cur'.connected = cur.connected /\ cur'.hb = now'
    BY <1>1, <2>1 DEF Segments
  <2>3. cur' # None
    BY <2>2, JournalAssumption
  <2>4. cur.connected \in Nat
    BY <2>1 DEF Segments
  <2>5. Types'
    BY <1>1, <2>1, <2>2, <2>3, <2>4 DEF SessionInv, Types
  <2>6. Numbered' /\ Connected' = Connected
    BY <1>1, <2>1, <2>2, <2>3 DEF SessionInv, Numbered, Connected
  <2> QED
    BY <1>1, <2>5, <2>6, QuietSession
<1> QED
  BY <1>2, <1>3

LEMMA PairParts == ASSUME NEW x \in Nat \X Nat PROVE x[1] \in Nat /\ x[2] \in Nat
OBVIOUS

LEMMA EndedIds ==
    ASSUME SessionInv, NEW x \in Range(day)
    PROVE  /\ x \in Ended /\ x.id \in Nat \X Nat /\ x.id[1] \in Nat /\ x.id[2] \in Nat
           /\ x.id[1] <= procs /\ x.id[2] <= Len(day)
<1>1. PICK i \in DOMAIN day : x = day[i]
  BY DEF Range
<1>2. x \in Ended
  BY <1>1 DEF SessionInv, Types
<1>3. x.id \in Nat \X Nat
  BY <1>2 DEF Ended
<1>4. x.id[1] <= procs /\ x.id[2] <= Len(day)
  BY <1>1 DEF SessionInv, Numbered
<1> QED
  BY <1>2, <1>3, <1>4, PairParts

LEMMA StartSession == ASSUME SessionInv, Start PROVE SessionInv'
<1>1. /\ proc = "off" /\ proc' = "run" /\ procs' = procs + 1 /\ j' = NewJournal
      /\ UNCHANGED <<now, cur, late, queue, day>>
  BY DEF Start
<1>2. cur = None
  BY <1>1 DEF SessionInv, Types
<1>3. Types'
  BY <1>1, <1>2 DEF SessionInv, Types
<1>4. \A x \in Range(day) : x.id[1] \in Nat /\ x.id[1] <= procs /\ procs \in Nat
  BY EndedIds DEF SessionInv, Types
<1>5. Numbered'
  <2>1. \A i \in DOMAIN day : day[i] \in Range(day)
    BY DEF Range
  <2> QED
    BY <1>1, <1>2, <1>4, <2>1 DEF SessionInv, Numbered
<1>6. EndedBy(procs)' = {} /\ Connected' = {}
  <2>1. \A x \in Range(day) : x.id[1] # procs + 1
    BY <1>4
  <2> QED
    BY <1>1, <1>2, <2>1 DEF EndedBy, Connected
<1>7. <<>> \in Seq(Nat \X Nat) /\ Range(<<>>) = {} /\ Ascending(<<>>)
  BY DEF Range, Ascending
<1>8. Live'
  BY <1>1, <1>6, <1>7, NewIsJournal DEF Live, Seen, Until
<1> QED
  BY <1>3, <1>5, <1>8 DEF SessionInv

LEMMA Extended ==
    ASSUME NEW ids \in Seq(Nat \X Nat), NEW x \in Nat \X Nat, Ascending(ids),
           \A y \in Range(ids) : y[2] < x[2]
    PROVE  /\ Append(ids, x) \in Seq(Nat \X Nat) /\ Ascending(Append(ids, x))
           /\ Range(Append(ids, x)) = Range(ids) \cup {x}
<1>1. PICK b, n : b = Append(ids, x) /\ n = Len(ids)
  OBVIOUS
<1>2. /\ b \in Seq(Nat \X Nat) /\ n \in Nat /\ DOMAIN ids = 1..n /\ DOMAIN b = 1..(n + 1)
      /\ b[n + 1] = x /\ \A i \in 1..n : b[i] = ids[i]
  BY <1>1
<1>3. Ascending(b)
  <2> SUFFICES ASSUME NEW i \in 1..(n + 1), NEW k \in 1..(n + 1), i < k PROVE b[i][2] < b[k][2]
    BY <1>2 DEF Ascending
  <2>1. i \in 1..n /\ b[i] = ids[i] /\ ids[i] \in Range(ids)
    BY <1>2 DEF Range
  <2>2. CASE k = n + 1
    BY <1>2, <2>1, <2>2
  <2>3. CASE k # n + 1
    <3>1. k \in 1..n /\ b[k] = ids[k]
      BY <1>2, <2>3
    <3>2. ids[i][2] < ids[k][2]
      BY <1>2, <2>1, <3>1 DEF Ascending
    <3> QED
      BY <2>1, <3>1, <3>2
  <2> QED
    BY <2>2, <2>3
<1>4. Range(b) = Range(ids) \cup {x}
  <2>1. 1..(n + 1) = (1..n) \cup {n + 1}
    BY <1>2
  <2>2. {b[i] : i \in 1..n} = {ids[i] : i \in 1..n}
    BY <1>2
  <2>3. {b[i] : i \in 1..(n + 1)} = {b[i] : i \in 1..n} \cup {b[n + 1]}
    BY <2>1
  <2> QED
    BY <1>2, <2>2, <2>3 DEF Range
<1> QED
  BY <1>1, <1>2, <1>3, <1>4

LEMMA ConnectSession == ASSUME SessionInv, Connect PROVE SessionInv'
<1>1. PICK id : id = <<procs, Len(day) + 1>>
  OBVIOUS
<1>2. /\ proc = "run" /\ cur = None
      /\ cur' = [id |-> id, connected |-> now, hb |-> None, rows |-> <<>>]
      /\ j' = connected(j, id, now)
      /\ UNCHANGED <<now, proc, procs, late, queue, day>>
  BY <1>1 DEF Connect
<1>3. now \in Nat /\ procs \in Nat /\ Len(day) \in Nat /\ <<>> \in Seq(Rows)
  BY DEF SessionInv, Types
<1>4. id \in Nat \X Nat
  BY <1>1, <1>3
<1>5. cur' \in Segments /\ cur' # None /\ cur'.id = id /\ cur'.hb = None /\ cur'.connected = now
  <2>1. cur' \in Segments
    BY <1>2, <1>3, <1>4 DEF Segments
  <2> QED
    BY <1>2, <2>1, JournalAssumption
<1>6. Types'
  BY <1>2, <1>3, <1>5 DEF SessionInv, Types
<1>7. Numbered'
  BY <1>1, <1>2, <1>5 DEF SessionInv, Numbered
<1>8. /\ IsJournal(j') /\ j'.manifest = None /\ (j.failed => j'.failed)
      /\ Until(j', now) /\ (~j'.failed => j'.ids = Append(j.ids, id))
  BY <1>2, ConnectedFacts DEF SessionInv, Live, Capturing
<1>9. Seen'
  <2> SUFFICES ASSUME ~j'.failed
               PROVE  /\ j'.ids \in Seq(Nat \X Nat) /\ Ascending(j'.ids)
                      /\ Range(j'.ids) = EndedBy(procs)' \cup Connected'
    BY DEF Seen
  <2>1. /\ j.ids \in Seq(Nat \X Nat) /\ Range(j.ids) = EndedBy(procs) \cup Connected
        /\ Ascending(j.ids)
    BY <1>2, <1>8 DEF SessionInv, Live, Seen, Capturing
  <2>2. Connected = {} /\ Connected' = {id} /\ EndedBy(procs)' = EndedBy(procs)
    BY <1>2, <1>5 DEF Connected, EndedBy
  <2>3. \A y \in Range(j.ids) : y[2] < id[2]
    <3>1. \A x \in Range(day) : x.id[2] < Len(day) + 1
      BY <1>3, EndedIds
    <3>2. id[2] = Len(day) + 1
      BY <1>1
    <3> QED
      BY <2>1, <2>2, <3>1, <3>2 DEF EndedBy
  <2>4. /\ Append(j.ids, id) \in Seq(Nat \X Nat) /\ Ascending(Append(j.ids, id))
        /\ Range(Append(j.ids, id)) = Range(j.ids) \cup {id}
    BY <1>4, <2>1, <2>3, Extended
  <2> QED
    BY <1>8, <2>1, <2>2, <2>4
<1>10. Live'
  BY <1>2, <1>8, <1>9 DEF Live
<1> QED
  BY <1>6, <1>7, <1>10 DEF SessionInv

LEMMA QueueSession == ASSUME SessionInv, Stamp \/ Enqueue PROVE SessionInv'
<1>1. UNCHANGED <<now, proc, procs, cur, j, day>>
  BY DEF Stamp, Enqueue
<1>2. queue' \in Seq(Rows) /\ late' \in Nat \cup {None} /\ (late' # None => cur # None)
  <2>1. CASE Stamp
    BY <2>1 DEF Stamp, SessionInv, Types
  <2>2. CASE Enqueue
    <3>1. PICK r : r = [ses |-> cur.id, seq |-> Len(cur.rows) + Len(queue) + 1, at |-> late]
      OBVIOUS
    <3>2. late \in Nat /\ cur \in Segments /\ queue' = Append(queue, r) /\ late' = None /\ queue \in Seq(Rows)
      BY <2>2, <3>1 DEF Enqueue, SessionInv, Types
    <3>3. Len(cur.rows) \in Nat /\ Len(queue) \in Nat /\ cur.id \in Nat \X Nat
      BY <3>2 DEF Segments
    <3>4. r \in Rows
      BY <3>1, <3>2, <3>3 DEF Rows
    <3> QED
      BY <3>2, <3>4
  <2> QED
    BY <2>1, <2>2
<1>3. Types'
  BY <1>1, <1>2 DEF SessionInv, Types
<1>4. Numbered' /\ Connected' = Connected
  BY <1>1 DEF SessionInv, Numbered, Connected
<1>5. now' >= now
  BY <1>1 DEF SessionInv, Types
<1> QED
  BY <1>1, <1>3, <1>4, <1>5, QuietSession

LEMMA LoopSession == ASSUME SessionInv, Loop PROVE SessionInv'
<1>1. /\ cur # None /\ cur \in Segments /\ proc = "run" /\ now \in Nat /\ queue \in Seq(Rows)
      /\ queue' = <<>> /\ cur' = [cur EXCEPT !.rows = cur.rows \o queue]
      /\ UNCHANGED <<now, proc, procs, late, day>>
  BY DEF Loop, SessionInv, Types
<1>2. cur' \in Segments /\ cur'.id = cur.id /\ cur'.connected = cur.connected /\ cur'.hb = cur.hb
  <2>1. cur.rows \o queue \in Seq(Rows)
    BY <1>1 DEF Segments
  <2> QED
    BY <1>1, <2>1 DEF Segments
<1>3. cur' # None
  BY <1>2, JournalAssumption
<1>4. Types'
  BY <1>1, <1>2, <1>3 DEF SessionInv, Types
<1>5. Numbered' /\ Connected' = Connected /\ EndedBy(procs)' = EndedBy(procs)
  BY <1>1, <1>2, <1>3 DEF SessionInv, Numbered, Connected, EndedBy
<1>6. PICK a : a = ingest(j, queue)
  OBVIOUS
<1>7. IsJournal(a) /\ Same(j, a) /\ \A limit : Until(j, limit) => Until(a, limit)
  BY <1>6, IngestFacts DEF SessionInv, Live
<1>8. j' = advance(a, now)
  BY <1>6 DEF Loop
<1>9. /\ IsJournal(j') /\ Same(a, j')
      /\ \A limit \in Int : now <= limit /\ Until(a, limit) => Until(j', limit)
  BY <1>1, <1>7, <1>8, AdvanceAtFacts
<1>10. Same(j, j')
  BY <1>7, <1>9 DEF Same
<1> QED
  BY <1>1, <1>4, <1>5, <1>7, <1>9, <1>10, ToldSession DEF Capturing

LEMMA EndSession ==
    ASSUME SessionInv, NEW kind \in {"stale", "capture_error", "shutdown", "completed"},
           NEW delivered \in BOOLEAN, End(kind, delivered)
    PROVE  /\ SessionInv' /\ procs' = procs /\ proc = "run"
           /\ \E s \in Ended : s.id[1] = procs /\ day' = Append(day, s)
<1>1. PICK s : s = [id |-> cur.id, connected |-> cur.connected, disconnected |-> now,
                    published |-> now, kind |-> kind, hb |-> cur.hb, rows |-> cur.rows \o queue]
  OBVIOUS
<1>2. /\ cur # None /\ cur \in Segments /\ proc = "run" /\ now \in Nat /\ queue \in Seq(Rows)
      /\ day' = Append(day, s) /\ day \in Seq(Ended) /\ procs \in Nat
      /\ j' = disconnected(ingest(j, queue), covered_until(s), kind \notin CLEAN)
      /\ cur' = None /\ late' = None /\ queue' = <<>> /\ proc' \in Capturing
      /\ UNCHANGED <<now, procs>>
  BY <1>1 DEF End, SessionInv, Types, Capturing
<1>3. cur.rows \o queue \in Seq(Rows)
  BY <1>2 DEF Segments
<1>4. s \in Ended
  BY <1>1, <1>2, <1>3 DEF Ended, Segments
<1>5. s.id = <<procs, Len(day) + 1>> /\ s.id = cur.id
  BY <1>1, <1>2 DEF SessionInv, Numbered
<1>6. s.id[1] = procs /\ s.id[2] = Len(day) + 1
  BY <1>5
<1>7. /\ day' \in Seq(Ended) /\ Len(day) \in Nat /\ Len(day') = Len(day) + 1
      /\ \A i \in 1..Len(day) : day'[i] = day[i]
      /\ day'[Len(day) + 1] = s /\ Range(day') = Range(day) \cup {s}
  <2>1. /\ day' \in Seq(Ended) /\ Len(day) \in Nat /\ Len(day') = Len(day) + 1
        /\ \A i \in 1..Len(day) : day'[i] = day[i]
        /\ day'[Len(day) + 1] = s /\ DOMAIN day = 1..Len(day) /\ DOMAIN day' = 1..(Len(day) + 1)
    BY <1>2, <1>4
  <2>2. 1..(Len(day) + 1) = (1..Len(day)) \cup {Len(day) + 1}
    BY <2>1
  <2>3. {day'[i] : i \in 1..Len(day)} = {day[i] : i \in 1..Len(day)}
    BY <2>1
  <2>4. {day'[i] : i \in 1..(Len(day) + 1)} =
        {day'[i] : i \in 1..Len(day)} \cup {day'[Len(day) + 1]}
    BY <2>2
  <2> QED
    BY <2>1, <2>3, <2>4 DEF Range
<1>8. Types'
  <2>1. <<>> \in Seq(Rows)
    OBVIOUS
  <2> QED
    BY <1>2, <1>7, <2>1 DEF SessionInv, Types, Capturing
<1>9. Numbered'
  <2>1. ASSUME NEW i \in 1..(Len(day) + 1)
        PROVE  day'[i].id[1] <= procs /\ day'[i].id[2] <= Len(day) + 1
    <3>1. CASE i \in 1..Len(day)
      <4>1. PICK x : x = day[i]
        OBVIOUS
      <4>2. x \in Range(day)
        BY <1>2, <3>1, <4>1 DEF Range
      <4> QED
        BY <1>7, <3>1, <4>1, <4>2, EndedIds
    <3>2. CASE i = Len(day) + 1
      BY <1>2, <1>6, <1>7, <3>2
    <3> QED
      BY <1>7, <3>1, <3>2
  <2>2. DOMAIN day' = 1..(Len(day) + 1)
    BY <1>7
  <2> QED
    BY <1>2, <1>7, <2>1, <2>2 DEF Numbered
<1>10. EndedBy(procs)' \cup Connected' = EndedBy(procs) \cup Connected
  <2>1. EndedBy(procs)' = EndedBy(procs) \cup {cur.id}
    BY <1>2, <1>5, <1>6, <1>7 DEF EndedBy
  <2> QED
    BY <1>2, <2>1 DEF Connected
<1>11. PICK a : a = ingest(j, queue)
  OBVIOUS
<1>12. IsJournal(a) /\ Same(j, a) /\ \A limit : Until(j, limit) => Until(a, limit)
  BY <1>11, IngestFacts DEF SessionInv, Live
<1>13. covered_until(s) \in Int /\ covered_until(s) <= now
  <2>1. s.connected = cur.connected /\ s.hb = cur.hb /\ s.disconnected = now
    BY <1>1
  <2>2. cur.connected \in Nat /\ cur.hb \in Nat \cup {None}
    BY <1>2 DEF Segments
  <2>3. cur.connected <= now /\ (cur.hb # None => cur.hb <= now)
    BY <1>2 DEF SessionInv, Types
  <2> QED
    BY <1>2, <2>1, <2>2, <2>3 DEF covered_until
<1>14. PICK c : c = covered_until(s)
  OBVIOUS
<1>15. /\ IsJournal(j') /\ Same(a, j')
       /\ \A limit \in Int : c <= limit /\ Until(a, limit) => Until(j', limit)
  BY <1>2, <1>11, <1>12, <1>13, <1>14, DisconnectedFacts
<1>16. Same(j, j') /\ \A limit \in Int : now <= limit /\ Until(j, limit) => Until(j', limit)
  <2>1. \A limit \in Int : now <= limit => c <= limit
    BY <1>2, <1>13, <1>14
  <2> QED
    BY <1>12, <1>15, <2>1 DEF Same
<1>17. SessionInv'
  BY <1>2, <1>8, <1>9, <1>10, <1>15, <1>16, ToldSession DEF Capturing
<1> QED
  BY <1>2, <1>4, <1>6, <1>17

\* What a process publishes names the sessions it ended.
LEMMA CloseSession ==
    ASSUME SessionInv, Close
    PROVE  /\ SessionInv'
           /\ ~j'.failed => /\ RecordedAt(j'.manifest.log) = Range(Clocks)
                            /\ j'.manifest.by = "live" /\ Names(j'.manifest.uris, procs)
                            /\ ~j.failed /\ j.first # None
                            /\ Clocks[Len(Clocks)] <= now
<1>1. /\ proc = "closing" /\ j' = close(j, now, uris, "live")
      /\ proc' = IF j'.failed THEN "off" ELSE "publish"
      /\ UNCHANGED <<now, procs, cur, late, queue, day>>
  BY DEF Close
<1>2. now \in Nat /\ cur = None
  BY <1>1 DEF SessionInv, Types
<1>3. /\ IsJournal(j') /\ \A limit \in Int : now <= limit /\ Until(j, limit) => Until(j', limit)
      /\ ~j'.failed => /\ RecordedAt(j'.manifest.log) = Range(Clocks)
                       /\ j'.manifest.by = "live" /\ j'.manifest.uris = j.ids
                       /\ ~j.failed /\ j.first # None /\ j'.next = Len(Clocks) + 1
  BY <1>1, <1>2, CloseFacts DEF SessionInv, Live, Capturing
<1>4. Until(j', now)
  BY <1>2, <1>3 DEF SessionInv, Live
<1>5. Types' /\ Numbered'
  BY <1>1, <1>2 DEF SessionInv, Types, Numbered
<1>6. Live'
  BY <1>1, <1>3, <1>4 DEF Live, Seen, Capturing
<1>7. ASSUME ~j'.failed PROVE Names(j'.manifest.uris, procs) /\ Clocks[Len(Clocks)] <= now
  <2>1. Range(j.ids) = EndedBy(procs) /\ Ascending(j.ids)
    BY <1>1, <1>2, <1>3, <1>7 DEF SessionInv, Live, Seen, Capturing, Connected
  <2>2. Len(Clocks) + 1 > 1 /\ (Len(Clocks) + 1) - 1 = Len(Clocks)
    BY JournalAssumption
  <2>3. Clocks[Len(Clocks)] <= now
    BY <1>3, <1>4, <1>7, <2>2 DEF Until
  <2> QED
    BY <1>3, <1>7, <2>1, <2>3 DEF Names, EndedBy, Ascending
<1> QED
  BY <1>3, <1>5, <1>6, <1>7 DEF SessionInv

\* Steps that leave the sessions and the journal alone, and may end the command.
LEMMA RestSession ==
    ASSUME SessionInv, UNCHANGED <<now, procs, j, day>>,
           \/ UNCHANGED <<proc, cur, late, queue>>
           \/ cur = None /\ proc = "run" /\ proc' = "closing" /\ UNCHANGED <<cur, late, queue>>
           \/ proc = "publish" /\ proc' \in {"off", "publish"} /\ UNCHANGED <<cur, late, queue>>
           \/ proc' = "off" /\ cur' = None /\ late' = None /\ queue' = <<>>
    PROVE  SessionInv'
<1>1. <<>> \in Seq(Rows) /\ now' >= now
  BY DEF SessionInv, Types
<1>2. Types'
  BY <1>1 DEF SessionInv, Types
<1>3. Numbered'
  BY DEF SessionInv, Numbered
<1>4. proc' \in Capturing => proc \in Capturing /\ Connected' = Connected
  BY DEF Capturing, Connected
<1> QED
  BY <1>1, <1>2, <1>3, <1>4, QuietSession

LEMMA SessionStep == ASSUME SessionInv, [Next]_vars PROVE SessionInv'
<1>1. ASSUME NEW beat \in BOOLEAN, Tick(beat) PROVE SessionInv'
  BY <1>1, TickSession
<1>2. CASE Start
  BY <1>2, StartSession
<1>3. CASE Connect
  BY <1>3, ConnectSession
<1>4. CASE Stamp \/ Enqueue
  BY <1>4, QueueSession
<1>5. CASE Loop
  BY <1>5, LoopSession
<1>6. ASSUME NEW kind \in {"stale", "capture_error", "shutdown", "completed"},
             NEW d \in BOOLEAN, End(kind, d)
      PROVE  SessionInv'
  BY <1>6, EndSession
<1>7. CASE GiveUp
  BY <1>7, RestSession DEF GiveUp
<1>8. CASE Close
  BY <1>8, CloseSession
<1>9. CASE Stage
  BY <1>9, RestSession DEF Stage
<1>10. CASE Deliver
  BY <1>10, RestSession DEF Deliver
<1>11. CASE Crash
  BY <1>11, RestSession DEF Crash
<1>12. CASE Ensure \/ Rebuild \/ JobCrash
  BY <1>12, RestSession DEF Ensure, Rebuild, JobCrash
<1>13. CASE UNCHANGED vars
  BY <1>13, RestSession DEF vars
<1> QED
  BY <1>1, <1>2, <1>3, <1>4, <1>5, <1>6, <1>7, <1>8, <1>9, <1>10, <1>11, <1>12, <1>13 DEF Next

-----------------------------------------------------------------------------
(***************************************************************************)
(* What is published, stored and rebuilt.                                  *)
(***************************************************************************)
\* A manifest that keeps its promises: its process ends no session any more.
Committed(m) ==
    /\ RecordedAt(m.log) = Range(Clocks)
    /\ m.by = "live" => \E p \in 1..procs : /\ Names(m.uris, p)
                                            /\ p < procs \/ proc \notin Capturing

\* The first n objects of a manifest's journal, as they wait in the spool.
Objects(m, n) == [i \in 1..n |-> [object |-> OBJECTS[i], body |-> Body(m, OBJECTS[i])]]

Spooled ==
    /\ staged # <<>> => /\ Clocks[Len(Clocks)] <= now
                        /\ proc \in Capturing => j.failed \/ j.first = None
    /\ proc = "publish" => Committed(j.manifest) /\ Clocks[Len(Clocks)] <= now
    /\ \E m, n :
          /\ n \in 0..3 /\ staged = Objects(m, n)
          /\ n > 0 => Committed(m)
          /\ proc = "publish" => m = j.manifest /\ n < 3

Stored ==
    /\ DOMAIN store \subseteq Range(OBJECTS)
    /\ "manifest" \in DOMAIN store =>
          /\ DOMAIN store = Range(OBJECTS)
          /\ store["candidate"] = store["manifest"].log
          /\ store["arbitration"] = store["manifest"].log
          /\ Committed(store["manifest"])

\* A rebuild runs when no session can change the day, and puts the same journal.
Rebuilding ==
    job \in Range(OBJECTS) =>
       /\ now >= Deadline /\ cur = None /\ proc # "run"
       /\ ~_replay_journal(Certified(day)).failed
       /\ LET m == _replay_journal(Certified(day)).manifest IN
          /\ job # "candidate" => "candidate" \in DOMAIN store /\ store["candidate"] = m.log
          /\ job = "manifest" => "arbitration" \in DOMAIN store /\ store["arbitration"] = m.log

JournalInv == SessionInv /\ Spooled /\ Stored /\ Rebuilding

LEMMA ObjectFacts ==
    /\ Range(OBJECTS) = {"candidate", "arbitration", "manifest"}
    /\ DOMAIN OBJECTS = 1..3 /\ Len(OBJECTS) = 3
    /\ OBJECTS[1] = "candidate" /\ OBJECTS[2] = "arbitration" /\ OBJECTS[3] = "manifest"
<1>1. PICK o : o = OBJECTS
  OBVIOUS
<1>2. o = <<"candidate", "arbitration", "manifest">>
  BY <1>1 DEF OBJECTS
<1>3. DOMAIN o = 1..3 /\ Len(o) = 3 /\ o[1] = "candidate" /\ o[2] = "arbitration" /\ o[3] = "manifest"
  BY <1>2
<1>4. Range(o) = {"candidate", "arbitration", "manifest"}
  <2>1. \A i \in 1..3 : i = 1 \/ i = 2 \/ i = 3
    OBVIOUS
  <2> QED
    BY <1>3, <2>1 DEF Range
<1> QED
  BY <1>1, <1>3, <1>4

\* The day of a process that captures no more does not change.
LEMMA DayStep ==
    ASSUME SessionInv, [Next]_vars
    PROVE  \/ /\ day' = day /\ procs' \in {procs, procs + 1}
              /\ proc \notin Capturing => proc' \notin Capturing \/ procs' = procs + 1
           \/ /\ procs' = procs /\ proc \in Capturing
              /\ \E s \in Ended : s.id[1] = procs /\ day' = Append(day, s)
<1>1. ASSUME NEW kind \in {"stale", "capture_error", "shutdown", "completed"},
             NEW d \in BOOLEAN, End(kind, d)
      PROVE  /\ procs' = procs /\ proc \in Capturing
             /\ \E s \in Ended : s.id[1] = procs /\ day' = Append(day, s)
  BY <1>1, EndSession DEF Capturing
<1>2. CASE \/ \E beat \in BOOLEAN : Tick(beat)
           \/ Connect \/ Stamp \/ Enqueue \/ Loop
           \/ Deliver \/ Ensure \/ Rebuild \/ JobCrash \/ UNCHANGED vars
  <2>1. UNCHANGED <<day, procs, proc>>
    BY <1>2 DEF Tick, Connect, Stamp, Enqueue, Loop, Deliver, Ensure, Rebuild, JobCrash, vars
  <2> QED
    BY <2>1
<1>3. CASE Start
  BY <1>3 DEF Start
<1>4. CASE GiveUp \/ Close \/ Stage \/ Crash
  BY <1>4 DEF GiveUp, Close, Stage, Crash, Capturing
<1> QED
  BY <1>1, <1>2, <1>3, <1>4 DEF Next

LEMMA CommittedKept ==
    ASSUME SessionInv, [Next]_vars, NEW m, Committed(m) PROVE Committed(m)'
<1>1. CASE m.by # "live"
  BY <1>1 DEF Committed
<1>2. CASE m.by = "live"
  <2>1. PICK p \in 1..procs : Names(m.uris, p) /\ (p < procs \/ proc \notin Capturing)
    BY <1>2 DEF Committed
  <2>2. procs \in Nat
    BY DEF SessionInv, Types
  <2>3. CASE /\ day' = day /\ procs' \in {procs, procs + 1}
             /\ proc \notin Capturing => proc' \notin Capturing \/ procs' = procs + 1
    <3>1. Names(m.uris, p)'
      BY <2>1, <2>3 DEF Names
    <3>2. p \in 1..procs' /\ (p < procs' \/ proc' \notin Capturing)
      BY <2>1, <2>2, <2>3
    <3> QED
      BY <3>1, <3>2 DEF Committed
  <2>4. CASE /\ procs' = procs /\ proc \in Capturing
             /\ \E s \in Ended : s.id[1] = procs /\ day' = Append(day, s)
    <3>1. PICK s : s.id[1] = procs /\ day' = Append(day, s) /\ s \in Ended
      BY <2>4
    <3>2. p < procs /\ day \in Seq(Ended)
      BY <2>1, <2>4 DEF SessionInv, Types
    <3>3. Range(day') = Range(day) \cup {s}
      <4>1. /\ Len(day) \in Nat /\ DOMAIN day = 1..Len(day) /\ DOMAIN day' = 1..(Len(day) + 1)
            /\ day'[Len(day) + 1] = s /\ \A i \in 1..Len(day) : day'[i] = day[i]
        BY <3>1, <3>2
      <4>2. 1..(Len(day) + 1) = (1..Len(day)) \cup {Len(day) + 1}
        BY <4>1
      <4>3. {day'[i] : i \in 1..Len(day)} = {day[i] : i \in 1..Len(day)}
        BY <4>1
      <4>4. {day'[i] : i \in 1..(Len(day) + 1)} =
            {day'[i] : i \in 1..Len(day)} \cup {day'[Len(day) + 1]}
        BY <4>2
      <4> QED
        BY <4>1, <4>3, <4>4 DEF Range
    <3>4. p # s.id[1]
      BY <2>2, <3>1, <3>2
    <3>5. Names(m.uris, p)'
      BY <2>1, <3>3, <3>4 DEF Names
    <3> QED
      BY <2>4, <3>2, <3>5 DEF Committed
  <2> QED
    BY <2>3, <2>4, DayStep
<1> QED
  BY <1>1, <1>2

LEMMA ObjectsFacts ==
    ASSUME NEW m, NEW n \in 0..3
    PROVE  /\ (Objects(m, n) = <<>>) <=> (n = 0)
           /\ Len(Objects(m, n)) = n /\ DOMAIN Objects(m, n) = 1..n
           /\ \A i \in 1..n : /\ Objects(m, n)[i].object = OBJECTS[i]
                              /\ Objects(m, n)[i].body = Body(m, OBJECTS[i])
           /\ n < 3 => Append(Objects(m, n), [object |-> OBJECTS[n + 1],
                                              body |-> Body(m, OBJECTS[n + 1])]) = Objects(m, n + 1)
<1>1. PICK o : o = [i \in 1..n |-> [object |-> OBJECTS[i], body |-> Body(m, OBJECTS[i])]]
  OBVIOUS
<1>2. o = Objects(m, n)
  BY <1>1 DEF Objects
<1>3. n \in Nat /\ Len(o) = n /\ DOMAIN o = 1..n
  BY <1>1
<1>4. o = <<>> <=> n = 0
  BY <1>1, <1>3
<1>5. \A i \in 1..n : o[i].object = OBJECTS[i] /\ o[i].body = Body(m, OBJECTS[i])
  BY <1>1
<1>6. ASSUME n < 3
      PROVE  Append(o, [object |-> OBJECTS[n + 1], body |-> Body(m, OBJECTS[n + 1])]) = Objects(m, n + 1)
  <2>1. PICK x, b : x = [object |-> OBJECTS[n + 1], body |-> Body(m, OBJECTS[n + 1])]
                    /\ b = Append(o, x)
    OBVIOUS
  <2>2. b = [i \in 1..(n + 1) |-> IF i = n + 1 THEN x ELSE o[i]]
    BY <1>3, <2>1
  <2>3. b = [i \in 1..(n + 1) |-> [object |-> OBJECTS[i], body |-> Body(m, OBJECTS[i])]]
    BY <1>1, <1>3, <2>1, <2>2
  <2> QED
    BY <2>1, <2>3 DEF Objects
<1> QED
  BY <1>2, <1>3, <1>4, <1>5, <1>6

LEMMA PutFacts ==
    ASSUME NEW o, NEW b
    PROVE  /\ DOMAIN Put(o, b) = DOMAIN store \cup {o}
           /\ Put(o, b)[o] = b /\ \A x \in DOMAIN store : x # o => Put(o, b)[x] = store[x]
BY DEF Put

LEMMA BodyFacts ==
    ASSUME NEW m
    PROVE  /\ Body(m, "candidate") = m.log /\ Body(m, "arbitration") = m.log
           /\ Body(m, "manifest") = m
BY DEF Body

LEMMA JournalInit == Init => JournalInv
<1> SUFFICES ASSUME Init PROVE JournalInv
  OBVIOUS
<1>1. proc = "run" /\ staged = <<>> /\ store = <<>> /\ job = "idle"
  BY DEF Init
<1>2. SessionInv
  BY SessionInit
<1>3. \A m : staged = Objects(m, 0)
  <2>1. 0 \in 0..3
    OBVIOUS
  <2>2. \A m : Objects(m, 0) = <<>>
    BY <2>1, ObjectsFacts
  <2> QED
    BY <1>1, <2>2
<1>4. Spooled
  BY <1>1, <1>3 DEF Spooled, Capturing
<1>5. Stored
  BY <1>1 DEF Stored
<1>6. Rebuilding
  BY <1>1, ObjectFacts DEF Rebuilding
<1> QED
  BY <1>2, <1>4, <1>5, <1>6 DEF JournalInv

\* No step publishes but Close and Stage.
LEMMA SpoolKept ==
    ASSUME JournalInv, [Next]_vars, staged' = staged, now' >= now,
           proc' = "publish" => proc = "publish" /\ j' = j,
           staged # <<>> /\ proc' \in Capturing => j'.failed \/ j'.first = None
    PROVE  Spooled'
<1>1. Clocks[Len(Clocks)] \in Nat /\ now \in Nat /\ now' \in Nat
  <2>1. SessionInv'
    BY SessionStep DEF JournalInv
  <2> QED
    BY <2>1, JournalAssumption DEF JournalInv, SessionInv, Types
<1>2. SessionInv /\ Spooled
  BY DEF JournalInv
<1>3. staged' # <<>> => /\ Clocks[Len(Clocks)] <= now'
                        /\ proc' \in Capturing => j'.failed \/ j'.first = None
  BY <1>1, <1>2 DEF Spooled
<1>4. PICK m, n : /\ n \in 0..3 /\ staged = Objects(m, n) /\ (n > 0 => Committed(m))
                  /\ proc = "publish" => m = j.manifest /\ n < 3
  BY <1>2 DEF Spooled
<1>5. ASSUME n > 0 PROVE Committed(m)'
  <2>1. Committed(m)
    BY <1>4, <1>5
  <2> QED
    BY <1>2, <2>1, CommittedKept
<1>6. proc' = "publish" => Committed(j.manifest)' /\ Clocks[Len(Clocks)] <= now'
  <2>1. SUFFICES ASSUME proc' = "publish" PROVE Committed(j.manifest)' /\ Clocks[Len(Clocks)] <= now'
    OBVIOUS
  <2>2. PICK x : x = j.manifest
    OBVIOUS
  <2>3. Committed(x) /\ Clocks[Len(Clocks)] <= now
    BY <1>2, <2>1, <2>2 DEF Spooled
  <2>4. Committed(x)'
    BY <1>2, <2>3, CommittedKept
  <2>5. j'.manifest = x
    BY <2>1, <2>2
  <2> QED
    BY <1>1, <2>3, <2>4, <2>5 DEF Committed
<1>7. /\ n \in 0..3 /\ staged' = Objects(m, n) /\ (n > 0 => Committed(m)')
      /\ proc' = "publish" => m = j'.manifest /\ n < 3
  BY <1>4, <1>5
<1> QED
  BY <1>3, <1>6, <1>7 DEF Spooled

LEMMA CloseSpool == ASSUME JournalInv, Close PROVE Spooled'
<1>1. /\ proc = "closing" /\ proc' = IF j'.failed THEN "off" ELSE "publish"
      /\ UNCHANGED <<now, procs, day, staged>> /\ [Next]_vars
  BY DEF Close, Next
<1>2. SessionInv /\ Spooled
  BY DEF JournalInv
<1>3. ~j'.failed => /\ RecordedAt(j'.manifest.log) = Range(Clocks)
                    /\ j'.manifest.by = "live" /\ Names(j'.manifest.uris, procs)
                    /\ ~j.failed /\ j.first # None /\ Clocks[Len(Clocks)] <= now
  BY <1>2, CloseSession
<1>4. now' >= now
  BY <1>1, <1>2 DEF SessionInv, Types
<1>5. CASE j'.failed
  BY <1>1, <1>4, <1>5, SpoolKept DEF Capturing
<1>6. CASE ~j'.failed
  <2>1. staged = <<>>
    BY <1>1, <1>2, <1>3, <1>6 DEF Spooled, Capturing
  <2>2. PICK m : m = j'.manifest
    OBVIOUS
  <2>3. procs \in Nat /\ procs >= 1
    BY <1>2 DEF SessionInv, Types
  <2>4. Committed(m)'
    <3>1. Names(m.uris, procs)'
      BY <1>1, <1>3, <1>6, <2>2 DEF Names
    <3>2. procs \in 1..procs /\ proc' \notin Capturing
      BY <1>1, <1>6, <2>3 DEF Capturing
    <3> QED
      BY <1>1, <1>3, <1>6, <2>2, <3>1, <3>2 DEF Committed
  <2>5. 0 \in 0..3 /\ Objects(m, 0) = <<>>
    <3>1. 0 \in 0..3
      OBVIOUS
    <3> QED
      BY <3>1, ObjectsFacts
  <2>6. Committed(j.manifest)'
    BY <2>2, <2>4 DEF Committed
  <2> QED
    BY <1>1, <1>3, <1>6, <2>1, <2>2, <2>5, <2>6 DEF Spooled
<1> QED
  BY <1>5, <1>6

LEMMA StageSpool == ASSUME JournalInv, Stage PROVE Spooled'
<1>1. SessionInv /\ Spooled /\ [Next]_vars
  BY DEF JournalInv, Next
<1>2. PICK m, n : /\ n \in 0..3 /\ staged = Objects(m, n) /\ (n > 0 => Committed(m))
                  /\ m = j.manifest /\ n < 3
  BY <1>1 DEF Spooled, Stage
<1>3. Committed(m) /\ Clocks[Len(Clocks)] <= now
  BY <1>1, <1>2 DEF Spooled, Stage
<1>4. Committed(m)'
  BY <1>1, <1>3, CommittedKept
<1>5. Len(staged) = n
  BY <1>2, ObjectsFacts
<1>6. /\ staged' = Append(staged, [object |-> OBJECTS[n + 1], body |-> Body(m, OBJECTS[n + 1])])
      /\ proc' = IF Len(staged') = 3 THEN "off" ELSE "publish"
      /\ UNCHANGED <<now, j>>
  BY <1>2, <1>5, ObjectFacts DEF Stage
<1>7. staged' = Objects(m, n + 1) /\ n + 1 \in 0..3
  <2>1. Append(Objects(m, n), [object |-> OBJECTS[n + 1], body |-> Body(m, OBJECTS[n + 1])])
          = Objects(m, n + 1)
    BY <1>2, ObjectsFacts
  <2> QED
    BY <1>2, <1>6, <2>1
<1>8. Len(staged') = n + 1
  BY <1>7, ObjectsFacts
<1>9. proc' = "publish" => n + 1 < 3
  BY <1>6, <1>7, <1>8
<1>10. Committed(j.manifest)'
  BY <1>2, <1>4, <1>6 DEF Committed
<1> QED
  BY <1>2, <1>3, <1>4, <1>6, <1>7, <1>9, <1>10 DEF Spooled, Capturing

LEMMA SpoolStep == ASSUME JournalInv, [Next]_vars PROVE Spooled'
<1>1. SessionInv /\ Spooled
  BY DEF JournalInv
<1>2. now \in Nat /\ (proc \in Capturing => j.manifest = None) /\ IsJournal(j)
  BY <1>1 DEF SessionInv, Types, Live
<1>3. staged # <<>> /\ proc \in Capturing => j.failed \/ j.first = None
  BY <1>1 DEF Spooled
<1>4. CASE \/ \E beat \in BOOLEAN : Tick(beat)
           \/ Stamp \/ Enqueue \/ Deliver \/ Ensure \/ Rebuild \/ JobCrash \/ UNCHANGED vars
           \/ GiveUp \/ Crash
  <2>1. /\ staged' = staged /\ now' >= now /\ j' = j
        /\ proc' = proc \/ (proc = "run" /\ proc' = "closing") \/ proc' = "off"
    BY <1>2, <1>4 DEF Tick, Stamp, Enqueue, Deliver, Ensure, Rebuild, JobCrash, vars, GiveUp, Crash
  <2> QED
    BY <1>3, <2>1, SpoolKept DEF Capturing
<1>5. CASE Start
  BY <1>2, <1>5, NewIsJournal, SpoolKept DEF Start
<1>6. CASE Connect
  <2>1. PICK id : j' = connected(j, id, now)
    BY <1>6 DEF Connect
  <2>2. proc = "run" /\ proc' = proc /\ now' = now /\ staged' = staged
    BY <1>6 DEF Connect
  <2>3. staged # <<>> => now > Clocks[1]
    <3>1. Clocks[1] \in Nat /\ Clocks[Len(Clocks)] \in Nat /\ Clocks[1] < Clocks[Len(Clocks)]
      BY JournalAssumption
    <3> QED
      BY <1>1, <1>2, <3>1 DEF Spooled
  <2>4. staged # <<>> => j'.failed
    BY <1>2, <1>3, <2>1, <2>2, <2>3, ConnectedFacts DEF Capturing
  <2> QED
    BY <1>2, <2>2, <2>4, SpoolKept
<1>7. CASE Loop
  <2>1. j' = advance(ingest(j, queue), now) /\ UNCHANGED <<now, proc, staged>> /\ proc = "run"
    BY <1>1, <1>7 DEF Loop, SessionInv, Types
  <2>2. PICK a : a = ingest(j, queue)
    OBVIOUS
  <2>3. IsJournal(a) /\ Same(j, a)
    BY <1>2, <2>2, IngestFacts
  <2>4. Same(a, j')
    BY <2>1, <2>2, <2>3, AdvanceAtFacts
  <2> QED
    BY <1>2, <1>3, <2>1, <2>3, <2>4, SpoolKept DEF Same, Capturing
<1>8. ASSUME NEW kind \in {"stale", "capture_error", "shutdown", "completed"},
             NEW d \in BOOLEAN, End(kind, d)
      PROVE  Spooled'
  <2>1. PICK c, u : j' = disconnected(ingest(j, queue), c, u)
    BY <1>8 DEF End
  <2>2. UNCHANGED <<now, staged>> /\ proc = "run" /\ proc' \in Capturing
    BY <1>1, <1>8 DEF End, SessionInv, Types, Capturing
  <2>3. PICK a : a = ingest(j, queue)
    OBVIOUS
  <2>4. IsJournal(a) /\ Same(j, a)
    BY <1>2, <2>3, IngestFacts
  <2>5. Same(a, j')
    BY <2>1, <2>3, <2>4, DisconnectedFacts
  <2> QED
    BY <1>2, <1>3, <2>2, <2>4, <2>5, SpoolKept DEF Same, Capturing
<1>9. CASE Close
  BY <1>9, CloseSpool
<1>10. CASE Stage
  BY <1>10, StageSpool
<1> QED
  BY <1>4, <1>5, <1>6, <1>7, <1>8, <1>9, <1>10 DEF Next


-----------------------------------------------------------------------------
\* What is stored stays: an object is put once.
Grows(s, t) == DOMAIN s \subseteq DOMAIN t /\ \A x \in DOMAIN s : t[x] = s[x]

LEMMA PutGrows ==
    ASSUME NEW o, NEW b, Puts(o, b)
    PROVE  /\ DOMAIN Put(o, b) = DOMAIN store \cup {o} /\ Put(o, b)[o] = b
           /\ Grows(store, Put(o, b))
<1>1. PICK p : p = Put(o, b)
  OBVIOUS
<1>2. DOMAIN p = DOMAIN store \cup {o} /\ p[o] = b /\ \A x \in DOMAIN store : x # o => p[x] = store[x]
  BY <1>1 DEF Put
<1>3. o \in DOMAIN store => store[o] = b
  BY DEF Puts
<1>4. \A x \in DOMAIN store : p[x] = store[x]
  BY <1>2, <1>3
<1> QED
  BY <1>1, <1>2, <1>4 DEF Grows

LEMMA StoreGrows == ASSUME [Next]_vars PROVE Grows(store, store')
<1>1. CASE store' = store
  BY <1>1 DEF Grows
<1>2. CASE Deliver
  <2>1. PICK o, b : o \notin DOMAIN store /\ store' = Put(o, b)
    BY <1>2 DEF Deliver
  <2> QED
    BY <2>1, PutGrows DEF Puts
<1>3. CASE Rebuild
  <2>1. PICK body : body = Body(_replay_journal(Certified(day)).manifest, job)
    OBVIOUS
  <2>2. store' = store \/ (Puts(job, body) /\ store' = Put(job, body))
    BY <1>3, <2>1 DEF Rebuild
  <2>3. Puts(job, body) => Grows(store, Put(job, body))
    BY PutGrows
  <2> QED
    BY <1>1, <2>2, <2>3
<1>4. Deliver \/ Rebuild \/ store' = store
  BY DEF Next, vars, Tick, Start, Connect, Stamp, Enqueue, Loop, End, GiveUp, Close, Stage, Crash,
         Ensure, JobCrash
<1> QED
  BY <1>1, <1>2, <1>3, <1>4

LEMMA CertifiedReadable == ASSUME SessionInv PROVE Readable(Certified(day))
<1>1. day \in Seq(Ended) /\ <<>> \in Seq(Ended)
  BY DEF SessionInv, Types
<1>2. \E S : Certified(day) \in {<<>>, Among(day, S)}
  BY DEF Certified
<1>3. PICK c : c = Certified(day) /\ c \in Seq(Ended)
  <2>1. \A S : Among(day, S) \in Seq(Ended)
    BY <1>1, AmongType
  <2> QED
    BY <1>1, <1>2, <2>1
<1>4. Len(c) \in Nat
  BY <1>3
<1>5. ASSUME NEW n \in 1..Len(c) PROVE Len(c[n].rows) \in Nat
  <2>1. c[n] \in Ended
    BY <1>3
  <2>2. c[n].rows \in Seq(Rows)
    BY <2>1 DEF Ended
  <2> QED
    BY <2>2
<1> QED
  BY <1>3, <1>4, <1>5 DEF Readable

-----------------------------------------------------------------------------
(***************************************************************************)
(* The store: nothing changes, a delivery or a put of a rebuild.           *)
(***************************************************************************)
LEMMA StoreUntouched == ASSUME JournalInv, [Next]_vars, store' = store PROVE Stored'
<1>1. SessionInv /\ Stored
  BY DEF JournalInv
<1>2. PICK m : m = store["manifest"]
  OBVIOUS
<1>3. "manifest" \in DOMAIN store => Committed(m)'
  BY <1>1, <1>2, CommittedKept DEF Stored
<1>4. Committed(m)' => Committed(store["manifest"])'
  BY <1>2 DEF Committed
<1> QED
  BY <1>1, <1>3, <1>4 DEF Stored

LEMMA DeliverStored == ASSUME JournalInv, Deliver PROVE Stored'
<1>1. SessionInv /\ Spooled /\ Stored /\ [Next]_vars
  BY DEF JournalInv, Next
<1>2. PICK m, n : /\ n \in 0..3 /\ staged = Objects(m, n)
                  /\ n > 0 => Committed(m)
  BY <1>1 DEF Spooled
<1>3. /\ DOMAIN staged = 1..n
      /\ \A i \in 1..n : /\ staged[i].object = OBJECTS[i]
                         /\ staged[i].body = Body(m, OBJECTS[i])
  BY <1>2, ObjectsFacts
<1>4. PICK i \in 1..n :
         /\ OBJECTS[i] \notin DOMAIN store
         /\ \A k \in 1..(i - 1) : /\ OBJECTS[k] \in DOMAIN store
                                  /\ store[OBJECTS[k]] = Body(m, OBJECTS[k])
         /\ store' = Put(OBJECTS[i], Body(m, OBJECTS[i]))
         /\ UNCHANGED <<proc, procs, day>>
  <2>1. PICK i \in 1..n :
           /\ staged[i].object \notin DOMAIN store
           /\ \A k \in 1..(i - 1) : /\ staged[k].object \in DOMAIN store
                                    /\ store[staged[k].object] = staged[k].body
           /\ store' = Put(staged[i].object, staged[i].body)
           /\ UNCHANGED <<proc, procs, day>>
    BY <1>3 DEF Deliver
  <2>2. \A k \in 1..(i - 1) : k \in 1..n
    BY <1>2, <2>1
  <2>3. /\ OBJECTS[i] \notin DOMAIN store
        /\ store' = Put(OBJECTS[i], Body(m, OBJECTS[i]))
    BY <1>3, <2>1
  <2>4. \A k \in 1..(i - 1) : /\ OBJECTS[k] \in DOMAIN store
                              /\ store[OBJECTS[k]] = Body(m, OBJECTS[k])
    BY <1>3, <2>1, <2>2
  <2> QED
    BY <2>1, <2>3, <2>4
<1>5. /\ DOMAIN store' = DOMAIN store \cup {OBJECTS[i]} /\ store'[OBJECTS[i]] = Body(m, OBJECTS[i])
      /\ Grows(store, store')
  BY <1>4, PutGrows DEF Puts
<1>6. OBJECTS[i] \in Range(OBJECTS) /\ (i = 1 \/ i = 2 \/ i = 3)
  <2>1. i = 1 \/ i = 2 \/ i = 3
    BY <1>2, <1>4
  <2> QED
    BY <2>1, ObjectFacts
<1>7. "manifest" \notin DOMAIN store
  BY <1>1, <1>4, <1>6 DEF Stored
<1>8. CASE i # 3
  <2>1. OBJECTS[i] # "manifest"
    BY <1>6, <1>8, ObjectFacts
  <2> QED
    BY <1>1, <1>5, <1>6, <1>7, <2>1 DEF Stored
<1>9. CASE i = 3
  <2>1. Committed(m)'
    <3>1. Committed(m)
      BY <1>2, <1>4
    <3> QED
      BY <1>1, <3>1, CommittedKept
  <2>2. 1 \in 1..(i - 1) /\ 2 \in 1..(i - 1)
    BY <1>9
  <2>3. /\ "candidate" \in DOMAIN store /\ store["candidate"] = m.log
        /\ "arbitration" \in DOMAIN store /\ store["arbitration"] = m.log
    BY <1>4, <2>2, ObjectFacts, BodyFacts
  <2>4. store'["manifest"] = m
    BY <1>5, <1>9, ObjectFacts, BodyFacts
  <2>5. store'["candidate"] = m.log /\ store'["arbitration"] = m.log
    BY <1>5, <2>3 DEF Grows
  <2>6. DOMAIN store' = Range(OBJECTS)
    BY <1>1, <1>5, <1>6, <1>9, <2>3, ObjectFacts DEF Stored
  <2>7. Committed(store["manifest"])'
    BY <2>1, <2>4 DEF Committed
  <2> QED
    BY <2>4, <2>5, <2>6, <2>7 DEF Stored
<1> QED
  BY <1>8, <1>9

LEMMA RebuildStored == ASSUME JournalInv, Rebuild PROVE Stored'
<1>1. SessionInv /\ Stored /\ Rebuilding /\ [Next]_vars /\ UNCHANGED <<proc, procs, day>>
  BY DEF JournalInv, Next, Rebuild
<1>2. PICK m, b : m = _replay_journal(Certified(day)).manifest /\ b = Body(m, job)
  OBVIOUS
<1>3. store' = store \/ (Puts(job, b) /\ store' = Put(job, b))
  BY <1>2 DEF Rebuild
<1>4. /\ job \in Range(OBJECTS) /\ ~_replay_journal(Certified(day)).failed
      /\ job # "candidate" => "candidate" \in DOMAIN store /\ store["candidate"] = m.log
      /\ job = "manifest" => "arbitration" \in DOMAIN store /\ store["arbitration"] = m.log
  BY <1>1, <1>2 DEF Rebuild, Rebuilding
<1>5. CASE store' = store
  BY <1>1, <1>5, StoreUntouched
<1>6. CASE Puts(job, b) /\ store' = Put(job, b)
  <2>1. DOMAIN store' = DOMAIN store \cup {job} /\ store'[job] = b /\ Grows(store, store')
    BY <1>6, PutGrows
  <2>2. CASE "manifest" \in DOMAIN store
    <3>1. DOMAIN store = Range(OBJECTS) /\ Committed(store["manifest"])
      BY <1>1, <2>2 DEF Stored
    <3>2. PICK c : c = store["manifest"]
      OBVIOUS
    <3>3. Committed(c)'
      BY <1>1, <3>1, <3>2, CommittedKept
    <3>4. DOMAIN store' = Range(OBJECTS)
      BY <1>4, <2>1, <3>1
    <3>5. /\ store'["manifest"] = c /\ store'["candidate"] = c.log
          /\ store'["arbitration"] = c.log
      BY <1>1, <2>1, <2>2, <3>1, <3>2, ObjectFacts DEF Grows, Stored
    <3>6. Committed(store["manifest"])'
      BY <3>3, <3>5 DEF Committed
    <3> QED
      BY <3>4, <3>5, <3>6 DEF Stored
  <2>3. CASE "manifest" \notin DOMAIN store /\ job # "manifest"
    BY <1>1, <1>4, <2>1, <2>3 DEF Stored
  <2>4. CASE "manifest" \notin DOMAIN store /\ job = "manifest"
    <3>1. /\ "candidate" \in DOMAIN store /\ store["candidate"] = m.log
          /\ "arbitration" \in DOMAIN store /\ store["arbitration"] = m.log
      BY <1>4, <2>4
    <3>2. store'["manifest"] = m
      BY <1>2, <2>1, <2>4, BodyFacts
    <3>3. store'["candidate"] = m.log /\ store'["arbitration"] = m.log
      BY <2>1, <3>1 DEF Grows
    <3>4. DOMAIN store' = Range(OBJECTS)
      BY <1>1, <2>1, <2>4, <3>1, ObjectFacts DEF Stored
    <3>5. RecordedAt(m.log) = Range(Clocks) /\ m.by = "recovery"
      <4>1. PICK c : c = Certified(day)
        OBVIOUS
      <4>2. Readable(c)
        BY <1>1, <4>1, CertifiedReadable
      <4> QED
        BY <1>2, <1>4, <4>1, <4>2, RebuiltFacts
    <3>6. Committed(store["manifest"])'
      BY <3>2, <3>5 DEF Committed
    <3> QED
      BY <3>2, <3>3, <3>4, <3>6 DEF Stored
  <2> QED
    BY <2>2, <2>3, <2>4
<1> QED
  BY <1>3, <1>5, <1>6

LEMMA StoredStep == ASSUME JournalInv, [Next]_vars PROVE Stored'
<1>1. Deliver \/ Rebuild \/ store' = store
  BY DEF Next, vars, Tick, Start, Connect, Stamp, Enqueue, Loop, End, GiveUp, Close, Stage, Crash,
         Ensure, JobCrash
<1> QED
  BY <1>1, StoreUntouched, DeliverStored, RebuildStored

-----------------------------------------------------------------------------
\* While a rebuild runs, no step changes the day, for the capture window is over.
LEMMA RebuildingKept ==
    ASSUME JournalInv, [Next]_vars, job' = job, job \in Range(OBJECTS)
    PROVE  Rebuilding'
<1>1. Grows(store, store')
  BY StoreGrows
<1>2. /\ now >= Deadline /\ cur = None /\ proc # "run" /\ late = None
      /\ now \in Nat /\ Deadline \in Nat
  BY JournalAssumption DEF JournalInv, Rebuilding, SessionInv, Types
<1>3. UNCHANGED <<day, cur>> /\ now' >= now /\ proc' # "run"
  BY <1>2 DEF Next, vars, Tick, Start, Connect, Stamp, Enqueue, Loop, End, GiveUp, Close, Stage,
              Deliver, Crash, Ensure, Rebuild, JobCrash
<1>4. PICK r : r = _replay_journal(Certified(day))
  OBVIOUS
<1>5. r = _replay_journal(Certified(day))'
  BY <1>3, <1>4
<1>6. /\ ~r.failed
      /\ job # "candidate" => "candidate" \in DOMAIN store /\ store["candidate"] = r.manifest.log
      /\ job = "manifest" => "arbitration" \in DOMAIN store /\ store["arbitration"] = r.manifest.log
  BY <1>4 DEF JournalInv, Rebuilding
<1>7. /\ job # "candidate" => "candidate" \in DOMAIN store' /\ store'["candidate"] = r.manifest.log
      /\ job = "manifest" => "arbitration" \in DOMAIN store' /\ store'["arbitration"] = r.manifest.log
  BY <1>1, <1>6 DEF Grows
<1>8. now' >= Deadline /\ cur' = None
  BY <1>2, <1>3, SessionStep DEF JournalInv, SessionInv, Types
<1> QED
  BY <1>3, <1>5, <1>6, <1>7, <1>8 DEF Rebuilding

LEMMA RebuildStep == ASSUME JournalInv, Rebuild PROVE Rebuilding'
<1>1. /\ now >= Deadline /\ cur = None /\ proc # "run" /\ job \in Range(OBJECTS)
      /\ UNCHANGED <<now, cur, proc, day>>
  BY DEF JournalInv, Rebuilding, Rebuild
<1>2. PICK r, b, i : /\ r = _replay_journal(Certified(day)) /\ b = Body(r.manifest, job)
                     /\ i = CHOOSE k \in DOMAIN OBJECTS : OBJECTS[k] = job
  OBVIOUS
<1>3. r = _replay_journal(Certified(day))'
  BY <1>1, <1>2
<1>4. /\ ~r.failed
      /\ job # "candidate" => "candidate" \in DOMAIN store /\ store["candidate"] = r.manifest.log
  BY <1>1, <1>2 DEF JournalInv, Rebuilding
<1>5. \/ /\ Puts(job, b) /\ store' = Put(job, b)
         /\ job' = IF i = Len(OBJECTS) THEN "idle" ELSE OBJECTS[i + 1]
      \/ job' = "refused"
  BY <1>2 DEF Rebuild
<1>6. CASE job' \in {"refused", "idle"}
  BY <1>6, ObjectFacts DEF Rebuilding
<1>7. CASE /\ Puts(job, b) /\ store' = Put(job, b) /\ i # 3 /\ job' = OBJECTS[i + 1]
  <2>1. DOMAIN store' = DOMAIN store \cup {job} /\ store'[job] = b /\ Grows(store, store')
    BY <1>7, PutGrows
  <2>2. (job = "candidate" /\ i = 1) \/ (job = "arbitration" /\ i = 2)
    <3>1. \E k \in DOMAIN OBJECTS : OBJECTS[k] = job
      BY <1>1 DEF Range
    <3>2. i \in 1..3 /\ OBJECTS[i] = job
      BY <1>2, <3>1, ObjectFacts
    <3>3. i = 1 \/ i = 2
      BY <1>7, <3>2
    <3> QED
      BY <3>2, <3>3, ObjectFacts
  <2>3. job' # "candidate" => "candidate" \in DOMAIN store' /\ store'["candidate"] = r.manifest.log
    <3>1. CASE job = "candidate"
      BY <1>2, <2>1, <3>1, BodyFacts
    <3>2. CASE job # "candidate"
      BY <1>4, <2>1, <3>2 DEF Grows
    <3> QED
      BY <3>1, <3>2
  <2>4. job' = "manifest" => "arbitration" \in DOMAIN store' /\ store'["arbitration"] = r.manifest.log
    <3>1. CASE job = "arbitration"
      BY <1>2, <2>1, <3>1, BodyFacts
    <3>2. CASE job = "candidate"
      <4>1. job' = "arbitration"
        BY <1>7, <2>2, <3>2, ObjectFacts
      <4> QED
        BY <4>1
    <3> QED
      BY <2>2, <3>1, <3>2
  <2> QED
    BY <1>1, <1>3, <1>4, <2>3, <2>4 DEF Rebuilding
<1> QED
  BY <1>5, <1>6, <1>7, ObjectFacts

LEMMA RebuildingStep == ASSUME JournalInv, [Next]_vars PROVE Rebuilding'
<1>1. CASE job' = job
  <2>1. CASE job \in Range(OBJECTS)
    BY <1>1, <2>1, RebuildingKept
  <2>2. CASE job \notin Range(OBJECTS)
    BY <1>1, <2>2 DEF Rebuilding
  <2> QED
    BY <2>1, <2>2
<1>2. CASE Ensure
  <2>1. CASE job' \in {"audited", "refused"}
    BY <2>1, ObjectFacts DEF Rebuilding
  <2>2. CASE job' = "candidate" /\ ~_replay_journal(Certified(day)).failed
    <3>1. /\ now >= Deadline /\ cur = None /\ proc # "run"
          /\ UNCHANGED <<now, cur, proc, day>>
      BY <1>2 DEF Ensure
    <3> QED
      BY <2>2, <3>1 DEF Rebuilding
  <2>3. \/ job' \in {"audited", "refused"}
        \/ job' = "candidate" /\ ~_replay_journal(Certified(day)).failed
    BY <1>2 DEF Ensure
  <2> QED
    BY <2>1, <2>2, <2>3
<1>3. CASE Rebuild
  BY <1>3, RebuildStep
<1>4. CASE JobCrash
  BY <1>4, ObjectFacts DEF JobCrash, Rebuilding
<1>5. Ensure \/ Rebuild \/ JobCrash \/ job' = job
  BY DEF Next, vars, Tick, Start, Connect, Stamp, Enqueue, Loop, End, GiveUp, Close, Stage, Crash,
         Deliver
<1> QED
  BY <1>1, <1>2, <1>3, <1>4, <1>5

LEMMA JournalStep == JournalInv /\ [Next]_vars => JournalInv'
<1> SUFFICES ASSUME JournalInv, [Next]_vars PROVE JournalInv'
  OBVIOUS
<1>1. SessionInv'
  BY SessionStep DEF JournalInv
<1> QED
  BY <1>1, SpoolStep, StoredStep, RebuildingStep DEF JournalInv

LEMMA JournalWhole == JournalInv => CommittedJournalIsWhole
<1> SUFFICES ASSUME JournalInv, "manifest" \in DOMAIN store PROVE CommittedJournalIsWhole
  BY DEF CommittedJournalIsWhole
<1>1. /\ DOMAIN store = Range(OBJECTS)
      /\ store["candidate"] = store["manifest"].log
      /\ store["arbitration"] = store["manifest"].log
      /\ Committed(store["manifest"])
  BY DEF JournalInv, Stored
<1>2. {d.at : d \in store["manifest"].log} = Range(Clocks)
  BY <1>1 DEF Committed, RecordedAt
<1> QED
  BY <1>1, <1>2 DEF Committed, CommittedJournalIsWhole

(***************************************************************************)
(* A committed journal is whole: whatever crashes, restarts, late spool    *)
(* deliveries and rebuilds a day sees, a manifest in the store names the   *)
(* two journals stored beside it, has a record for every clock and, when   *)
(* the capture service published it, names every session that one process  *)
(* ended (publication.py, journal.py close, recovery.py).                  *)
(***************************************************************************)
THEOREM Whole == Spec => []CommittedJournalIsWhole
<1>1. Init => JournalInv
  BY JournalInit
<1>2. JournalInv /\ [Next]_vars => JournalInv'
  BY JournalStep
<1>3. JournalInv => CommittedJournalIsWhole
  BY JournalWhole
<1> QED
  BY <1>1, <1>2, <1>3, PTL DEF Spec

-----------------------------------------------------------------------------
(***************************************************************************)
(* What the records say.  Rows wait in the order they were received; a row *)
(* is applied, waits or came after the last clock; and a record has the    *)
(* rows applied by its clock, whatever the journal applies later.          *)
(***************************************************************************)
Sorted(rows) == \A i, k \in 1..Len(rows) : i < k => rows[i].at <= rows[k].at

Popped(pending, due, rest, cutoff) ==
    /\ due \in Seq(Rows) /\ rest \in Seq(Rows) /\ Sorted(rest)
    /\ Range(pending) = Range(due) \cup Range(rest)
    /\ \A r \in Range(due) : r.at <= cutoff
    /\ \A r \in Range(rest) : r.at > cutoff

LEMMA DueFacts ==
    ASSUME NEW pending \in Seq(Rows), Sorted(pending), NEW cutoff \in Int
    PROVE  Popped(pending, Due(pending, cutoff),
                  SubSeq(pending, Len(Due(pending, cutoff)) + 1, Len(pending)), cutoff)
<1>0. PICK N : N = Len(pending)
  OBVIOUS
<1>1. N \in Nat /\ DOMAIN pending = 1..N /\ \A i \in 1..N : pending[i] \in Rows /\ pending[i].at \in Nat
  <2>1. \A r \in Rows : r.at \in Nat
    BY DEF Rows
  <2> QED
    BY <1>0, <2>1
<1> DEFINE Prefix(k) == /\ \A i \in 1..k : pending[i].at <= cutoff
                        /\ k < N => pending[k + 1].at > cutoff
           B == {k \in 0..N : k < N => pending[k + 1].at > cutoff}
<1>2. \E k \in 0..N : Prefix(k)
  <2>1. B \in SUBSET Nat /\ N \in B
    BY <1>1
  <2>2. PICK k \in B : \A m \in B : ~(m < k)
    <3> HIDE DEF B
    <3> QED
      BY <2>1, FirstOf
  <2>3. ASSUME NEW i \in 1..k PROVE pending[i].at <= cutoff
    <3>1. i - 1 \in 0..N /\ i - 1 < k /\ i - 1 < N /\ (i - 1) + 1 = i
      BY <1>1
    <3>2. i - 1 \notin B
      BY <2>2, <3>1
    <3>3. ~(pending[i].at > cutoff)
      BY <3>1, <3>2
    <3>4. pending[i].at \in Nat
      BY <1>1
    <3> QED
      BY <3>3, <3>4
  <2> QED
    BY <2>2, <2>3
<1>3. PICK n : n = CHOOSE k \in 0..N : Prefix(k)
  OBVIOUS
<1>4. n \in 0..N /\ Prefix(n)
  <2> HIDE DEF Prefix
  <2> QED
    BY <1>2, <1>3
<1>5. PICK due : due = Due(pending, cutoff)
  OBVIOUS
<1>6. due = SubSeq(pending, 1, n)
  BY <1>0, <1>3, <1>5 DEF Due
<1>7. due \in Seq(Rows) /\ Len(due) = n /\ DOMAIN due = 1..n /\ \A i \in 1..n : due[i] = pending[i]
  BY <1>0, <1>1, <1>4, <1>6
<1>8. PICK rest : rest = SubSeq(pending, n + 1, N)
  OBVIOUS
<1>9. /\ rest \in Seq(Rows) /\ Len(rest) = N - n /\ DOMAIN rest = 1..(N - n)
      /\ \A i \in 1..(N - n) : rest[i] = pending[i + n]
  BY <1>0, <1>1, <1>4, <1>8
<1>10. Sorted(rest)
  <2> SUFFICES ASSUME NEW i \in 1..(N - n), NEW k \in 1..(N - n), i < k PROVE rest[i].at <= rest[k].at
    BY <1>9 DEF Sorted
  <2>1. i + n \in 1..N /\ k + n \in 1..N /\ i + n < k + n
    BY <1>1, <1>4
  <2>2. pending[i + n].at <= pending[k + n].at
    BY <1>0, <2>1 DEF Sorted
  <2> QED
    BY <1>9, <2>2
<1>11. \A i \in (n + 1)..N : pending[i].at > cutoff
  <2> SUFFICES ASSUME NEW i \in (n + 1)..N PROVE pending[i].at > cutoff
    OBVIOUS
  <2>1. n < N /\ n + 1 \in 1..N /\ i \in 1..N /\ (n + 1 < i \/ n + 1 = i)
    BY <1>1, <1>4
  <2>2. pending[n + 1].at > cutoff
    BY <1>4, <2>1
  <2>3. pending[n + 1].at <= pending[i].at
    <3>1. pending[i].at \in Nat
      BY <1>1, <2>1
    <3> QED
      BY <1>0, <2>1, <3>1 DEF Sorted
  <2>4. pending[n + 1].at \in Nat /\ pending[i].at \in Nat
    BY <1>1, <2>1
  <2> QED
    BY <2>2, <2>3, <2>4
<1>12. \A r \in Range(due) : r.at <= cutoff
  BY <1>4, <1>7 DEF Range
<1>13. \A r \in Range(rest) : r.at > cutoff
  <2> SUFFICES ASSUME NEW i \in 1..(N - n) PROVE rest[i].at > cutoff
    BY <1>9 DEF Range
  <2>1. i + n \in (n + 1)..N
    BY <1>1, <1>4
  <2> QED
    BY <1>9, <1>11, <2>1
<1>14. Range(pending) = Range(due) \cup Range(rest)
  <2>1. ASSUME NEW i \in 1..N PROVE pending[i] \in Range(due) \cup Range(rest)
    <3>1. CASE i <= n
      <4>1. i \in 1..n
        BY <3>1, <1>4
      <4> QED
        BY <1>7, <4>1 DEF Range
    <3>2. CASE ~(i <= n)
      <4>1. i - n \in 1..(N - n) /\ (i - n) + n = i
        BY <3>2, <1>1, <1>4
      <4>2. rest[i - n] = pending[i]
        BY <1>9, <4>1
      <4> QED
        BY <1>9, <4>1, <4>2 DEF Range
    <3> QED
      BY <3>1, <3>2
  <2>2. \A i \in 1..n : due[i] \in Range(pending)
    <3>1. \A i \in 1..n : i \in 1..N
      BY <1>1, <1>4
    <3> QED
      BY <1>1, <1>7, <3>1 DEF Range
  <2>3. \A i \in 1..(N - n) : rest[i] \in Range(pending)
    <3>1. \A i \in 1..(N - n) : i + n \in 1..N
      BY <1>1, <1>4
    <3> QED
      BY <1>1, <1>9, <3>1 DEF Range
  <2>4. /\ Range(pending) = {pending[i] : i \in 1..N} /\ Range(due) = {due[i] : i \in 1..n}
        /\ Range(rest) = {rest[i] : i \in 1..(N - n)}
    BY <1>1, <1>7, <1>9 DEF Range
  <2>5. \A r \in Range(due) : r \in Range(pending)
    BY <1>7, <2>2, <2>4
  <2>6. \A r \in Range(rest) : r \in Range(pending)
    BY <1>9, <2>3, <2>4
  <2>7. \A r \in Range(pending) : r \in Range(due) \cup Range(rest)
    BY <2>1, <2>4
  <2> QED
    BY <2>5, <2>6, <2>7
<1>15. Popped(pending, due, rest, cutoff)
  BY <1>7, <1>9, <1>10, <1>12, <1>13, <1>14 DEF Popped
<1> QED
  BY <1>0, <1>5, <1>7, <1>8, <1>15

Waiting(jj) ==
    /\ jj.pending \in Seq(Rows) /\ Sorted(jj.pending)
    /\ jj.lastIn \in Nat \cup {None} /\ (jj.lastIn = None => jj.pending = <<>>)
    /\ \A r \in Range(jj.pending) : r.at <= jj.lastIn

\* R are the rows the journal was given.
Accounted(jj, R) ==
    /\ R \subseteq Rows /\ jj.applied \subseteq R /\ Range(jj.pending) \subseteq R
    /\ \A r \in R : \/ r \in jj.applied
                    \/ jj.next <= Len(Clocks) /\ r \in Range(jj.pending)
                    \/ jj.next > Len(Clocks) /\ r.at > Clocks[Len(Clocks)]
    /\ jj.next <= Len(Clocks) => \A r \in jj.applied : r.at <= Clocks[jj.next]

RecordOf(jj, t) == [at |-> t, rows |-> {r \in jj.applied : r.at <= t}, gap |-> _gap_affected(jj, t)]
Recorded(jj) == \A d \in jj.log : d = RecordOf(jj, d.at)

Faithful(jj, R) == IsJournal(jj) /\ Waiting(jj) /\ Accounted(jj, R) /\ Recorded(jj)

\* No row falls exactly on a clock.
Clear(R) == \A r \in R : r.at \notin Range(Clocks)

\* The gaps the journal knows of are the same.
Rests(a, b) == b.gaps = a.gaps /\ b.open = a.open

LEMMA ClocksAscend ==
    /\ Len(Clocks) \in Nat /\ Len(Clocks) >= 2
    /\ \A i \in 1..Len(Clocks) : Clocks[i] \in Nat /\ Clocks[i] \in Range(Clocks)
    /\ \A i, k \in 1..Len(Clocks) : i <= k => Clocks[i] <= Clocks[k]
    /\ \A t \in Range(Clocks) : t \in Nat /\ t <= Clocks[Len(Clocks)] /\ t <= Closing
<1>1. PICK N : N = Len(Clocks)
  OBVIOUS
<1>2. /\ N \in Nat /\ N >= 2 /\ DOMAIN Clocks = 1..N /\ \A i \in 1..N : Clocks[i] \in Nat
      /\ Clocks[N] <= Closing /\ Closing \in Nat
  BY <1>1, JournalAssumption
<1>3. ASSUME NEW i \in 1..N, NEW k \in 1..N, i <= k PROVE Clocks[i] <= Clocks[k]
  <2>1. CASE i = k
    BY <1>2, <2>1
  <2>2. CASE i < k
    <3>1. Clocks[i] < Clocks[k]
      BY <1>2, <2>2, JournalAssumption
    <3>2. Clocks[i] \in Nat /\ Clocks[k] \in Nat
      BY <1>2
    <3> QED
      BY <3>1, <3>2
  <2> QED
    BY <1>2, <1>3, <2>1, <2>2
<1>4. ASSUME NEW t \in Range(Clocks) PROVE t \in Nat /\ t <= Clocks[N] /\ t <= Closing
  <2>1. PICK i \in 1..N : t = Clocks[i]
    BY <1>2 DEF Range
  <2>2. i <= N /\ N \in 1..N
    BY <1>2
  <2>3. t <= Clocks[N]
    BY <1>3, <2>1, <2>2
  <2>4. t \in Nat /\ Clocks[N] \in Nat
    BY <1>2, <2>1, <2>2
  <2> QED
    BY <1>2, <2>3, <2>4
<1> QED
  BY <1>1, <1>2, <1>3, <1>4 DEF Range

\* Every record is of a clock before the next one.
LEMMA RecordsBefore ==
    ASSUME NEW jj, IsJournal(jj), NEW d \in jj.log
    PROVE  /\ d.at \in Range(Clocks) /\ d.at \in Nat
           /\ jj.next > 1 /\ jj.next - 1 \in 1..Len(Clocks) /\ d.at <= Clocks[jj.next - 1]
<1>1. d.at \in ClocksUpTo(jj.next - 1)
  BY DEF IsJournal, RecordedAt
<1>2. PICK i \in 1..(jj.next - 1) : d.at = Clocks[i]
  BY <1>1 DEF ClocksUpTo
<1>3. jj.next \in 1..(Len(Clocks) + 1)
  BY DEF IsJournal
<1>4. jj.next > 1 /\ jj.next - 1 \in 1..Len(Clocks) /\ i \in 1..Len(Clocks) /\ i <= jj.next - 1
  BY <1>3, ClocksAscend
<1> QED
  BY <1>2, <1>4, ClocksAscend

\* Gaps and rows that only reach past its clock do not change a record.
LEMMA RecordKept ==
    ASSUME NEW a, NEW b, NEW t, Rests(a, b),
           \A r : r \in b.applied /\ r.at <= t <=> r \in a.applied /\ r.at <= t
    PROVE  RecordOf(b, t) = RecordOf(a, t)
<1>1. {r \in b.applied : r.at <= t} = {r \in a.applied : r.at <= t}
  OBVIOUS
<1>2. _gap_affected(b, t) = _gap_affected(a, t)
  BY DEF _gap_affected, Rests
<1> QED
  BY <1>1, <1>2 DEF RecordOf

LEMMA ApplyFaithful ==
    ASSUME NEW jj, NEW R, Faithful(jj, R), Clear(R), NEW cutoff \in Int,
           jj.next <= Len(Clocks), cutoff <= Clocks[jj.next],
           NEW b, b = _apply_until(jj, cutoff), ~b.failed
    PROVE  /\ Faithful(b, R) /\ Rests(jj, b) /\ b.next = jj.next /\ ~jj.failed
           /\ \A r \in Range(b.pending) : r.at > cutoff
<1>1. PICK due, rest :
         /\ due = Due(jj.pending, cutoff)
         /\ rest = SubSeq(jj.pending, Len(Due(jj.pending, cutoff)) + 1, Len(jj.pending))
  OBVIOUS
<1>2. IsJournal(jj) /\ Waiting(jj) /\ Accounted(jj, R) /\ Recorded(jj)
  BY DEF Faithful
<1>3. Popped(jj.pending, due, rest, cutoff)
  BY <1>1, <1>2, DueFacts DEF Waiting
<1>4. \A r \in Range(due) : ~RefusesRow(jj, r)
  <2> SUFFICES ASSUME \E r \in Range(due) : RefusesRow(jj, r) PROVE FALSE
    OBVIOUS
  <2>1. b = Failed(jj)
    BY <1>1 DEF _apply_until
  <2> QED
    BY <1>2, <2>1, FailedFacts
<1>5. PICK x : x = jj.applied \cup Range(due)
  OBVIOUS
<1>6. b = [jj EXCEPT !.applied = x, !.pending = rest]
  <2>1. b = [jj EXCEPT !.applied = jj.applied \cup Range(due),
                       !.pending = SubSeq(jj.pending, Len(due) + 1, Len(jj.pending))]
    BY <1>1, <1>4 DEF _apply_until
  <2> QED
    BY <1>1, <1>5, <2>1
<1>7. /\ b.applied = x /\ b.pending = rest /\ b.next = jj.next /\ b.log = jj.log /\ b.lastIn = jj.lastIn
      /\ b.gaps = jj.gaps /\ b.open = jj.open /\ b.failed = jj.failed
  BY <1>2, <1>6 DEF IsJournal, Shape
<1>8. IsJournal(b)
  BY <1>1, <1>2, ApplyFacts
<1>9. Waiting(b)
  <2>1. rest \in Seq(Rows) /\ Sorted(rest) /\ Range(rest) \subseteq Range(jj.pending)
    BY <1>3 DEF Popped
  <2>2. jj.lastIn = None => rest = <<>>
    <3> SUFFICES ASSUME jj.lastIn = None PROVE rest = <<>>
      OBVIOUS
    <3>1. jj.pending = <<>>
      BY <1>2 DEF Waiting
    <3>2. Range(rest) = {}
      BY <2>1, <3>1 DEF Range
    <3>3. ~(1 \in DOMAIN rest)
      BY <3>2 DEF Range
    <3> QED
      BY <2>1, <3>3
  <2> QED
    BY <1>2, <1>7, <2>1, <2>2 DEF Waiting
<1>10. Range(jj.pending) = Range(due) \cup Range(rest) /\ \A r \in Range(due) : r.at <= cutoff
  BY <1>3 DEF Popped
<1>11. R \subseteq Rows /\ \A r \in R : r.at \in Nat /\ r.at \notin Range(Clocks)
  <2>1. \A r \in Rows : r.at \in Nat
    BY DEF Rows
  <2> QED
    BY <1>2, <2>1 DEF Accounted, Clear
<1>12. Accounted(b, R)
  <2>1. x \subseteq R /\ Range(rest) \subseteq R /\ Range(due) \subseteq R
    BY <1>2, <1>5, <1>10 DEF Accounted
  <2>2. \A r \in R : r \in x \/ r \in Range(rest)
    BY <1>2, <1>5, <1>10, ClocksAscend DEF Accounted, IsJournal
  <2>3. PICK c : c = Clocks[jj.next] /\ c \in Nat
    BY <1>2, ClocksAscend DEF IsJournal
  <2>4. \A r \in x : r.at <= c
    <3>1. ASSUME NEW r \in Range(due) PROVE r.at <= c
      BY <1>10, <1>11, <2>1, <2>3
    <3>2. \A r \in jj.applied : r.at <= c
      BY <1>2, <2>3 DEF Accounted
    <3> QED
      BY <1>5, <3>1, <3>2
  <2> QED
    BY <1>7, <1>11, <2>1, <2>2, <2>3, <2>4 DEF Accounted
<1>13. Recorded(b)
  <2> SUFFICES ASSUME NEW d \in jj.log PROVE d = RecordOf(b, d.at)
    BY <1>7 DEF Recorded
  <2>1. /\ d.at \in Nat /\ jj.next > 1 /\ jj.next - 1 \in 1..Len(Clocks) /\ d.at <= Clocks[jj.next - 1]
    BY <1>2, RecordsBefore
  <2>2. PICK l : l = Clocks[jj.next - 1] /\ l \in Nat /\ l \in Range(Clocks)
    BY <2>1, ClocksAscend
  <2>3. LastDecided(jj) = l /\ l # None
    <3>1. jj.next # 1
      BY <2>1
    <3> QED
      BY <2>2, <3>1, JournalAssumption DEF LastDecided
  <2>4. ASSUME NEW r \in Range(due) PROVE ~(r.at <= d.at)
    <3>1. ~(r.at < l)
      BY <1>4, <2>3 DEF RefusesRow
    <3>2. r.at \in Nat /\ r.at # l
      BY <1>2, <1>10, <1>11, <2>2 DEF Accounted
    <3> QED
      BY <2>1, <2>2, <3>1, <3>2
  <2>5. RecordOf(b, d.at) = RecordOf(jj, d.at)
    <3>1. \A r : r \in b.applied /\ r.at <= d.at <=> r \in jj.applied /\ r.at <= d.at
      BY <1>5, <1>7, <2>4
    <3>2. Rests(jj, b)
      BY <1>7 DEF Rests
    <3> QED
      BY <3>1, <3>2, RecordKept
  <2> QED
    BY <1>2, <2>5 DEF Recorded
<1>14. \A r \in Range(b.pending) : r.at > cutoff
  BY <1>3, <1>7 DEF Popped
<1> QED
  BY <1>7, <1>8, <1>9, <1>12, <1>13, <1>14 DEF Faithful, Rests

\* One clock of the loop.
LEMMA DecidedFaithful ==
    ASSUME NEW jj, NEW R, Faithful(jj, R), Clear(R), jj.next <= Len(Clocks),
           NEW t, t = Clocks[jj.next], NEW b, b = Decided(jj, t), ~b.failed
    PROVE  Faithful(b, R) /\ Rests(jj, b) /\ b.next = jj.next + 1 /\ ~jj.failed
<1>1. PICK a : a = _apply_until(jj, t)
  OBVIOUS
<1>2. ~jj.failed /\ ~a.failed
  <2> SUFFICES ASSUME jj.failed \/ a.failed PROVE FALSE
    OBVIOUS
  <2>1. b = Failed(jj)
    BY <1>1 DEF Decided
  <2> QED
    BY <2>1, FailedFacts DEF Faithful
<1>3. jj.next \in 1..Len(Clocks) /\ t \in Nat /\ t \in Range(Clocks)
  BY ClocksAscend DEF Faithful, IsJournal
<1>4. /\ Faithful(a, R) /\ Rests(jj, a) /\ a.next = jj.next
      /\ \A r \in Range(a.pending) : r.at > t
  BY <1>1, <1>2, <1>3, ApplyFaithful
<1>5. PICK d : d = [at |-> t, rows |-> a.applied, gap |-> _gap_affected(a, t)]
  OBVIOUS
<1>6. PICK n, l : n = a.next + 1 /\ l = a.log \cup {d}
  OBVIOUS
<1>7. b = [a EXCEPT !.next = n, !.log = l]
  BY <1>1, <1>2, <1>5, <1>6 DEF Decided
<1>8. IsJournal(a) /\ Waiting(a) /\ Accounted(a, R) /\ Recorded(a)
  BY <1>4 DEF Faithful
<1>9. /\ b.next = n /\ b.log = l /\ b.applied = a.applied /\ b.pending = a.pending /\ b.lastIn = a.lastIn
      /\ b.gaps = a.gaps /\ b.open = a.open
  BY <1>7, <1>8 DEF IsJournal, Shape
<1>10. n = jj.next + 1 /\ n - 1 = jj.next /\ n \in Nat
  BY <1>3, <1>4, <1>6
<1>11. IsJournal(b)
  BY DecidedFacts DEF Faithful
<1>12. Waiting(b)
  BY <1>8, <1>9 DEF Waiting
<1>13. \A r \in R : r.at \in Nat
  <2>1. \A r \in Rows : r.at \in Nat
    BY DEF Rows
  <2> QED
    BY <1>8, <2>1 DEF Accounted
<1>14. \A r \in a.applied : r.at <= t
  BY <1>3, <1>4, <1>8 DEF Accounted
<1>15. Accounted(b, R)
  <2>1. ASSUME NEW r \in R
        PROVE  \/ r \in a.applied
               \/ n <= Len(Clocks) /\ r \in Range(a.pending)
               \/ n > Len(Clocks) /\ r.at > Clocks[Len(Clocks)]
    <3>1. r \in a.applied \/ r \in Range(a.pending)
      BY <1>3, <1>4, <1>8, ClocksAscend DEF Accounted
    <3>2. CASE n > Len(Clocks)
      <4>1. jj.next = Len(Clocks)
        BY <1>3, <1>10, <3>2, ClocksAscend
      <4>2. r \in Range(a.pending) => r.at > Clocks[Len(Clocks)]
        BY <1>4, <4>1
      <4> QED
        BY <3>1, <3>2, <4>2
    <3>3. CASE ~(n > Len(Clocks))
      <4>1. n <= Len(Clocks)
        BY <1>10, <3>3, ClocksAscend
      <4> QED
        BY <3>1, <4>1
    <3> QED
      BY <3>2, <3>3
  <2>2. ASSUME n <= Len(Clocks), NEW r \in a.applied PROVE r.at <= Clocks[n]
    <3>1. n \in 1..Len(Clocks) /\ jj.next <= n
      BY <1>3, <1>10, <2>2
    <3>2. t <= Clocks[n] /\ Clocks[n] \in Nat
      BY <1>3, <3>1, ClocksAscend
    <3>3. r.at <= t /\ r.at \in Nat
      BY <1>8, <1>13, <1>14 DEF Accounted
    <3> QED
      BY <1>3, <3>2, <3>3
  <2>3. R \subseteq Rows /\ a.applied \subseteq R /\ Range(a.pending) \subseteq R
    BY <1>8 DEF Accounted
  <2> QED
    BY <1>9, <2>1, <2>2, <2>3 DEF Accounted
<1>16. Rests(a, b)
  BY <1>9 DEF Rests
<1>17. Recorded(b)
  <2> SUFFICES ASSUME NEW e \in l PROVE e = RecordOf(b, e.at)
    BY <1>9 DEF Recorded
  <2>1. RecordOf(b, e.at) = RecordOf(a, e.at)
    BY <1>9, <1>16, RecordKept
  <2>2. CASE e \in a.log
    BY <1>8, <2>1, <2>2 DEF Recorded
  <2>3. CASE e = d
    <3>1. {r \in a.applied : r.at <= t} = a.applied
      BY <1>14
    <3>2. d.at = t /\ d = RecordOf(a, t)
      BY <1>5, <3>1 DEF RecordOf
    <3> QED
      BY <2>1, <2>3, <3>2
  <2> QED
    BY <1>6, <2>2, <2>3
<1> QED
  BY <1>2, <1>4, <1>9, <1>10, <1>11, <1>12, <1>15, <1>16, <1>17 DEF Faithful, Rests

\* The loop of _advance stops before a clock after the cutoff.
Stopped(x, n, cutoff) ==
    x.next > n \/ (x.next <= Len(Clocks) /\ Clocks[x.next] > cutoff)

LEMMA LoopFaithful ==
    ASSUME NEW jj, NEW R, Faithful(jj, R), Clear(R), NEW cutoff \in Int,
           NEW b, b = DecidedUpTo(jj, cutoff)[Len(Clocks)], ~b.failed
    PROVE  Faithful(b, R) /\ Rests(jj, b) /\ Stopped(b, Len(Clocks), cutoff)
<1>1. PICK N, f, L : N = Len(Clocks) /\ f = DecidedUpTo(jj, cutoff) /\ L = OverClocks(cutoff)
  OBVIOUS
<1>2. N \in Nat
  BY <1>1, JournalAssumption
<1>3. /\ f[0] = jj
      /\ \A n \in 1..N : f[n] = IF f[n - 1].next = n /\ Clocks[n] <= cutoff
                                THEN Decided(f[n - 1], Clocks[n]) ELSE f[n - 1]
  <2>1. Looping(f, L, jj, N)
    BY <1>1, ClockLoop
  <2>2. f[0] = jj /\ \A n \in 1..N : f[n] = StepOf(L, f[n - 1], n)
    BY <1>2, <2>1, LoopAt
  <2> QED
    BY <1>1, <2>2, ClockLoop
<1> DEFINE Kept(x, n) == ~x.failed => Faithful(x, R) /\ Rests(jj, x) /\ Stopped(x, n, cutoff)
           B == {n \in 0..N : IsJournal(f[n]) /\ Kept(f[n], n)}
<1>4. 0 \in B
  <2>1. Stopped(jj, 0, cutoff) /\ Rests(jj, jj) /\ IsJournal(jj)
    BY DEF Stopped, Rests, Faithful, IsJournal
  <2> QED
    BY <1>2, <1>3, <2>1
<1>5. ASSUME NEW n \in 1..N, n - 1 \in B PROVE n \in B
  <2>1. PICK x, y : x = f[n - 1] /\ y = f[n]
    OBVIOUS
  <2>2. IsJournal(x) /\ Kept(x, n - 1)
    BY <1>5, <2>1
  <2>3. x.next \in Nat /\ n \in 1..Len(Clocks) /\ Clocks[n] \in Nat
    BY <1>1, <2>2, ClocksAscend DEF IsJournal
  <2>4. CASE x.next = n /\ Clocks[n] <= cutoff
    <3>1. y = Decided(x, Clocks[n])
      BY <1>3, <2>1, <2>4
    <3>2. IsJournal(y) /\ Same(x, y)
      BY <2>2, <2>3, <2>4, <3>1, DecidedFacts
    <3>3. ASSUME ~y.failed PROVE Faithful(y, R) /\ Rests(jj, y) /\ Stopped(y, n, cutoff)
      <4>1. ~x.failed
        BY <3>2, <3>3 DEF Same
      <4>2. Faithful(x, R) /\ Rests(jj, x)
        BY <2>2, <4>1
      <4>3. Faithful(y, R) /\ Rests(x, y) /\ y.next = x.next + 1
        BY <2>3, <2>4, <3>1, <3>3, <4>2, DecidedFaithful
      <4>4. y.next > n
        BY <2>3, <2>4, <4>3
      <4> QED
        BY <4>2, <4>3, <4>4 DEF Rests, Stopped
    <3> QED
      BY <2>1, <3>2, <3>3
  <2>5. CASE ~(x.next = n /\ Clocks[n] <= cutoff)
    <3>1. y = x
      BY <1>3, <2>1, <2>5
    <3>2. ASSUME Stopped(x, n - 1, cutoff) PROVE Stopped(x, n, cutoff)
      <4>1. CASE x.next > n \/ (x.next <= Len(Clocks) /\ Clocks[x.next] > cutoff)
        BY <4>1 DEF Stopped
      <4>2. CASE x.next = n
        <5>1. Clocks[x.next] > cutoff /\ x.next <= Len(Clocks)
          BY <2>3, <2>5, <4>2
        <5> QED
          BY <5>1 DEF Stopped
      <4>3. x.next > n - 1 => x.next > n \/ x.next = n
        BY <2>3
      <4> QED
        BY <3>2, <4>1, <4>2, <4>3 DEF Stopped
    <3>3. IsJournal(y) /\ Kept(y, n)
      BY <2>2, <3>1, <3>2
    <3> QED
      BY <2>1, <3>3
  <2> QED
    BY <2>4, <2>5
<1>6. N \in B
  <2> HIDE DEF B
  <2> QED
    BY <1>2, <1>4, <1>5, Counting
<1> QED
  BY <1>1, <1>6

LEMMA AdvanceFaithful ==
    ASSUME NEW jj, NEW R, Faithful(jj, R), Clear(R), NEW cutoff \in Int,
           NEW b, b = _advance(jj, cutoff), ~b.failed
    PROVE  Faithful(b, R) /\ Rests(jj, b)
<1>1. PICK d : d = DecidedUpTo(jj, cutoff)[Len(Clocks)]
  OBVIOUS
<1>2. ~d.failed
  BY <1>1 DEF _advance
<1>3. Faithful(d, R) /\ Rests(jj, d) /\ Stopped(d, Len(Clocks), cutoff)
  BY <1>1, <1>2, LoopFaithful
<1>4. IsJournal(d) /\ Waiting(d) /\ Accounted(d, R) /\ Recorded(d)
  BY <1>3 DEF Faithful
<1>5. d.next \in Nat /\ Len(Clocks) \in Nat
  BY <1>4, ClocksAscend DEF IsJournal
<1>6. CASE d.next > Len(Clocks)
  <2>1. b = [d EXCEPT !.pending = <<>>]
    BY <1>1, <1>2, <1>6 DEF _advance
  <2>2. IsJournal(b)
    BY <1>4, <2>1, ForgetFacts
  <2>3. /\ b.next = d.next /\ b.log = d.log /\ b.applied = d.applied /\ b.pending = <<>>
        /\ b.lastIn = d.lastIn /\ b.gaps = d.gaps /\ b.open = d.open
    BY <1>4, <2>1 DEF IsJournal, Shape
  <2>4. <<>> \in Seq(Rows) /\ Sorted(<<>>) /\ Range(<<>>) = {}
    BY DEF Sorted, Range
  <2>5. Waiting(b)
    BY <1>4, <2>3, <2>4 DEF Waiting
  <2>6. Accounted(b, R)
    <3>1. ~(d.next <= Len(Clocks))
      BY <1>5, <1>6
    <3> QED
      BY <1>4, <1>6, <2>3, <2>4, <3>1 DEF Accounted
  <2>7. Rests(d, b)
    BY <2>3 DEF Rests
  <2>8. Recorded(b)
    <3>1. \A t : RecordOf(b, t) = RecordOf(d, t)
      BY <2>3, <2>7, RecordKept
    <3> QED
      BY <1>4, <2>3, <3>1 DEF Recorded
  <2> QED
    BY <1>3, <2>2, <2>5, <2>6, <2>7, <2>8 DEF Faithful, Rests
<1>7. CASE ~(d.next > Len(Clocks))
  <2>1. b = _apply_until(d, cutoff)
    BY <1>1, <1>2, <1>7 DEF _advance
  <2>2. d.next <= Len(Clocks) /\ d.next \in 1..Len(Clocks)
    BY <1>4, <1>5, <1>7 DEF IsJournal
  <2>3. cutoff <= Clocks[d.next]
    BY <1>3, <1>7, <2>2, ClocksAscend DEF Stopped
  <2>4. Faithful(b, R) /\ Rests(d, b)
    BY <1>3, <2>1, <2>2, <2>3, ApplyFaithful
  <2> QED
    BY <1>3, <2>4 DEF Rests
<1> QED
  BY <1>6, <1>7

LEMMA SortedConcat ==
    ASSUME NEW p \in Seq(Rows), NEW q \in Seq(Rows), Sorted(p), Sorted(q),
           \A x \in Range(p) : \A y \in Range(q) : x.at <= y.at
    PROVE  p \o q \in Seq(Rows) /\ Sorted(p \o q) /\ Range(p \o q) = Range(p) \cup Range(q)
<1>1. PICK z, m, n : z = p \o q /\ m = Len(p) /\ n = Len(q)
  OBVIOUS
<1>2. /\ z \in Seq(Rows) /\ m \in Nat /\ n \in Nat /\ Len(z) = m + n
      /\ DOMAIN p = 1..m /\ DOMAIN q = 1..n /\ DOMAIN z = 1..(m + n)
      /\ \A i \in 1..m : z[i] = p[i]
      /\ \A i \in (m + 1)..(m + n) : z[i] = q[i - m]
  BY <1>1
<1>3. \A i \in 1..m : z[i] \in Range(p)
  BY <1>2 DEF Range
<1>4. \A i \in (m + 1)..(m + n) : i - m \in 1..n /\ z[i] \in Range(q)
  <2>1. \A i \in (m + 1)..(m + n) : i - m \in 1..n
    BY <1>2
  <2> QED
    BY <1>2, <2>1 DEF Range
<1>5. Sorted(z)
  <2> SUFFICES ASSUME NEW i \in 1..(m + n), NEW k \in 1..(m + n), i < k PROVE z[i].at <= z[k].at
    BY <1>2 DEF Sorted
  <2>1. CASE k <= m
    <3>1. i \in 1..m /\ k \in 1..m
      BY <1>2, <2>1
    <3>2. p[i].at <= p[k].at
      BY <1>1, <3>1 DEF Sorted
    <3> QED
      BY <1>2, <3>1, <3>2
  <2>2. CASE i <= m /\ ~(k <= m)
    <3>1. i \in 1..m /\ k \in (m + 1)..(m + n)
      BY <1>2, <2>2
    <3> QED
      BY <1>3, <1>4, <3>1
  <2>3. CASE ~(i <= m)
    <3>1. /\ i \in (m + 1)..(m + n) /\ k \in (m + 1)..(m + n)
          /\ i - m \in 1..n /\ k - m \in 1..n /\ i - m < k - m
      BY <1>2, <2>3
    <3>2. q[i - m].at <= q[k - m].at
      BY <1>1, <3>1 DEF Sorted
    <3> QED
      BY <1>2, <3>1, <3>2
  <2> QED
    BY <2>1, <2>2, <2>3
<1>6. Range(z) = Range(p) \cup Range(q)
  <2>1. Range(z) = {z[i] : i \in 1..(m + n)} /\ Range(p) = {p[i] : i \in 1..m} /\ Range(q) = {q[i] : i \in 1..n}
    BY <1>2 DEF Range
  <2>2. ASSUME NEW i \in 1..(m + n) PROVE z[i] \in Range(p) \cup Range(q)
    <3>1. i \in 1..m \/ i \in (m + 1)..(m + n)
      BY <1>2
    <3> QED
      BY <1>3, <1>4, <3>1
  <2>3. \A i \in 1..m : p[i] \in Range(z)
    <3>1. \A i \in 1..m : i \in 1..(m + n)
      BY <1>2
    <3> QED
      BY <1>2, <3>1 DEF Range
  <2>4. \A i \in 1..n : q[i] \in Range(z)
    <3>1. \A i \in 1..n : i + m \in (m + 1)..(m + n) /\ i + m \in 1..(m + n) /\ (i + m) - m = i
      BY <1>2
    <3>2. \A i \in 1..n : z[i + m] = q[i]
      BY <1>2, <3>1
    <3> QED
      BY <1>2, <3>1, <3>2 DEF Range
  <2> QED
    BY <2>1, <2>2, <2>3, <2>4
<1> QED
  BY <1>1, <1>2, <1>5, <1>6

\* The times a drain is checked against: the last one taken in, then the new ones.
LEMMA TimesFacts ==
    ASSUME NEW lastIn \in Nat \cup {None}, NEW rows \in Seq(Rows), rows # <<>>, NEW all,
           all = (IF lastIn = None THEN <<>> ELSE <<lastIn>>) \o [i \in DOMAIN rows |-> rows[i].at],
           ~\E i \in 1..(Len(all) - 1) : all[i + 1] < all[i], Sorted(rows)
    PROVE  /\ all[Len(all)] \in Nat
           /\ \A r \in Range(rows) : r.at <= all[Len(all)] /\ (lastIn # None => lastIn <= r.at)
<1>1. PICK n, t : n = Len(rows) /\ t = [i \in DOMAIN rows |-> rows[i].at]
  OBVIOUS
<1>2. /\ n \in Nat /\ n >= 1 /\ DOMAIN rows = 1..n
      /\ \A i \in 1..n : rows[i].at \in Nat
  <2>1. \A r \in Rows : r.at \in Nat
    BY DEF Rows
  <2> QED
    BY <1>1, <2>1
<1>3. t = [i \in 1..n |-> rows[i].at] /\ t \in Seq(Nat) /\ Len(t) = n
  BY <1>1, <1>2
<1>4. \A r \in Range(rows) : r.at \in Nat /\ rows[1].at <= r.at /\ r.at <= rows[n].at
  <2> SUFFICES ASSUME NEW i \in 1..n PROVE rows[i].at \in Nat /\ rows[1].at <= rows[i].at /\ rows[i].at <= rows[n].at
    BY <1>2 DEF Range
  <2>1. (i = 1 \/ 1 < i) /\ (i = n \/ i < n) /\ 1 \in 1..n /\ n \in 1..n
    BY <1>2
  <2>2. rows[1].at <= rows[i].at
    <3>1. 1 < i => rows[1].at <= rows[i].at
      BY <1>1, <2>1 DEF Sorted
    <3> QED
      BY <1>2, <2>1, <3>1
  <2>3. rows[i].at <= rows[n].at
    <3>1. i < n => rows[i].at <= rows[n].at
      BY <1>1, <2>1 DEF Sorted
    <3> QED
      BY <1>2, <2>1, <3>1
  <2> QED
    BY <1>2, <2>2, <2>3
<1>5. CASE lastIn = None
  <2>1. all = t
    BY <1>1, <1>3, <1>5
  <2>2. all[Len(all)] = rows[n].at /\ rows[n].at \in Nat
    BY <1>2, <1>3, <2>1
  <2> QED
    BY <1>4, <1>5, <2>2
<1>6. CASE lastIn # None
  <2>1. lastIn \in Nat
    BY <1>6
  <2>2. PICK u : u = <<lastIn>>
    OBVIOUS
  <2>3. u \in Seq(Nat) /\ Len(u) = 1 /\ u[1] = lastIn
    BY <2>1, <2>2
  <2>4. all = u \o t
    BY <1>1, <1>6, <2>2
  <2>5. all \in Seq(Nat) /\ Len(all) = n + 1 /\ all[1] = lastIn /\ \A i \in 1..n : all[i + 1] = t[i]
    <3>1. /\ all \in Seq(Nat) /\ Len(all) = n + 1
          /\ \A i \in 1..(n + 1) : all[i] = IF i <= 1 THEN u[i] ELSE t[i - 1]
      <4>1. u \in Seq(Nat) /\ t \in Seq(Nat)
        BY <1>3, <2>3
      <4>2. all \in Seq(Nat) /\ Len(all) = Len(u) + Len(t)
        BY ONLY <2>4, <4>1
      <4>3. \A i \in 1..(Len(u) + Len(t)) : all[i] = IF i <= Len(u) THEN u[i] ELSE t[i - Len(u)]
        BY ONLY <2>4, <4>1
      <4>4. Len(u) = 1 /\ Len(t) = n /\ 1 + n = n + 1
        BY <1>2, <1>3, <2>3
      <4> QED
        BY <4>2, <4>3, <4>4
    <3>2. all[1] = lastIn
      BY <1>2, <2>3, <3>1
    <3>3. ASSUME NEW i \in 1..n PROVE all[i + 1] = t[i]
      <4>1. i + 1 \in 1..(n + 1) /\ ~(i + 1 <= 1) /\ (i + 1) - 1 = i
        BY <1>2
      <4> QED
        BY <3>1, <4>1
    <3> QED
      BY <3>1, <3>2, <3>3
  <2>6. all[n + 1] = rows[n].at /\ all[1 + 1] = rows[1].at
    BY <1>2, <1>3, <2>5
  <2>7. lastIn <= rows[1].at
    <3>1. 1 \in 1..(Len(all) - 1)
      BY <1>2, <2>5
    <3>2. ~(all[1 + 1] < all[1])
      BY <3>1
    <3> QED
      BY <1>2, <2>1, <2>5, <2>6, <3>2
  <2>8. ASSUME NEW r \in Range(rows) PROVE lastIn <= r.at
    <3>1. r.at \in Nat /\ rows[1].at <= r.at /\ rows[1].at \in Nat
      BY <1>2, <1>4, <2>8
    <3> QED
      BY <2>1, <2>7, <3>1
  <2> QED
    BY <1>2, <1>4, <2>5, <2>6, <2>8
<1> QED
  BY <1>5, <1>6

\* After the last clock only rows after it come.
LateEnough(jj, rows) ==
    jj.next > Len(Clocks) => \A r \in Range(rows) : r.at > Clocks[Len(Clocks)]

LEMMA IngestFaithful ==
    ASSUME NEW jj, NEW R, Faithful(jj, R), ~jj.failed, jj.manifest = None,
           NEW rows \in Seq(Rows), Sorted(rows), LateEnough(jj, rows),
           NEW b, b = ingest(jj, rows), ~b.failed
    PROVE  Faithful(b, R \cup Range(rows)) /\ Rests(jj, b) /\ b.next = jj.next /\ b.manifest = None
<1>1. PICK all : all = (IF jj.lastIn = None THEN <<>> ELSE <<jj.lastIn>>)
                       \o [i \in DOMAIN rows |-> rows[i].at]
  OBVIOUS
<1>2. IsJournal(jj) /\ Waiting(jj) /\ Accounted(jj, R) /\ Recorded(jj)
  BY DEF Faithful
<1>3. PICK p, x : p = jj.pending \o rows /\ x = all[Len(all)]
  OBVIOUS
<1>4. b = IF jj.next > Len(Clocks) \/ rows = <<>> THEN jj
          ELSE IF \E i \in 1..(Len(all) - 1) : all[i + 1] < all[i] THEN Failed(jj)
          ELSE [jj EXCEPT !.pending = p, !.lastIn = x]
  BY <1>1, <1>3 DEF ingest, Safe
<1>5. IsJournal(b) /\ b.manifest = None
  BY <1>2, IngestFacts DEF Same
<1>6. Range(rows) \subseteq Rows
  BY DEF Range
<1>7. CASE jj.next > Len(Clocks) \/ rows = <<>>
  <2>1. b = jj
    BY <1>4, <1>7
  <2>2. rows = <<>> => Range(rows) = {}
    BY DEF Range
  <2>3. Accounted(jj, R \cup Range(rows))
    <3>1. CASE rows = <<>>
      <4>1. R \cup Range(rows) = R
        BY <2>2, <3>1
      <4> QED
        BY <1>2, <4>1
    <3>2. CASE jj.next > Len(Clocks)
      BY <1>2, <1>6, <3>2 DEF Accounted, LateEnough
    <3> QED
      BY <1>7, <3>1, <3>2
  <2> QED
    BY <1>2, <2>1, <2>3 DEF Faithful, Rests
<1>8. CASE ~(jj.next > Len(Clocks) \/ rows = <<>>)
  <2>1. ~\E i \in 1..(Len(all) - 1) : all[i + 1] < all[i]
    <3> SUFFICES ASSUME \E i \in 1..(Len(all) - 1) : all[i + 1] < all[i] PROVE FALSE
      OBVIOUS
    <3>1. b = Failed(jj)
      BY <1>4, <1>8
    <3> QED
      BY <1>2, <3>1, FailedFacts
  <2>2. b = [jj EXCEPT !.pending = p, !.lastIn = x]
    BY <1>4, <1>8, <2>1
  <2>3. /\ b.next = jj.next /\ b.log = jj.log /\ b.applied = jj.applied /\ b.pending = p /\ b.lastIn = x
        /\ b.gaps = jj.gaps /\ b.open = jj.open
    BY <1>2, <2>2 DEF IsJournal, Shape
  <2>4. /\ jj.pending \in Seq(Rows) /\ Sorted(jj.pending) /\ jj.lastIn \in Nat \cup {None}
        /\ (jj.lastIn = None => jj.pending = <<>>)
        /\ \A r \in Range(jj.pending) : r.at <= jj.lastIn
    BY <1>2 DEF Waiting
  <2>5. x \in Nat /\ \A r \in Range(rows) : r.at <= x /\ (jj.lastIn # None => jj.lastIn <= r.at)
    BY <1>1, <1>3, <1>8, <2>1, <2>4, TimesFacts
  <2>6. \A r \in Rows : r.at \in Nat
    BY DEF Rows
  <2>7. ASSUME NEW u \in Range(jj.pending), NEW y \in Range(rows) PROVE u.at <= y.at /\ u.at <= x
    <3>1. u \in Rows /\ y \in Rows
      BY <1>6, <2>4 DEF Range
    <3>2. jj.pending # <<>>
      BY <2>7 DEF Range
    <3>3. jj.lastIn \in Nat /\ u.at <= jj.lastIn /\ jj.lastIn <= y.at /\ y.at <= x
      BY <2>4, <2>5, <3>2, JournalAssumption
    <3>4. u.at \in Nat /\ y.at \in Nat
      BY <2>6, <3>1
    <3> QED
      BY <2>5, <3>3, <3>4
  <2>8. p \in Seq(Rows) /\ Sorted(p) /\ Range(p) = Range(jj.pending) \cup Range(rows)
    BY <1>3, <2>4, <2>7, SortedConcat
  <2>9. \E y : y \in Range(rows)
    <3>1. Len(rows) \in Nat /\ DOMAIN rows = 1..Len(rows) /\ Len(rows) # 0
      BY <1>8
    <3>2. rows[1] \in Range(rows)
      BY <3>1 DEF Range
    <3> QED
      BY <3>2
  <2>10. \A r \in Range(p) : r.at <= x
    BY <2>5, <2>7, <2>8, <2>9
  <2>11. Waiting(b)
    BY <2>3, <2>5, <2>8, <2>10, JournalAssumption DEF Waiting
  <2>12. jj.next <= Len(Clocks)
    BY <1>2, <1>8, ClocksAscend DEF IsJournal
  <2>13. Accounted(b, R \cup Range(rows))
    <3>1. ASSUME NEW r \in R \cup Range(rows) PROVE r \in jj.applied \/ r \in Range(p)
      BY <1>2, <1>8, <2>8, <2>12 DEF Accounted
    <3> QED
      BY <1>2, <1>6, <2>3, <2>8, <2>12, <3>1 DEF Accounted
  <2>14. Rests(jj, b)
    BY <2>3 DEF Rests
  <2>15. Recorded(b)
    <3>1. \A t : RecordOf(b, t) = RecordOf(jj, t)
      BY <2>3, <2>14, RecordKept
    <3> QED
      BY <1>2, <2>3, <3>1 DEF Recorded
  <2> QED
    BY <1>5, <2>3, <2>11, <2>13, <2>14, <2>15 DEF Faithful
<1> QED
  BY <1>5, <1>7, <1>8

\* A record keeps its gap mark: later gaps start after its clock or end after it.
LEMMA MarkKept ==
    ASSUME NEW a, NEW b, NEW R, Faithful(a, R), IsJournal(b), b.log = a.log, b.applied = a.applied,
           \A d \in a.log : _gap_affected(b, d.at) = _gap_affected(a, d.at)
    PROVE  Recorded(b)
<1> SUFFICES ASSUME NEW d \in a.log PROVE d = RecordOf(b, d.at)
  BY DEF Recorded
<1>1. d = RecordOf(a, d.at)
  BY DEF Faithful, Recorded
<1>2. RecordOf(b, d.at) = RecordOf(a, d.at)
  BY DEF RecordOf
<1> QED
  BY <1>1, <1>2

LEMMA ConnectedFaithful ==
    ASSUME NEW jj, NEW R, Faithful(jj, R), ~jj.failed, jj.manifest = None,
           NEW id, NEW at \in Nat, Until(jj, at),
           jj.open # None => jj.open \in Nat /\ jj.open < at,
           NEW b, b = connected(jj, id, at), ~b.failed
    PROVE  /\ Faithful(b, R) /\ b.manifest = None /\ b.next = jj.next /\ b.open = None
           /\ b.gaps = IF jj.open = None THEN jj.gaps
                       ELSE jj.gaps \cup {[start |-> jj.open, end |-> at]}
<1>1. PICK f, i, g :
         /\ f = IF jj.first = None THEN at ELSE jj.first
         /\ i = Append(jj.ids, id)
         /\ g = IF jj.open # None /\ at > jj.open
                THEN jj.gaps \cup {[start |-> jj.open, end |-> at]} ELSE jj.gaps
  OBVIOUS
<1>2. PICK bad : bad = (\/ jj.first = None /\ at > Clocks[1]
                        \/ id \in Range(jj.ids)
                        \/ jj.open # None /\ at < jj.open)
  OBVIOUS
<1>3. b = IF bad THEN Failed(jj) ELSE [jj EXCEPT !.first = f, !.ids = i, !.open = None, !.gaps = g]
  BY <1>1, <1>2 DEF connected, Safe
<1>4. IsJournal(jj) /\ Waiting(jj) /\ Accounted(jj, R) /\ Recorded(jj)
  BY DEF Faithful
<1>5. ~bad
  <2> SUFFICES ASSUME bad PROVE FALSE
    OBVIOUS
  <2>1. b = Failed(jj)
    BY <1>3
  <2> QED
    BY <1>4, <2>1, FailedFacts
<1>6. b = [jj EXCEPT !.first = f, !.ids = i, !.open = None, !.gaps = g]
  BY <1>3, <1>5
<1>7. /\ b.next = jj.next /\ b.log = jj.log /\ b.applied = jj.applied /\ b.pending = jj.pending
      /\ b.lastIn = jj.lastIn /\ b.gaps = g /\ b.open = None /\ b.manifest = jj.manifest
  BY <1>4, <1>6 DEF IsJournal, Shape
<1>8. IsJournal(b)
  BY <1>4, ConnectedFacts
<1>9. g = IF jj.open = None THEN jj.gaps ELSE jj.gaps \cup {[start |-> jj.open, end |-> at]}
  BY <1>1
<1>10. ASSUME NEW d \in jj.log PROVE _gap_affected(b, d.at) = _gap_affected(jj, d.at)
  <2>1. PICK t : t = d.at
    OBVIOUS
  <2>2. t \in Nat /\ t <= at
    <3>1. /\ t \in Nat /\ jj.next > 1 /\ jj.next - 1 \in 1..Len(Clocks) /\ t <= Clocks[jj.next - 1]
      BY <1>4, <2>1, RecordsBefore
    <3>2. PICK c : c = Clocks[jj.next - 1] /\ c \in Nat
      BY <3>1, ClocksAscend
    <3>3. c <= at
      BY <3>1, <3>2 DEF Until
    <3> QED
      BY <3>1, <3>2, <3>3
  <2>3. Warmup \in Nat /\ Warmup >= 1
    BY JournalAssumption
  <2>4. CASE jj.open = None
    BY <1>7, <1>9, <2>4 DEF _gap_affected
  <2>5. CASE jj.open # None
    <3>1. PICK o, e : o = jj.open /\ e = [start |-> o, end |-> at]
      OBVIOUS
    <3>2. e.start = o /\ e.end = at /\ g = jj.gaps \cup {e}
      BY <1>9, <2>5, <3>1
    <3>3. (e.start <= t /\ t < e.end + Warmup) <=> t >= o
      BY <2>2, <2>3, <2>5, <3>1, <3>2
    <3>4. _gap_affected(b, t) <=> \E x \in jj.gaps \cup {e} : x.start <= t /\ t < x.end + Warmup
      BY <1>7, <3>2 DEF _gap_affected
    <3>5. _gap_affected(jj, t) <=> t >= o \/ \E x \in jj.gaps : x.start <= t /\ t < x.end + Warmup
      BY <2>5, <3>1 DEF _gap_affected
    <3>6. _gap_affected(b, t) <=> _gap_affected(jj, t)
      BY <3>3, <3>4, <3>5
    <3>7. _gap_affected(b, t) \in BOOLEAN /\ _gap_affected(jj, t) \in BOOLEAN
      BY DEF _gap_affected
    <3> QED
      BY <2>1, <3>6, <3>7
  <2> QED
    BY <2>1, <2>4, <2>5
<1>11. Recorded(b)
  BY <1>7, <1>8, <1>10, MarkKept
<1>12. Waiting(b) /\ Accounted(b, R)
  BY <1>4, <1>7 DEF Waiting, Accounted
<1> QED
  BY <1>7, <1>8, <1>9, <1>11, <1>12 DEF Faithful

LEMMA DisconnectedFaithful ==
    ASSUME NEW jj, NEW R, Faithful(jj, R), Clear(R), ~jj.failed, jj.manifest = None, jj.open = None,
           NEW at \in Nat, Until(jj, at), NEW unavailable, unavailable => at \notin Range(Clocks),
           NEW b, b = disconnected(jj, at, unavailable), ~b.failed
    PROVE  /\ Faithful(b, R) /\ b.manifest = None /\ b.gaps = jj.gaps
           /\ b.open = IF unavailable THEN at ELSE None
<1>1. PICK o : o = IF unavailable /\ jj.open = None THEN at ELSE jj.open
  OBVIOUS
<1>2. PICK g : g = [jj EXCEPT !.open = o]
  OBVIOUS
<1>3. PICK a : a = _advance(g, at)
  OBVIOUS
<1>4. b = a
  BY <1>1, <1>2, <1>3 DEF disconnected, Safe
<1>5. IsJournal(jj) /\ Waiting(jj) /\ Accounted(jj, R) /\ Recorded(jj)
  BY DEF Faithful
<1>6. /\ Shape(g) /\ g.next = jj.next /\ g.log = jj.log /\ g.applied = jj.applied /\ g.pending = jj.pending
      /\ g.lastIn = jj.lastIn /\ g.gaps = jj.gaps /\ g.open = o /\ g.manifest = None /\ g.failed = jj.failed
  BY <1>2, <1>5 DEF IsJournal, Shape
<1>7. IsJournal(g)
  BY <1>5, <1>6, Unmoved
<1>8. ASSUME NEW d \in jj.log PROVE _gap_affected(g, d.at) = _gap_affected(jj, d.at)
  <2>1. PICK t : t = d.at
    OBVIOUS
  <2>2. t \in Nat /\ t <= at /\ t \in Range(Clocks)
    <3>1. /\ t \in Nat /\ jj.next > 1 /\ jj.next - 1 \in 1..Len(Clocks) /\ t <= Clocks[jj.next - 1]
          /\ t \in Range(Clocks)
      BY <1>5, <2>1, RecordsBefore
    <3>2. PICK c : c = Clocks[jj.next - 1] /\ c \in Nat
      BY <3>1, ClocksAscend
    <3>3. c <= at
      BY <3>1, <3>2 DEF Until
    <3> QED
      BY <3>1, <3>2, <3>3
  <2>3. ~(o # None /\ t >= o)
    <3>1. CASE unavailable
      <4>1. o = at /\ t # at
        BY <1>1, <2>2, <3>1
      <4> QED
        BY <2>2, <4>1
    <3>2. CASE ~unavailable
      BY <1>1, <3>2
    <3> QED
      BY <3>1, <3>2
  <2>4. _gap_affected(g, t) = _gap_affected(jj, t)
    BY <1>6, <2>3 DEF _gap_affected
  <2> QED
    BY <2>1, <2>4
<1>9. Recorded(g)
  BY <1>6, <1>7, <1>8, MarkKept
<1>10. Waiting(g) /\ Accounted(g, R)
  BY <1>5, <1>6 DEF Waiting, Accounted
<1>11. Faithful(g, R)
  BY <1>7, <1>9, <1>10 DEF Faithful
<1>12. Faithful(a, R) /\ Rests(g, a)
  BY <1>3, <1>4, <1>11, AdvanceFaithful
<1>13. a.manifest = None
  BY <1>3, <1>6, <1>7, AdvanceFacts DEF Same
<1> QED
  BY <1>1, <1>4, <1>6, <1>12, <1>13 DEF Rests

\* What the manifest of a journal with these rows and gaps says.
ReportOf(R, jj) ==
    {[at |-> t, rows |-> {r \in R : r.at <= t}, gap |-> _gap_affected(jj, t)] : t \in Range(Clocks)}

LEMMA CloseFaithful ==
    ASSUME NEW jj, NEW R, Faithful(jj, R), Clear(R), jj.manifest = None,
           NEW at \in Int, NEW manifests, NEW by,
           NEW b, b = close(jj, at, manifests, by), ~b.failed
    PROVE  b.manifest.log = ReportOf(R, jj)
<1>1. PICK a : a = _advance(jj, at)
  OBVIOUS
<1>2. IsJournal(jj) /\ IsJournal(a)
  BY <1>1, AdvanceFacts DEF Faithful
<1>3. PICK bad : bad = (\/ a.failed \/ a.next <= Len(Clocks) \/ a.first = None
                        \/ Misnamed(a, manifests))
  OBVIOUS
<1>4. PICK m : m = [log |-> a.log, ids |-> a.ids, uris |-> manifests,
                    first |-> a.first, completed |-> at, by |-> by]
  OBVIOUS
<1>5. b = Safe(jj, IF bad THEN Failed(a) ELSE [a EXCEPT !.manifest = m])
  BY <1>1, <1>3, <1>4 DEF close
<1>6. ~jj.failed
  BY <1>5 DEF Safe
<1>7. b = IF bad THEN Failed(a) ELSE [a EXCEPT !.manifest = m]
  BY <1>5, <1>6 DEF Safe
<1>8. ~bad
  <2> SUFFICES ASSUME bad PROVE FALSE
    OBVIOUS
  <2>1. b = Failed(a)
    BY <1>7
  <2> QED
    BY <1>2, <2>1, FailedFacts
<1>9. ~a.failed /\ ~(a.next <= Len(Clocks)) /\ b.manifest.log = a.log
  BY <1>2, <1>3, <1>4, <1>7, <1>8 DEF IsJournal, Shape
<1>10. Faithful(a, R) /\ Rests(jj, a)
  BY <1>1, <1>9, AdvanceFaithful
<1>11. a.next = Len(Clocks) + 1 /\ Len(Clocks) \in Nat
  BY <1>2, <1>9, ClocksAscend DEF IsJournal
<1>12. RecordedAt(a.log) = Range(Clocks)
  <2>1. RecordedAt(a.log) = ClocksUpTo(Len(Clocks))
    BY <1>2, <1>11 DEF IsJournal
  <2>2. DOMAIN Clocks = 1..Len(Clocks)
    BY JournalAssumption
  <2> QED
    BY <2>1, <2>2 DEF ClocksUpTo, Range
<1>13. ASSUME NEW t \in Range(Clocks)
       PROVE  RecordOf(a, t) = [at |-> t, rows |-> {r \in R : r.at <= t}, gap |-> _gap_affected(jj, t)]
  <2>1. Accounted(a, R)
    BY <1>10 DEF Faithful
  <2>2. ASSUME NEW r \in R, r.at <= t PROVE r \in a.applied
    <3>1. r.at \in Nat
      BY <2>1 DEF Accounted, Rows
    <3>2. PICK c : c = Clocks[Len(Clocks)] /\ c \in Nat /\ t \in Nat /\ t <= c
      BY ClocksAscend
    <3>3. ~(r.at > c)
      BY <2>2, <3>1, <3>2
    <3> QED
      BY <1>9, <2>1, <3>2, <3>3 DEF Accounted
  <2>3. {r \in a.applied : r.at <= t} = {r \in R : r.at <= t}
    BY <2>1, <2>2 DEF Accounted
  <2>4. _gap_affected(a, t) = _gap_affected(jj, t)
    BY <1>10 DEF Rests, _gap_affected
  <2> QED
    BY <2>3, <2>4 DEF RecordOf
<1>14. \A d \in a.log : d.at \in Range(Clocks) /\ d = RecordOf(a, d.at)
  BY <1>10, <1>12 DEF Faithful, Recorded, RecordedAt
<1>15. \A t \in Range(Clocks) : \E d \in a.log : d.at = t
  BY <1>12 DEF RecordedAt
<1>16. a.log = {RecordOf(a, t) : t \in Range(Clocks)}
  <2>1. \A t \in Range(Clocks) : RecordOf(a, t) \in a.log
    BY <1>14, <1>15
  <2> QED
    BY <1>14, <2>1
<1>17. {RecordOf(a, t) : t \in Range(Clocks)} = ReportOf(R, jj)
  BY <1>13 DEF ReportOf
<1> QED
  BY <1>9, <1>16, <1>17

-----------------------------------------------------------------------------
(***************************************************************************)
(* The journal among the sessions lo to hi of T: it knows the gaps between *)
(* them, and has one open when the last of them broke off.                 *)
(***************************************************************************)
Spans(T, lo, hi) ==
    {[start |-> covered_until(T[i]), end |-> T[i + 1].connected] : i \in lo..(hi - 1)}
RowsIn(T, lo, hi) == UNION {Range(T[i].rows) : i \in lo..hi}

Between(jj, T, lo, hi) ==
    /\ jj.gaps = Spans(T, lo, hi)
    /\ jj.open = IF lo <= hi /\ T[hi].kind \notin CLEAN THEN covered_until(T[hi]) ELSE None

Within(jj, T, lo, hi, at) ==
    /\ jj.gaps = Spans(T, lo, hi)
                 \cup (IF lo <= hi THEN {[start |-> covered_until(T[hi]), end |-> at]} ELSE {})
    /\ jj.open = None

Fits(s) ==
    /\ s \in Ended /\ covered_until(s) \in Nat
    /\ s.connected <= covered_until(s) /\ covered_until(s) <= s.disconnected
    /\ s.published = s.disconnected /\ Sorted(s.rows)
    /\ \A r \in Range(s.rows) : s.connected <= r.at /\ r.at <= s.disconnected

Timed(T) ==
    /\ T \in Seq(Ended) /\ \A i \in 1..Len(T) : Fits(T[i])
    /\ \A i, k \in 1..Len(T) : i < k => T[i].disconnected < T[k].connected

Apart(s) == covered_until(s) \notin Range(Clocks) /\ Clear(Range(s.rows))

\* No decided clock reaches a time.
Before(jj, time) == jj.next > 1 => Clocks[jj.next - 1] < time

LEMMA EndedParts ==
    ASSUME NEW s \in Ended
    PROVE  /\ s.connected \in Nat /\ s.disconnected \in Nat /\ s.published \in Nat /\ s.rows \in Seq(Rows)
           /\ Len(s.rows) \in Nat /\ Range(s.rows) \subseteq Rows
           /\ s.hb \in Nat \cup {None} /\ (s.kind # "stale" => covered_until(s) = s.disconnected)
           /\ s.kind \in CLEAN => covered_until(s) = s.disconnected
<1>1. s.connected \in Nat /\ s.disconnected \in Nat /\ s.published \in Nat /\ s.rows \in Seq(Rows)
      /\ s.hb \in Nat \cup {None}
  BY DEF Ended
<1>2. Len(s.rows) \in Nat /\ Range(s.rows) \subseteq Rows
  BY <1>1 DEF Range
<1>3. s.kind # "stale" => covered_until(s) = s.disconnected
  BY DEF covered_until
<1>4. s.kind \in CLEAN => s.kind # "stale"
  BY DEF CLEAN
<1> QED
  BY <1>1, <1>2, <1>3, <1>4

LEMMA SpansStep ==
    ASSUME NEW T, NEW lo \in Nat, NEW hi \in Nat, lo <= hi + 1
    PROVE  /\ Spans(T, lo, hi + 1) =
                Spans(T, lo, hi)
                \cup (IF lo <= hi THEN {[start |-> covered_until(T[hi]), end |-> T[hi + 1].connected]}
                      ELSE {})
           /\ RowsIn(T, lo, hi + 1) = RowsIn(T, lo, hi) \cup Range(T[hi + 1].rows)
<1>1. lo..(hi + 1) = (lo..hi) \cup {hi + 1}
  OBVIOUS
<1>2. RowsIn(T, lo, hi + 1) = RowsIn(T, lo, hi) \cup Range(T[hi + 1].rows)
  BY <1>1 DEF RowsIn
<1>3. (hi + 1) - 1 = hi
  OBVIOUS
<1>4. CASE lo <= hi
  <2>1. lo..hi = (lo..(hi - 1)) \cup {hi}
    BY <1>4
  <2>2. Spans(T, lo, hi + 1) =
          {[start |-> covered_until(T[i]), end |-> T[i + 1].connected] : i \in lo..hi}
    BY <1>3 DEF Spans
  <2>3. Spans(T, lo, hi + 1) =
          Spans(T, lo, hi) \cup {[start |-> covered_until(T[hi]), end |-> T[hi + 1].connected]}
    BY <2>1, <2>2 DEF Spans
  <2> QED
    BY <1>2, <1>4, <2>3
<1>5. CASE ~(lo <= hi)
  <2>1. lo..hi = {} /\ lo..(hi - 1) = {}
    BY <1>5
  <2> QED
    BY <1>2, <1>3, <1>5, <2>1 DEF Spans
<1> QED
  BY <1>4, <1>5

\* More sessions do not change what the ones before them say.
LEMMA SpansKept ==
    ASSUME NEW T, NEW U, NEW lo \in Nat, NEW hi \in Nat, \A i \in lo..hi : U[i] = T[i]
    PROVE  /\ Spans(U, lo, hi) = Spans(T, lo, hi) /\ RowsIn(U, lo, hi) = RowsIn(T, lo, hi)
           /\ \A jj, at : /\ Between(jj, T, lo, hi) => Between(jj, U, lo, hi)
                          /\ Within(jj, T, lo, hi, at) => Within(jj, U, lo, hi, at)
<1>1. \A i \in lo..(hi - 1) : i \in lo..hi /\ i + 1 \in lo..hi
  OBVIOUS
<1>2. Spans(U, lo, hi) = Spans(T, lo, hi)
  <2>1. \A i \in lo..(hi - 1) : U[i] = T[i] /\ U[i + 1] = T[i + 1]
    BY <1>1
  <2> QED
    BY <2>1 DEF Spans
<1>3. RowsIn(U, lo, hi) = RowsIn(T, lo, hi)
  BY DEF RowsIn
<1>4. lo <= hi => U[hi] = T[hi]
  OBVIOUS
<1> QED
  BY <1>2, <1>3, <1>4 DEF Between, Within

LEMMA JoinFaithful ==
    ASSUME NEW jj, NEW R, Faithful(jj, R), ~jj.failed, jj.manifest = None,
           NEW T, NEW lo \in Nat, NEW hi \in Nat, Between(jj, T, lo, hi),
           NEW at \in Nat, Until(jj, at),
           lo <= hi => T[hi].kind \notin CLEAN /\ covered_until(T[hi]) \in Nat /\ covered_until(T[hi]) < at,
           NEW id, NEW b, b = connected(jj, id, at), ~b.failed
    PROVE  Faithful(b, R) /\ b.manifest = None /\ b.next = jj.next /\ Within(b, T, lo, hi, at)
<1>1. jj.open # None => lo <= hi /\ jj.open = covered_until(T[hi]) /\ jj.open \in Nat /\ jj.open < at
  BY DEF Between
<1>2. /\ Faithful(b, R) /\ b.manifest = None /\ b.next = jj.next /\ b.open = None
      /\ b.gaps = IF jj.open = None THEN jj.gaps ELSE jj.gaps \cup {[start |-> jj.open, end |-> at]}
  BY <1>1, ConnectedFaithful
<1>3. CASE lo <= hi
  <2>1. jj.open = covered_until(T[hi]) /\ jj.open # None
    BY <1>3, JournalAssumption DEF Between
  <2> QED
    BY <1>2, <1>3, <2>1 DEF Between, Within
<1>4. CASE ~(lo <= hi)
  <2>1. jj.open = None
    BY <1>4 DEF Between
  <2> QED
    BY <1>2, <1>4, <2>1 DEF Between, Within
<1> QED
  BY <1>3, <1>4

LEMMA LeaveFaithful ==
    ASSUME NEW jj, NEW R, Faithful(jj, R), Clear(R), ~jj.failed, jj.manifest = None,
           NEW T, NEW lo \in Nat, NEW hi \in Nat, lo <= hi + 1, NEW s, s = T[hi + 1],
           Within(jj, T, lo, hi, s.connected),
           NEW at \in Nat, at = covered_until(s), at \notin Range(Clocks), Until(jj, at),
           NEW b, b = disconnected(jj, at, s.kind \notin CLEAN), ~b.failed
    PROVE  Faithful(b, R) /\ b.manifest = None /\ Between(b, T, lo, hi + 1)
<1>1. jj.open = None
  BY DEF Within
<1>2. /\ Faithful(b, R) /\ b.manifest = None /\ b.gaps = jj.gaps
      /\ b.open = IF s.kind \notin CLEAN THEN at ELSE None
  <2>1. PICK u : u = (s.kind \notin CLEAN)
    OBVIOUS
  <2>2. b = disconnected(jj, at, u)
    BY <2>1
  <2>3. /\ Faithful(b, R) /\ b.manifest = None /\ b.gaps = jj.gaps
        /\ b.open = IF u THEN at ELSE None
    BY <1>1, <2>2, DisconnectedFaithful
  <2> QED
    BY <2>1, <2>3
<1>3. b.gaps = Spans(T, lo, hi + 1)
  <2>1. Spans(T, lo, hi + 1) =
          Spans(T, lo, hi)
          \cup (IF lo <= hi THEN {[start |-> covered_until(T[hi]), end |-> T[hi + 1].connected]} ELSE {})
    BY SpansStep
  <2>2. jj.gaps = Spans(T, lo, hi)
                  \cup (IF lo <= hi THEN {[start |-> covered_until(T[hi]), end |-> s.connected]} ELSE {})
    BY DEF Within
  <2>3. s.connected = T[hi + 1].connected
    OBVIOUS
  <2> QED
    BY ONLY <1>2, <2>1, <2>2, <2>3, Zenon
<1> QED
  BY <1>2, <1>3 DEF Between

-----------------------------------------------------------------------------
(***************************************************************************)
(* The rebuild: every row is given before the journal moves past it.       *)
(***************************************************************************)
LEMMA RowIngested ==
    ASSUME NEW x, NEW G, Faithful(x, G), ~x.failed, x.manifest = None, NEW r \in Rows,
           Before(x, r.at), NEW a, a = ingest(x, <<r>>), ~a.failed
    PROVE  Faithful(a, G \cup {r}) /\ Rests(x, a) /\ a.next = x.next /\ a.manifest = None
<1>1. PICK q : q = <<r>>
  OBVIOUS
<1>2. q \in Seq(Rows) /\ Len(q) = 1 /\ q[1] = r /\ DOMAIN q = 1..1
  BY <1>1
<1>3. Range(q) = {r}
  <2>1. \A i \in 1..1 : i = 1
    OBVIOUS
  <2> QED
    BY <1>2, <2>1 DEF Range
<1>4. Sorted(q)
  <2>1. \A i, k \in 1..1 : ~(i < k)
    OBVIOUS
  <2> QED
    BY <1>2, <2>1 DEF Sorted
<1>5. LateEnough(x, q)
  <2> SUFFICES ASSUME x.next > Len(Clocks) PROVE r.at > Clocks[Len(Clocks)]
    BY <1>3 DEF LateEnough
  <2>1. x.next = Len(Clocks) + 1 /\ x.next > 1 /\ x.next - 1 = Len(Clocks)
    BY ClocksAscend DEF Faithful, IsJournal
  <2>2. Clocks[Len(Clocks)] < r.at
    BY <2>1 DEF Before
  <2>3. Clocks[Len(Clocks)] \in Nat /\ r.at \in Nat
    BY ClocksAscend DEF Rows
  <2> QED
    BY <2>2, <2>3
<1>6. a = ingest(x, q)
  BY <1>1
<1>7. Faithful(a, G \cup Range(q)) /\ Rests(x, a) /\ a.next = x.next /\ a.manifest = None
  <2>1. q \in Seq(Rows)
    BY <1>2
  <2> QED
    BY ONLY Faithful(x, G), ~x.failed, x.manifest = None, ~a.failed, <1>4, <1>5, <1>6, <2>1,
            IngestFaithful
<1> QED
  BY <1>3, <1>7

LEMMA RowAdvanced ==
    ASSUME NEW a, NEW G, Faithful(a, G), ~a.failed, a.manifest = None, Clear(G), NEW at \in Nat,
           Before(a, at), NEW y, y = advance(a, at + Cadence), ~y.failed
    PROVE  Faithful(y, G) /\ Rests(a, y) /\ y.manifest = None /\ Until(y, at)
<1>1. (at + Cadence) - Cadence = at
  BY JournalAssumption
<1>2. y = _advance(a, at)
  BY <1>1 DEF advance, Safe
<1>3. Faithful(y, G) /\ Rests(a, y)
  BY <1>2, AdvanceFaithful
<1>4. IsJournal(a)
  BY DEF Faithful
<1>5. Until(a, at)
  <2> SUFFICES ASSUME a.next > 1 PROVE Clocks[a.next - 1] <= at
    BY DEF Until
  <2>1. a.next - 1 \in 1..Len(Clocks)
    BY <1>4, ClocksAscend DEF IsJournal
  <2>2. Clocks[a.next - 1] \in Nat /\ Clocks[a.next - 1] < at
    BY <2>1, ClocksAscend DEF Before
  <2> QED
    BY <2>2
<1>6. Same(a, y) /\ Until(y, at)
  <2>1. at \in Int /\ at <= at
    OBVIOUS
  <2>2. Same(a, y) /\ \A limit \in Int : at \in Int /\ at <= limit /\ Until(a, limit) => Until(y, limit)
    BY <1>2, <1>4, AdvanceFacts
  <2> QED
    BY <1>5, <2>1, <2>2
<1> QED
  BY <1>3, <1>6 DEF Same

\* An earlier limit.
LEMMA Earlier ==
    ASSUME NEW y, IsJournal(y), NEW at \in Nat, Until(y, at), NEW to \in Nat
    PROVE  (at < to => Before(y, to)) /\ (at <= to => Until(y, to))
<1>1. y.next > 1 => y.next - 1 \in 1..Len(Clocks)
  BY ClocksAscend DEF IsJournal
<1>2. y.next > 1 => Clocks[y.next - 1] \in Nat /\ Clocks[y.next - 1] <= at
  BY <1>1, ClocksAscend DEF Until
<1>3. at < to => Before(y, to)
  BY <1>2 DEF Before
<1>4. at <= to => Until(y, to)
  BY <1>2 DEF Until
<1> QED
  BY <1>3, <1>4

\* The rows taken so far.
Given(R, rows, n) == R \cup {rows[k] : k \in 1..n}

\* The journal after n rows of a session that is covered until high.
Reading(x, c, R, rows, n, high) ==
    /\ Faithful(x, Given(R, rows, n)) /\ Rests(c, x) /\ Until(x, high)
    /\ \A m \in (n + 1)..Len(rows) : Before(x, rows[m].at)

LEMMA ReadingStep ==
    ASSUME NEW rows \in Seq(Rows), Sorted(rows), NEW R, Clear(R \cup Range(rows)), NEW high \in Nat,
           \A r \in Range(rows) : r.at <= high,
           NEW c, NEW n \in 1..Len(rows), NEW x, Reading(x, c, R, rows, n - 1, high),
           ~x.failed, x.manifest = None, NEW y, y = ReplayRow(x, rows, n), ~y.failed
    PROVE  Reading(y, c, R, rows, n, high)
<1>1. PICK N, r, a, G, H : /\ N = Len(rows) /\ r = rows[n] /\ a = ingest(x, <<r>>)
                           /\ G = Given(R, rows, n - 1) /\ H = Given(R, rows, n)
  OBVIOUS
<1>2. /\ N \in Nat /\ n \in 1..N /\ DOMAIN rows = 1..N /\ r \in Rows /\ r \in Range(rows)
      /\ \A m \in 1..N : rows[m] \in Range(rows) /\ rows[m].at \in Nat
  <2>1. N \in Nat /\ n \in 1..N /\ DOMAIN rows = 1..N /\ \A m \in 1..N : rows[m] \in Rows
    BY <1>1
  <2>2. \A m \in 1..N : rows[m] \in Range(rows) /\ rows[m].at \in Nat
    BY <2>1 DEF Range, Rows
  <2> QED
    BY <1>1, <2>1, <2>2
<1>3. r.at \in Nat /\ r.at <= high
  BY <1>1, <1>2
<1>4. H = G \cup {r}
  <2>1. 1..n = (1..(n - 1)) \cup {n}
    BY <1>2
  <2> QED
    BY <1>1, <2>1 DEF Given
<1>5. (n - 1) + 1 = n
  BY <1>2
<1>6. Faithful(x, G) /\ Rests(c, x) /\ Until(x, high) /\ \A m \in n..N : Before(x, rows[m].at)
  BY <1>1, <1>5 DEF Reading
<1>7. IsJournal(x) /\ IsJournal(a) /\ Same(x, a)
  BY <1>1, <1>6, IngestFacts DEF Faithful
<1>8. y = IF n < N /\ rows[n + 1].at = r.at THEN a ELSE advance(a, r.at + Cadence)
  BY <1>1 DEF ReplayRow
<1>9. ~a.failed
  <2>1. Same(a, advance(a, r.at + Cadence))
    BY <1>7, AdvanceAtFacts
  <2> QED
    BY <1>8, <2>1 DEF Same
<1>10. Before(x, r.at)
  BY <1>1, <1>2, <1>6
<1>11. Faithful(a, H) /\ Rests(x, a) /\ a.next = x.next /\ a.manifest = None
  <2>1. a = ingest(x, <<r>>)
    BY <1>1
  <2>2. Faithful(a, G \cup {r}) /\ Rests(x, a) /\ a.next = x.next /\ a.manifest = None
    <3>1. r \in Rows /\ Faithful(x, G)
      BY <1>2, <1>6
    <3> QED
      BY <1>9, <1>10, <2>1, <3>1, RowIngested, ZenonT(30)
  <2> QED
    BY ONLY <1>4, <2>2, Zenon
<1>12. Rests(c, a)
  BY <1>6, <1>11 DEF Rests
<1>13. CASE n < N /\ rows[n + 1].at = r.at
  <2>1. y = a
    BY <1>8, <1>13
  <2>2. \A m \in (n + 1)..N : Before(a, rows[m].at)
    <3>1. \A m \in (n + 1)..N : m \in n..N
      BY <1>2
    <3> QED
      BY <1>6, <1>11, <3>1 DEF Before
  <2>3. Until(a, high)
    BY <1>6, <1>11 DEF Until
  <2> QED
    BY <1>1, <1>11, <1>12, <2>1, <2>2, <2>3 DEF Reading
<1>14. CASE ~(n < N /\ rows[n + 1].at = r.at)
  <2>1. y = advance(a, r.at + Cadence)
    BY <1>8, <1>14
  <2>2. Before(a, r.at)
    BY <1>10, <1>11 DEF Before
  <2>3. Clear(H)
    <3>1. H \subseteq R \cup Range(rows)
      <4>1. \A m \in 1..n : m \in 1..N
        BY <1>2
      <4> QED
        BY <1>1, <1>2, <4>1 DEF Given
    <3> QED
      BY <3>1 DEF Clear
  <2>4. Faithful(y, H) /\ Rests(a, y) /\ y.manifest = None /\ Until(y, r.at)
    BY <1>3, <1>9, <1>11, <2>1, <2>2, <2>3, RowAdvanced
  <2>5. IsJournal(y)
    BY <2>4 DEF Faithful
  <2>6. ASSUME NEW m \in (n + 1)..N PROVE Before(y, rows[m].at)
    <3>1. n < N /\ n + 1 \in 1..N /\ m \in 1..N /\ n < n + 1 /\ (n + 1 = m \/ n + 1 < m)
      BY <1>2
    <3>2. rows[n + 1].at \in Nat /\ rows[m].at \in Nat
      BY <1>2, <3>1
    <3>3. r.at <= rows[n + 1].at
      BY <1>1, <1>2, <3>1 DEF Sorted
    <3>4. rows[n + 1].at <= rows[m].at
      <4>1. n + 1 < m => rows[n + 1].at <= rows[m].at
        BY <1>1, <3>1 DEF Sorted
      <4> QED
        BY <3>1, <3>2, <4>1
    <3>5. r.at < rows[m].at
      BY <1>3, <1>14, <3>1, <3>2, <3>3, <3>4
    <3> QED
      BY <1>3, <2>4, <2>5, <3>2, <3>5, Earlier
  <2>7. Until(y, high)
    BY <1>3, <2>4, <2>5, Earlier
  <2>8. Rests(c, y)
    BY <1>12, <2>4 DEF Rests
  <2> QED
    BY <1>1, <2>4, <2>6, <2>7, <2>8 DEF Reading
<1> QED
  BY <1>13, <1>14

LEMMA ReplayRowsFaithful ==
    ASSUME NEW rows \in Seq(Rows), Sorted(rows), NEW R, Clear(R \cup Range(rows)), NEW high \in Nat,
           \A r \in Range(rows) : r.at <= high,
           NEW c, Faithful(c, R), c.manifest = None, Until(c, high),
           \A r \in Range(rows) : Before(c, r.at),
           NEW b, b = ReplayRows(c, rows), ~b.failed
    PROVE  /\ Faithful(b, R \cup Range(rows)) /\ Rests(c, b) /\ b.manifest = None /\ Until(b, high)
           /\ ~c.failed
<1>0. PICK N : N = Len(rows) /\ N \in Nat /\ DOMAIN rows = 1..N
  OBVIOUS
<1>1. PICK f, L : Looping(f, L, c, N) /\ L = OverRows(rows) /\ ReplayRows(c, rows) = f[N]
  BY <1>0, RowLoop
<1>2. f[0] = c /\ \A n \in 1..N : f[n] = StepOf(L, f[n - 1], n)
  BY <1>0, <1>1, LoopAt
<1>3. \A n \in 1..N : f[n] = ReplayRow(f[n - 1], rows, n)
  <2>1. \A x, n : StepOf(L, x, n) = ReplayRow(x, rows, n)
    BY <1>1 DEF StepOf, OverRows
  <2> QED
    BY <1>2, <2>1
<1> DEFINE Kept(x, n) == Unclosed(x) /\ (~x.failed => ~c.failed /\ Reading(x, c, R, rows, n, high))
           B == {n \in 0..N : Kept(f[n], n)}
<1>4. 0 \in B
  <2>1. Given(R, rows, 0) = R
    BY DEF Given
  <2>2. \A m \in (0 + 1)..Len(rows) : Before(c, rows[m].at)
    <3>1. \A m \in (0 + 1)..Len(rows) : rows[m] \in Range(rows)
      BY <1>0 DEF Range
    <3> QED
      BY <3>1
  <2>3. Reading(c, c, R, rows, 0, high)
    BY <2>1, <2>2 DEF Reading, Rests
  <2>4. Unclosed(c)
    BY DEF Unclosed, Faithful
  <2> QED
    BY <1>0, <1>2, <2>3, <2>4
<1>5. ASSUME NEW n \in 1..N, n - 1 \in B PROVE n \in B
  <2>1. PICK x, y : x = f[n - 1] /\ y = f[n]
    OBVIOUS
  <2>2. Kept(x, n - 1)
    BY <1>5, <2>1
  <2>3. y = ReplayRow(x, rows, n)
    BY <1>3, <2>1
  <2>4. Unclosed(y)
    BY <2>2, <2>3, ReplayRowUnclosed
  <2>5. ~y.failed => ~x.failed
    <3>1. IsJournal(x)
      BY <2>2 DEF Unclosed
    <3>2. PICK a, z : a = ingest(x, <<rows[n]>>) /\ z = advance(a, rows[n].at + Cadence)
      OBVIOUS
    <3>3. IsJournal(a) /\ Same(x, a)
      BY <3>1, <3>2, IngestFacts
    <3>4. Same(a, z)
      BY <3>2, <3>3, AdvanceAtFacts
    <3>5. y = a \/ y = z
      BY <2>3, <3>2 DEF ReplayRow
    <3> QED
      BY <3>3, <3>4, <3>5 DEF Same
  <2>6. ~y.failed => Reading(y, c, R, rows, n, high)
    BY <1>0, <2>2, <2>3, <2>5, ReadingStep DEF Unclosed
  <2>7. Kept(y, n)
    BY <2>2, <2>4, <2>5, <2>6
  <2> QED
    BY <2>1, <2>7
<1>6. N \in B
  <2> HIDE DEF B
  <2> QED
    BY <1>0, <1>4, <1>5, Counting
<1>7. Kept(b, N)
  BY <1>1, <1>6
<1>8. Given(R, rows, N) = R \cup Range(rows)
  BY <1>0 DEF Given, Range
<1> QED
  BY <1>7, <1>8 DEF Reading, Unclosed

\* A failed journal stays failed.
LEMMA ReplayRowFails ==
    ASSUME NEW x, Unclosed(x), x.failed, NEW rows, NEW n
    PROVE  Unclosed(ReplayRow(x, rows, n)) /\ ReplayRow(x, rows, n).failed
<1>1. PICK a, z : a = ingest(x, <<rows[n]>>) /\ z = advance(a, rows[n].at + Cadence)
  OBVIOUS
<1>2. IsJournal(a) /\ Same(x, a)
  BY <1>1, IngestFacts DEF Unclosed
<1>3. Same(a, z)
  BY <1>1, <1>2, AdvanceAtFacts
<1>4. ReplayRow(x, rows, n) \in {a, z}
  BY <1>1 DEF ReplayRow
<1> QED
  BY <1>2, <1>3, <1>4, ReplayRowUnclosed DEF Same

LEMMA ReplayRowsFails ==
    ASSUME NEW c, Unclosed(c), c.failed, NEW rows, Len(rows) \in Nat PROVE ReplayRows(c, rows).failed
<1>1. PICK f : Looping(f, OverRows(rows), c, Len(rows)) /\ ReplayRows(c, rows) = f[Len(rows)]
  BY RowLoop
<1>2. f[0] = c /\ \A n \in 1..Len(rows) : f[n] = StepOf(OverRows(rows), f[n - 1], n)
  BY <1>1, LoopAt
<1>3. \A x, n : StepOf(OverRows(rows), x, n) = ReplayRow(x, rows, n)
  BY DEF StepOf, OverRows
<1> DEFINE B == {n \in 0..Len(rows) : Unclosed(f[n]) /\ f[n].failed}
<1>4. 0 \in B /\ \A n \in 1..Len(rows) : n - 1 \in B => n \in B
  BY <1>2, <1>3, ReplayRowFails
<1>5. Len(rows) \in B
  <2> HIDE DEF B
  <2> QED
    BY <1>4, Counting
<1> QED
  BY <1>1, <1>5

\* One certified session: its journal goes from between to between.
LEMMA ReplaySessionFaithful ==
    ASSUME NEW T, NEW hi \in Nat, NEW s, s = T[hi + 1], Fits(s), Apart(s),
           \A r \in Range(s.rows) : r.at <= covered_until(s),
           NEW jj, Faithful(jj, RowsIn(T, 1, hi)), ~jj.failed, jj.manifest = None,
           Between(jj, T, 1, hi), Clear(RowsIn(T, 1, hi)), Before(jj, s.connected),
           1 <= hi => T[hi].kind \notin CLEAN /\ covered_until(T[hi]) \in Nat
                      /\ covered_until(T[hi]) < s.connected,
           NEW b, b = ReplaySession(jj, s), ~b.failed
    PROVE  /\ Faithful(b, RowsIn(T, 1, hi + 1)) /\ b.manifest = None /\ Between(b, T, 1, hi + 1)
           /\ Until(b, covered_until(s))
<1>1. PICK R, at, c, d, u :
         /\ R = RowsIn(T, 1, hi) /\ at = s.connected /\ c = connected(jj, s.id, at)
         /\ d = ReplayRows(c, s.rows) /\ u = covered_until(s)
  OBVIOUS
<1>2. /\ s \in Ended /\ u \in Nat /\ at \in Nat /\ at <= u /\ s.rows \in Seq(Rows) /\ Sorted(s.rows)
      /\ Len(s.rows) \in Nat /\ u \notin Range(Clocks)
      /\ \A r \in Range(s.rows) : r \in Rows /\ at <= r.at /\ r.at <= u /\ r.at \in Nat
  <2>1. \A r \in Rows : r.at \in Nat
    BY DEF Rows
  <2> QED
    BY <1>1, <2>1, EndedParts DEF Fits, Apart
<1>3. b = disconnected(d, u, s.kind \notin CLEAN)
  <2>1. (IF s.kind \notin CLEAN THEN covered_until(s) ELSE s.disconnected) = u
    BY <1>1, <1>2, EndedParts
  <2> QED
    BY <1>1, <2>1 DEF ReplaySession
<1>4. Unclosed(jj) /\ Unclosed(c) /\ Unclosed(d)
  <2>1. Unclosed(jj)
    BY DEF Faithful, Unclosed
  <2>2. Unclosed(c)
    BY <1>1, <2>1, ConnectedFacts DEF Unclosed
  <2> QED
    BY <1>1, <1>2, <2>1, <2>2, ReplayRowsUnclosed
<1>5. Same(d, b) /\ IsJournal(b)
  BY <1>3, <1>4, DisconnectedFacts DEF Unclosed
<1>6. ~d.failed
  BY <1>5 DEF Same
<1>7. Until(jj, at)
  <2> SUFFICES ASSUME jj.next > 1 PROVE Clocks[jj.next - 1] <= at
    BY DEF Until
  <2>1. jj.next - 1 \in 1..Len(Clocks)
    BY <1>4, ClocksAscend DEF Unclosed, IsJournal
  <2>2. Clocks[jj.next - 1] \in Nat /\ Clocks[jj.next - 1] < at
    BY <1>1, <2>1, ClocksAscend DEF Before
  <2> QED
    BY <1>2, <2>2
<1>8. Clear(R \cup Range(s.rows))
  BY <1>1 DEF Clear, Apart
<1>9. ASSUME ~c.failed
      PROVE  /\ Faithful(c, R) /\ c.manifest = None /\ c.next = jj.next /\ Within(c, T, 1, hi, at)
             /\ Until(c, u) /\ \A r \in Range(s.rows) : Before(c, r.at)
  <2>1. Faithful(c, R) /\ c.manifest = None /\ c.next = jj.next /\ Within(c, T, 1, hi, at)
    <3>1. Faithful(jj, R) /\ c = connected(jj, s.id, at) /\ 1 \in Nat /\ at \in Nat
      BY <1>1, <1>2
    <3>2. 1 <= hi => T[hi].kind \notin CLEAN /\ covered_until(T[hi]) \in Nat /\ covered_until(T[hi]) < at
      BY <1>1
    <3> QED
      BY <1>7, <1>9, <3>1, <3>2, JoinFaithful
  <2>2. c.next > 1 => Clocks[c.next - 1] \in Nat /\ Clocks[c.next - 1] < at
    <3>1. c.next > 1 => c.next - 1 \in 1..Len(Clocks)
      BY <1>4, ClocksAscend DEF Unclosed, IsJournal
    <3> QED
      BY <1>1, <2>1, <3>1, ClocksAscend DEF Before
  <2>3. Until(c, u)
    BY <1>2, <2>2 DEF Until
  <2>4. \A r \in Range(s.rows) : Before(c, r.at)
    BY <1>2, <2>2 DEF Before
  <2> QED
    BY <2>1, <2>3, <2>4
<1>10. ~c.failed
  <2> SUFFICES ASSUME c.failed PROVE FALSE
    OBVIOUS
  <2>1. d.failed
    BY <1>1, <1>2, <1>4, ReplayRowsFails
  <2> QED
    BY <1>6, <2>1
<1>11. /\ Faithful(d, R \cup Range(s.rows)) /\ Rests(c, d) /\ d.manifest = None /\ Until(d, u)
  <2>1. PICK rows : rows = s.rows
    OBVIOUS
  <2>2. /\ rows \in Seq(Rows) /\ Sorted(rows) /\ Clear(R \cup Range(rows)) /\ d = ReplayRows(c, rows)
        /\ \A r \in Range(rows) : r.at <= u
    BY <1>1, <1>2, <1>8, <2>1
  <2>3. /\ Faithful(c, R) /\ c.manifest = None /\ Until(c, u) /\ \A r \in Range(rows) : Before(c, r.at)
    BY <1>9, <1>10, <2>1
  <2>4. Faithful(d, R \cup Range(rows)) /\ Rests(c, d) /\ d.manifest = None /\ Until(d, u)
    BY <1>2, <1>6, <2>2, <2>3, ReplayRowsFaithful
  <2> QED
    BY <2>1, <2>4
<1>12. Within(d, T, 1, hi, at)
  BY <1>9, <1>10, <1>11 DEF Rests, Within
<1>13. RowsIn(T, 1, hi + 1) = R \cup Range(s.rows) /\ 1 <= hi + 1
  <2>1. 1 \in Nat /\ 1 <= hi + 1
    OBVIOUS
  <2>2. RowsIn(T, 1, hi + 1) = RowsIn(T, 1, hi) \cup Range(T[hi + 1].rows)
    BY <2>1, SpansStep
  <2> QED
    BY <1>1, <2>1, <2>2
<1>14. Faithful(b, R \cup Range(s.rows)) /\ b.manifest = None /\ Between(b, T, 1, hi + 1)
  <2>1. Within(d, T, 1, hi, s.connected) /\ u = covered_until(s) /\ 1 \in Nat
    BY <1>1, <1>12
  <2>2. PICK G : G = R \cup Range(s.rows)
    OBVIOUS
  <2>3. /\ Faithful(d, G) /\ Clear(G) /\ d.manifest = None /\ Until(d, u)
        /\ u \in Nat /\ u \notin Range(Clocks) /\ 1 <= hi + 1
    BY <1>2, <1>8, <1>11, <1>13, <2>2
  <2>4. Faithful(b, G) /\ b.manifest = None /\ Between(b, T, 1, hi + 1)
    BY ONLY hi \in Nat, s = T[hi + 1], ~b.failed, <1>3, <1>6, <2>1, <2>3, LeaveFaithful
  <2> QED
    BY <2>2, <2>4
<1>15. Until(b, u)
  <2>1. u \in Int /\ u <= u /\ IsJournal(d)
    BY <1>2, <1>4 DEF Unclosed
  <2>2. \A limit \in Int : u \in Int /\ u <= limit /\ Until(d, limit) => Until(b, limit)
    BY <1>3, <2>1, DisconnectedFacts
  <2> QED
    BY <1>11, <2>1, <2>2
<1> QED
  BY <1>1, <1>13, <1>14, <1>15

\* What the certificate asks of sessions: none beyond its coverage, and breaks between them.
Coherent(T) ==
    /\ Timed(T) /\ \A i \in 1..Len(T) : Apart(T[i])
    /\ \A i \in 1..Len(T) : \A r \in Range(T[i].rows) : r.at <= covered_until(T[i])
    /\ \A i \in 1..(Len(T) - 1) : T[i].kind \notin CLEAN

Report(T, lo, hi) ==
    {[at |-> t, rows |-> {r \in RowsIn(T, lo, hi) : r.at <= t},
      gap |-> \/ T[hi].kind \notin CLEAN /\ t >= covered_until(T[hi])
              \/ \E g \in Spans(T, lo, hi) : g.start <= t /\ t < g.end + Warmup] :
        t \in Range(Clocks)}

LEMMA ReportIs ==
    ASSUME NEW T, NEW lo \in Nat, NEW hi \in Nat, lo <= hi, covered_until(T[hi]) \in Nat,
           NEW jj, Between(jj, T, lo, hi)
    PROVE  ReportOf(RowsIn(T, lo, hi), jj) = Report(T, lo, hi)
<1>1. /\ jj.gaps = Spans(T, lo, hi)
      /\ jj.open = IF T[hi].kind \notin CLEAN THEN covered_until(T[hi]) ELSE None
      /\ covered_until(T[hi]) # None
  BY JournalAssumption DEF Between
<1>2. ASSUME NEW t
      PROVE  _gap_affected(jj, t) =
               (\/ T[hi].kind \notin CLEAN /\ t >= covered_until(T[hi])
                \/ \E g \in Spans(T, lo, hi) : g.start <= t /\ t < g.end + Warmup)
  BY <1>1 DEF _gap_affected
<1> QED
  BY <1>2 DEF ReportOf, Report

LEMMA RowsApart ==
    ASSUME NEW T, NEW lo, NEW hi, \A i \in lo..hi : Apart(T[i])
    PROVE  Clear(RowsIn(T, lo, hi))
BY DEF Apart, Clear, RowsIn

\* The journal after n of the sessions.
Rejoined(x, T, n) ==
    /\ Faithful(x, RowsIn(T, 1, n)) /\ Between(x, T, 1, n)
    /\ IF n = 0 THEN x.next = 1 ELSE Until(x, covered_until(T[n]))

LEMMA NewFaithful ==
    ASSUME NEW T, NEW lo \in Nat, NEW hi \in Nat, hi < lo
    PROVE  /\ Faithful(NewJournal, RowsIn(T, lo, hi)) /\ Between(NewJournal, T, lo, hi)
           /\ ~NewJournal.failed /\ RowsIn(T, lo, hi) = {}
<1>1. PICK x : x = NewJournal
  OBVIOUS
<1>2. /\ x.next = 1 /\ x.pending = <<>> /\ x.lastIn = None /\ x.applied = {} /\ x.open = None
      /\ x.gaps = {} /\ x.failed = FALSE /\ x.log = {} /\ x.manifest = None
  BY <1>1 DEF NewJournal
<1>3. lo..hi = {} /\ lo..(hi - 1) = {} /\ ~(lo <= hi)
  OBVIOUS
<1>4. RowsIn(T, lo, hi) = {} /\ Spans(T, lo, hi) = {}
  BY <1>3 DEF RowsIn, Spans
<1>5. <<>> \in Seq(Rows) /\ Sorted(<<>>) /\ Range(<<>>) = {}
  BY DEF Sorted, Range
<1>6. Waiting(x) /\ Accounted(x, {}) /\ Recorded(x)
  BY <1>2, <1>5 DEF Waiting, Accounted, Recorded
<1>7. IsJournal(x)
  BY <1>1, NewIsJournal
<1> QED
  BY <1>1, <1>2, <1>3, <1>4, <1>6, <1>7 DEF Faithful, Between

LEMMA RejoinedStep ==
    ASSUME NEW T, Coherent(T), NEW n \in 1..Len(T), NEW x, Rejoined(x, T, n - 1),
           ~x.failed, x.manifest = None, NEW y, y = ReplaySession(x, T[n]), ~y.failed
    PROVE  Rejoined(y, T, n)
<1>1. PICK hi, s : hi = n - 1 /\ s = T[n]
  OBVIOUS
<1>2. Timed(T) /\ T \in Seq(Ended) /\ Len(T) \in Nat
  BY DEF Coherent, Timed
<1>3. hi \in Nat /\ n = hi + 1 /\ n \in 1..Len(T) /\ n \in Nat /\ n # 0
  BY <1>1, <1>2
<1>4. s = T[hi + 1] /\ Fits(s) /\ Apart(s) /\ \A r \in Range(s.rows) : r.at <= covered_until(s)
  BY <1>1, <1>2, <1>3 DEF Coherent, Timed
<1>5. s \in Ended /\ s.connected \in Nat /\ covered_until(s) \in Nat
  BY <1>4, EndedParts DEF Fits
<1>6. Faithful(x, RowsIn(T, 1, hi)) /\ Between(x, T, 1, hi)
  BY <1>1 DEF Rejoined
<1>7. Clear(RowsIn(T, 1, hi))
  <2>1. \A i \in 1..hi : Apart(T[i])
    BY <1>3 DEF Coherent
  <2> QED
    BY <2>1, RowsApart
<1>8. 1 <= hi => /\ T[hi].kind \notin CLEAN /\ covered_until(T[hi]) \in Nat
                 /\ covered_until(T[hi]) < s.connected
  <2> SUFFICES ASSUME 1 <= hi PROVE /\ T[hi].kind \notin CLEAN /\ covered_until(T[hi]) \in Nat
                                    /\ covered_until(T[hi]) < s.connected
    OBVIOUS
  <2>1. hi \in 1..(Len(T) - 1) /\ hi \in 1..Len(T) /\ hi < n
    BY <1>2, <1>3
  <2>2. T[hi].kind \notin CLEAN
    BY <2>1 DEF Coherent
  <2>3. PICK p : p = T[hi]
    OBVIOUS
  <2>4. Fits(p) /\ p.disconnected < s.connected
    BY <1>1, <1>2, <1>3, <2>1, <2>3 DEF Timed
  <2>5. covered_until(p) \in Nat /\ covered_until(p) <= p.disconnected /\ p.disconnected \in Nat
    BY <2>4, EndedParts DEF Fits
  <2> QED
    BY <1>5, <2>2, <2>3, <2>4, <2>5
<1>9. Before(x, s.connected)
  <2>1. CASE hi = 0
    <3>1. x.next = 1
      BY <1>1, <2>1 DEF Rejoined
    <3> QED
      BY <3>1 DEF Before
  <2>2. CASE hi # 0
    <3>1. PICK c : c = covered_until(T[hi])
      OBVIOUS
    <3>2. Until(x, c)
      BY <1>1, <2>2, <3>1 DEF Rejoined
    <3>3. c \in Nat /\ c < s.connected /\ IsJournal(x)
      BY <1>3, <1>6, <1>8, <2>2, <3>1 DEF Faithful
    <3> QED
      BY <1>5, <3>2, <3>3, Earlier
  <2> QED
    BY <2>1, <2>2
<1>10. /\ Faithful(y, RowsIn(T, 1, hi + 1)) /\ Between(y, T, 1, hi + 1) /\ Until(y, covered_until(s))
  <2>1. y = ReplaySession(x, s)
    BY <1>1
  <2> QED
    BY ONLY ~x.failed, x.manifest = None, ~y.failed, <1>3, <1>4, <1>6, <1>7, <1>8, <1>9, <2>1,
            ReplaySessionFaithful
<1> QED
  BY <1>1, <1>3, <1>10 DEF Rejoined

LEMMA ReplaySessionFails ==
    ASSUME NEW x, Unclosed(x), x.failed, NEW s, Len(s.rows) \in Nat PROVE ReplaySession(x, s).failed
<1>1. PICK c, r : c = connected(x, s.id, s.connected) /\ r = ReplayRows(c, s.rows)
  OBVIOUS
<1>2. Unclosed(c) /\ c.failed
  BY <1>1, ConnectedFacts DEF Unclosed
<1>3. Unclosed(r) /\ r.failed
  BY <1>1, <1>2, ReplayRowsUnclosed, ReplayRowsFails
<1>4. \A at, u : disconnected(r, at, u).failed
  BY <1>3, DisconnectedFacts DEF Unclosed, Same
<1> QED
  BY <1>1, <1>4 DEF ReplaySession

LEMMA ReplayedFaithful ==
    ASSUME NEW T, Coherent(T), NEW b, b = Replayed(T), ~b.failed
    PROVE  Rejoined(b, T, Len(T)) /\ b.manifest = None
<1>0. PICK N : N = Len(T)
  OBVIOUS
<1>1. N \in Nat /\ \A n \in 1..N : Len(T[n].rows) \in Nat
  <2>1. T \in Seq(Ended)
    BY DEF Coherent, Timed
  <2>2. N \in Nat /\ \A n \in 1..N : T[n] \in Ended
    BY <1>0, <2>1
  <2> QED
    BY <2>2, EndedParts
<1>2. PICK f, L : /\ Looping(f, L, NewJournal, N) /\ L = OverSessions(T) /\ Replayed(T) = f[N]
  BY <1>0, <1>1, SessionLoop
<1>3. f[0] = NewJournal /\ \A n \in 1..N : f[n] = StepOf(L, f[n - 1], n)
  BY <1>1, <1>2, LoopAt
<1>4. \A n \in 1..N : f[n] = ReplaySession(f[n - 1], T[n])
  <2>1. \A x, n : StepOf(L, x, n) = ReplaySession(x, T[n])
    BY <1>2 DEF StepOf, OverSessions
  <2> QED
    BY <1>3, <2>1
<1> DEFINE B == {n \in 0..N : Unclosed(f[n]) /\ (~f[n].failed => Rejoined(f[n], T, n))}
<1>5. 0 \in B
  <2>1. Faithful(NewJournal, RowsIn(T, 1, 0)) /\ Between(NewJournal, T, 1, 0)
    <3>1. 0 \in Nat /\ 1 \in Nat /\ 0 < 1
      OBVIOUS
    <3> QED
      BY <3>1, NewFaithful
  <2>2. Rejoined(NewJournal, T, 0)
    BY <2>1, NewIsJournal DEF Rejoined
  <2> QED
    BY <1>1, <1>3, <2>2, NewIsJournal DEF Unclosed
<1>6. ASSUME NEW n \in 1..N, n - 1 \in B PROVE n \in B
  <2>1. PICK x, y : x = f[n - 1] /\ y = f[n]
    OBVIOUS
  <2>2. Unclosed(x) /\ (~x.failed => Rejoined(x, T, n - 1))
    BY <1>6, <2>1
  <2>3. y = ReplaySession(x, T[n])
    BY <1>4, <2>1
  <2>4. Unclosed(y)
    BY <1>1, <2>2, <2>3, ReplaySessionUnclosed
  <2>5. ~y.failed => ~x.failed
    BY <1>1, <2>2, <2>3, ReplaySessionFails
  <2>6. ~y.failed => Rejoined(y, T, n)
    BY <1>0, <2>2, <2>3, <2>5, RejoinedStep DEF Unclosed
  <2> QED
    BY <2>1, <2>4, <2>6
<1>7. N \in B
  <2> HIDE DEF B
  <2> QED
    BY <1>1, <1>5, <1>6, Counting
<1>8. Unclosed(b) /\ Rejoined(b, T, N)
  BY <1>2, <1>7
<1> QED
  BY <1>0, <1>8 DEF Unclosed

\* The rebuilt journal says of its sessions what the audit's replay says.
LEMMA ReplayFaithful ==
    ASSUME NEW T, Coherent(T), Len(T) >= 1, ~_replay_journal(T).failed
    PROVE  _replay_journal(T).manifest.log = Report(T, 1, Len(T))
<1>1. PICK N, last : N = Len(T) /\ last = T[N]
  OBVIOUS
<1>2. Timed(T) /\ T \in Seq(Ended) /\ N \in Nat /\ N >= 1 /\ DOMAIN T = 1..N
  BY <1>1 DEF Coherent, Timed
<1>3. \A i \in 1..N : T[i] \in Ended /\ T[i].published \in Nat /\ T[i].published <= last.published
  <2> SUFFICES ASSUME NEW i \in 1..N
               PROVE  T[i] \in Ended /\ T[i].published \in Nat /\ T[i].published <= last.published
    OBVIOUS
  <2>1. PICK p : p = T[i]
    OBVIOUS
  <2>2. Fits(p) /\ Fits(last) /\ N \in 1..N
    BY <1>1, <1>2, <2>1 DEF Timed
  <2>3. /\ p \in Ended /\ p.published = p.disconnected /\ p.disconnected \in Nat
        /\ last.published = last.disconnected /\ last.connected \in Nat /\ last.disconnected \in Nat
        /\ last.connected <= last.disconnected
    <3>1. last \in Ended /\ covered_until(last) \in Nat /\ last.connected <= covered_until(last)
          /\ covered_until(last) <= last.disconnected
      BY <2>2 DEF Fits
    <3>2. last.connected \in Nat /\ last.disconnected \in Nat
      BY <3>1, EndedParts
    <3> QED
      BY <2>2, <3>1, <3>2, EndedParts DEF Fits
  <2>4. CASE i = N
    BY <1>1, <2>1, <2>3, <2>4
  <2>5. CASE i # N
    <3>1. i < N
      BY <1>2, <2>5
    <3>2. p.disconnected < last.connected
      BY <1>1, <1>2, <2>1, <2>2, <3>1 DEF Timed
    <3> QED
      BY <2>1, <2>3, <3>2
  <2> QED
    BY <2>4, <2>5
<1>4. PICK published : published = {T[i].published : i \in DOMAIN T}
  OBVIOUS
<1>5. PICK at : at = CHOOSE t \in published : \A u \in published : u <= t
  OBVIOUS
<1>6. at \in Int
  <2>1. last.published \in published /\ \A u \in published : u <= last.published
    BY <1>1, <1>2, <1>3, <1>4
  <2>2. at \in published
    BY <1>5, <2>1
  <2> QED
    BY <1>2, <1>3, <1>4, <2>2
<1>7. PICK r, ids, b : /\ r = Replayed(T) /\ ids = [i \in DOMAIN T |-> T[i].id]
                       /\ b = _replay_journal(T)
  OBVIOUS
<1>8. b = close(r, at, ids, "recovery")
  BY <1>4, <1>5, <1>7 DEF _replay_journal
<1>9. Unclosed(r)
  <2>1. \A n \in 1..Len(T) : Len(T[n].rows) \in Nat
    BY <1>1, <1>3, EndedParts
  <2> QED
    BY <1>1, <1>2, <1>7, <2>1, ReplayedUnclosed DEF Readable
<1>10. ~r.failed
  BY <1>6, <1>7, <1>8, <1>9, CloseFacts DEF Unclosed
<1>11. Rejoined(r, T, N)
  BY <1>1, <1>7, <1>10, ReplayedFaithful
<1>12. Faithful(r, RowsIn(T, 1, N)) /\ Between(r, T, 1, N) /\ r.manifest = None
  BY <1>9, <1>11 DEF Rejoined, Unclosed
<1>13. Clear(RowsIn(T, 1, N))
  <2>1. \A i \in 1..N : Apart(T[i])
    BY <1>1 DEF Coherent
  <2> QED
    BY <2>1, RowsApart
<1>14. b.manifest.log = ReportOf(RowsIn(T, 1, N), r)
  BY <1>6, <1>7, <1>8, <1>12, <1>13, CloseFaithful
<1>15. ReportOf(RowsIn(T, 1, N), r) = Report(T, 1, N)
  <2>1. 1 \in Nat /\ 1 <= N /\ N \in 1..N
    BY <1>2
  <2>2. covered_until(T[N]) \in Nat
    BY <1>1, <1>2, <2>1 DEF Timed, Fits
  <2> QED
    BY <1>2, <1>12, <2>1, <2>2, ReportIs
<1> QED
  BY <1>1, <1>7, <1>14, <1>15

-----------------------------------------------------------------------------
(***************************************************************************)
(* The certified sessions are sessions of the day, in its order.           *)
(***************************************************************************)
Longer(b, a, x, S) ==
    /\ b \in Seq(S) /\ Len(b) = Len(a) + 1 /\ b[Len(a) + 1] = x
    /\ \A i \in 1..Len(a) : b[i] = a[i]
    /\ Range(b) = Range(a) \cup {x}

LEMMA Appended ==
    ASSUME NEW S, NEW a \in Seq(S), NEW x \in S, NEW b, b = Append(a, x)
    PROVE  Longer(b, a, x, S)
<1>1. PICK n : n = Len(a)
  OBVIOUS
<1>2. /\ b \in Seq(S) /\ n \in Nat /\ DOMAIN a = 1..n /\ DOMAIN b = 1..(n + 1)
      /\ Len(b) = n + 1 /\ b[n + 1] = x /\ \A i \in 1..n : b[i] = a[i]
  BY <1>1
<1>3. 1..(n + 1) = (1..n) \cup {n + 1}
  BY <1>2
<1>4. {b[i] : i \in 1..n} = {a[i] : i \in 1..n}
  BY <1>2
<1>5. {b[i] : i \in 1..(n + 1)} = {b[i] : i \in 1..n} \cup {b[n + 1]}
  BY <1>3
<1>6. Range(b) = Range(a) \cup {x}
  BY <1>2, <1>4, <1>5 DEF Range
<1> QED
  BY <1>1, <1>2, <1>6 DEF Longer

\* The places e of the sessions x among the first n of a day.
Places(e, x, sessions, S, n) ==
    /\ e \in Seq(1..Len(sessions)) /\ x \in Seq(Range(sessions)) /\ Len(x) = Len(e)
    /\ \A i \in 1..Len(e) : e[i] <= n /\ x[i] = sessions[e[i]] /\ x[i] \in S
    /\ \A i, k \in 1..Len(e) : i < k => e[i] < e[k]
    /\ \A k \in 1..n : sessions[k] \in S => \E i \in 1..Len(e) : e[i] = k

LEMMA PlaceStep ==
    ASSUME NEW T, NEW sessions \in Seq(T), NEW S, NEW e, NEW x, NEW n \in 1..Len(sessions),
           Places(e, x, sessions, S, n - 1)
    PROVE  IF sessions[n] \in S THEN Places(Append(e, n), Append(x, sessions[n]), sessions, S, n)
           ELSE Places(e, x, sessions, S, n)
<1>1. PICK N, l, s : N = Len(sessions) /\ l = Len(e) /\ s = sessions[n]
  OBVIOUS
<1>2. /\ e \in Seq(1..N) /\ x \in Seq(Range(sessions)) /\ Len(x) = l /\ l \in Nat /\ N \in Nat
      /\ n \in 1..N /\ n \in Nat /\ \A i \in 1..l : e[i] \in 1..N
      /\ \A i \in 1..l : e[i] <= n - 1 /\ x[i] = sessions[e[i]] /\ x[i] \in S
      /\ \A i, k \in 1..l : i < k => e[i] < e[k]
      /\ \A k \in 1..(n - 1) : sessions[k] \in S => \E i \in 1..l : e[i] = k
  BY <1>1 DEF Places
<1>3. \A k \in 1..n : k = n \/ k \in 1..(n - 1)
  BY <1>2
<1>4. CASE s \notin S
  <2>1. \A i \in 1..l : e[i] <= n
    BY <1>2
  <2>2. \A k \in 1..n : sessions[k] \in S => \E i \in 1..l : e[i] = k
    BY <1>1, <1>2, <1>3, <1>4
  <2> QED
    BY <1>1, <1>2, <1>4, <2>1, <2>2 DEF Places
<1>5. CASE s \in S
  <2>1. PICK f, y : f = Append(e, n) /\ y = Append(x, s)
    OBVIOUS
  <2>2. s \in Range(sessions)
    BY <1>1, <1>2 DEF Range
  <2>3. /\ f \in Seq(1..N) /\ Len(f) = l + 1 /\ f[l + 1] = n /\ \A i \in 1..l : f[i] = e[i]
    <3>1. PICK D : D = 1..N
      OBVIOUS
    <3>2. e \in Seq(D) /\ n \in D /\ f = Append(e, n)
      BY <1>2, <2>1, <3>1
    <3>3. Longer(f, e, n, D)
      BY ONLY <3>2, Appended
    <3> QED
      BY <1>1, <3>1, <3>3 DEF Longer
  <2>4. /\ y \in Seq(Range(sessions)) /\ Len(y) = l + 1 /\ y[l + 1] = s /\ \A i \in 1..l : y[i] = x[i]
    BY <1>2, <2>1, <2>2
  <2>5. \A i \in 1..(l + 1) : i = l + 1 \/ i \in 1..l
    BY <1>2
  <2>6. \A i \in 1..(l + 1) : f[i] <= n /\ y[i] = sessions[f[i]] /\ y[i] \in S
    <3> SUFFICES ASSUME NEW i \in 1..(l + 1) PROVE f[i] <= n /\ y[i] = sessions[f[i]] /\ y[i] \in S
      OBVIOUS
    <3>1. CASE i = l + 1
      BY <1>1, <1>2, <1>5, <2>3, <2>4, <3>1
    <3>2. CASE i \in 1..l
      <4>1. f[i] = e[i] /\ y[i] = x[i]
        BY <2>3, <2>4, <3>2
      <4> QED
        BY <1>2, <3>2, <4>1
    <3> QED
      BY <2>5, <3>1, <3>2
  <2>7. ASSUME NEW i \in 1..(l + 1), NEW k \in 1..(l + 1), i < k PROVE f[i] < f[k]
    <3>0. i \in 1..l
      BY <1>2, <2>7
    <3>1. i \in 1..l /\ f[i] = e[i] /\ e[i] <= n - 1 /\ e[i] \in 1..N
      BY <1>2, <2>3, <3>0
    <3>2. CASE k = l + 1
      BY <1>2, <2>3, <3>1, <3>2
    <3>3. CASE k \in 1..l
      BY <1>2, <2>3, <2>7, <3>1, <3>3
    <3> QED
      BY <2>5, <3>2, <3>3
  <2>8. ASSUME NEW k \in 1..n, sessions[k] \in S PROVE \E i \in 1..(l + 1) : f[i] = k
    <3>1. CASE k = n
      <4>1. l + 1 \in 1..(l + 1)
        BY <1>2
      <4> QED
        BY <2>3, <3>1, <4>1
    <3>2. CASE k \in 1..(n - 1)
      <4>1. PICK i \in 1..l : e[i] = k
        BY <1>2, <2>8, <3>2
      <4>2. i \in 1..(l + 1) /\ f[i] = k
        BY <1>2, <2>3, <4>1
      <4> QED
        BY <4>2
    <3> QED
      BY <1>3, <3>1, <3>2
  <2>9. Places(f, y, sessions, S, n)
    BY <1>1, <2>3, <2>4, <2>6, <2>7, <2>8 DEF Places
  <2> QED
    BY <1>1, <1>5, <2>1, <2>9
<1> QED
  BY <1>4, <1>5

LEMMA AmongIs ==
    ASSUME NEW T, NEW sessions \in Seq(T), NEW S
    PROVE  \E e : Places(e, Among(sessions, S), sessions, S, Len(sessions))
<1>1. PICK L, N, b : L = OverDay(sessions, S) /\ N = Len(sessions) /\ b = <<>>
  OBVIOUS
<1>2. N \in Nat
  BY <1>1
<1>3. \A x, n : StepOf(L, x, n) = IF sessions[n] \in S THEN Append(x, sessions[n]) ELSE x
  BY <1>1 DEF StepOf, OverDay
<1>4. PICK f : f = CHOOSE g : Looping(g, L, b, N)
  OBVIOUS
<1>5. Looping(f, L, b, N)
  BY <1>2, <1>4, LoopExists
<1>6. ASSUME NEW g
      PROVE  Looping(g, L, b, N) <=>
               g = [n \in 0..Len(sessions) |->
                      IF n = 0 THEN <<>>
                      ELSE IF sessions[n] \in S THEN Append(g[n - 1], sessions[n]) ELSE g[n - 1]]
  <2>1. [n \in 0..N |-> IF n = 0 THEN b ELSE StepOf(L, g[n - 1], n)] =
        [n \in 0..Len(sessions) |->
           IF n = 0 THEN <<>>
           ELSE IF sessions[n] \in S THEN Append(g[n - 1], sessions[n]) ELSE g[n - 1]]
    BY <1>1, <1>3
  <2> QED
    BY <2>1 DEF Looping
<1>7. Among(sessions, S) = f[N]
  BY <1>1, <1>4, <1>6 DEF Among
<1>8. f[0] = <<>> /\ \A n \in 1..N : f[n] = StepOf(L, f[n - 1], n)
  BY <1>1, <1>2, <1>5, LoopAt
<1> DEFINE B == {n \in 0..N : \E e : Places(e, f[n], sessions, S, n)}
<1>9. 0 \in B
  <2>1. /\ <<>> \in Seq(1..Len(sessions)) /\ <<>> \in Seq(Range(sessions)) /\ Len(<<>>) = 0
        /\ f[0] = <<>> /\ 1..0 = {}
    BY <1>8
  <2>2. Places(<<>>, <<>>, sessions, S, 0)
    BY <2>1 DEF Places
  <2>3. Places(<<>>, f[0], sessions, S, 0)
    BY <2>1, <2>2, Zenon
  <2> QED
    BY <1>2, <2>3
<1>10. ASSUME NEW n \in 1..N, n - 1 \in B PROVE n \in B
  <2>1. PICK e : Places(e, f[n - 1], sessions, S, n - 1)
    BY <1>10
  <2>2. PICK x : x = f[n - 1]
    OBVIOUS
  <2>3. f[n] = IF sessions[n] \in S THEN Append(x, sessions[n]) ELSE x
    BY <1>3, <1>8, <2>2
  <2>4. IF sessions[n] \in S THEN Places(Append(e, n), Append(x, sessions[n]), sessions, S, n)
        ELSE Places(e, x, sessions, S, n)
    BY <1>1, <2>1, <2>2, PlaceStep
  <2>5. \E g : Places(g, f[n], sessions, S, n)
    BY ONLY <2>3, <2>4, Zenon
  <2>6. n \in 0..N
    BY <1>2
  <2> QED
    BY <2>5, <2>6
<1>11. N \in B
  <2> HIDE DEF B
  <2> QED
    BY <1>2, <1>9, <1>10, Counting
<1> QED
  BY <1>1, <1>7, <1>11

LEMMA FitsFacts ==
    ASSUME NEW s, Fits(s)
    PROVE  /\ s \in Ended /\ s.connected \in Nat /\ covered_until(s) \in Nat /\ s.disconnected \in Nat
           /\ s.connected <= covered_until(s) /\ covered_until(s) <= s.disconnected
           /\ \A r \in Range(s.rows) : r \in Rows /\ r.at \in Nat /\ s.connected <= r.at
<1>1. s \in Ended /\ covered_until(s) \in Nat /\ s.connected <= covered_until(s)
      /\ covered_until(s) <= s.disconnected /\ \A r \in Range(s.rows) : s.connected <= r.at
  BY DEF Fits
<1>2. s.connected \in Nat /\ s.disconnected \in Nat /\ Range(s.rows) \subseteq Rows
  BY <1>1, EndedParts
<1>3. \A r \in Rows : r.at \in Nat
  BY DEF Rows
<1> QED
  BY <1>1, <1>2, <1>3

LEMMA Later ==
    ASSUME NEW T, Timed(T), NEW n \in 1..Len(T), NEW k \in 1..Len(T), n < k
    PROVE  covered_until(T[n]) < T[k].connected /\ T[n].connected < T[k].connected
<1>1. PICK s, u : s = T[n] /\ u = T[k]
  OBVIOUS
<1>2. Fits(s) /\ Fits(u) /\ s.disconnected < u.connected
  BY <1>1 DEF Timed
<1>3. /\ s.connected \in Nat /\ covered_until(s) \in Nat /\ s.disconnected \in Nat /\ u.connected \in Nat
      /\ s.connected <= covered_until(s) /\ covered_until(s) <= s.disconnected
  BY <1>2, FitsFacts
<1> QED
  BY <1>1, <1>2, <1>3

LEMMA ClockTimes ==
    ASSUME NEW t \in Range(Clocks)
    PROVE  t \in Nat /\ t <= Closing /\ Opening <= t /\ Closing \in Nat /\ Opening \in Nat
<1>1. PICK i \in 1..Len(Clocks) : t = Clocks[i]
  BY JournalAssumption DEF Range
<1>2. /\ t \in Nat /\ 1 \in 1..Len(Clocks) /\ Len(Clocks) \in 1..Len(Clocks)
      /\ Clocks[1] <= t /\ t <= Clocks[Len(Clocks)]
  BY <1>1, ClocksAscend
<1>3. Clocks[1] \in Nat /\ Clocks[Len(Clocks)] \in Nat
  BY <1>2, ClocksAscend
<1> QED
  BY <1>2, <1>3, JournalAssumption

\* C are the sessions from lo to hi that connected by the close, at the places e.
Chosen(e, C, T, lo, hi) ==
    /\ \A i \in 1..Len(C) : e[i] \in lo..hi /\ C[i] = T[e[i]] /\ C[i].connected <= Closing
    /\ \A i, k \in 1..Len(C) : i < k => e[i] < e[k]
    /\ \A n \in lo..hi : T[n].connected <= Closing => \E i \in 1..Len(C) : e[i] = n

LEMMA ChosenNext ==
    ASSUME NEW T, Timed(T), NEW lo \in 1..Len(T), NEW hi \in lo..Len(T),
           NEW C, NEW e, Chosen(e, C, T, lo, hi), Len(C) \in Nat,
           NEW i \in 1..(Len(C) - 1)
    PROVE  /\ i \in 1..Len(C) /\ i + 1 \in 1..Len(C) /\ e[i + 1] = e[i] + 1
           /\ e[i] \in lo..(hi - 1) /\ C[i] = T[e[i]] /\ C[i + 1] = T[e[i] + 1]
<1>1. PICK a, z, M : a = e[i] /\ z = e[i + 1] /\ M = Len(C)
  OBVIOUS
<1>2. i \in 1..M /\ i + 1 \in 1..M /\ M \in Nat /\ i \in Nat /\ i < i + 1
  BY <1>1
<1>3. /\ a \in lo..hi /\ z \in lo..hi /\ C[i] = T[a] /\ C[i + 1] = T[z] /\ T[z].connected <= Closing
  BY <1>1, <1>2 DEF Chosen
<1>4. a < z
  BY <1>1, <1>2 DEF Chosen
<1>5. /\ a \in Nat /\ z \in Nat /\ a + 1 <= z /\ a + 1 \in lo..hi
      /\ a + 1 \in 1..Len(T) /\ z \in 1..Len(T) /\ a \in lo..(hi - 1)
  BY <1>3, <1>4
<1>6. T[a + 1].connected <= Closing
  <2>1. CASE a + 1 = z
    BY <1>3, <2>1
  <2>2. CASE a + 1 < z
    <3>1. T[a + 1].connected < T[z].connected
      BY <1>5, <2>2, Later
    <3>2. Fits(T[a + 1]) /\ Fits(T[z])
      BY <1>5 DEF Timed
    <3>3. PICK p, q : p = T[a + 1].connected /\ q = T[z].connected
      OBVIOUS
    <3>4. p \in Nat /\ q \in Nat /\ Closing \in Nat
      BY <3>2, <3>3, FitsFacts, JournalAssumption
    <3>5. p < q /\ q <= Closing
      BY <1>3, <3>1, <3>3
    <3>6. p <= Closing
      BY ONLY <3>4, <3>5
    <3> QED
      BY <3>3, <3>6
  <2> QED
    BY <1>5, <2>1, <2>2
<1>7. PICK x \in 1..M : e[x] = a + 1
  BY <1>1, <1>5, <1>6 DEF Chosen
<1>8. x = i + 1
  <2>1. CASE x < i + 1
    <3>1. x = i \/ x < i
      BY <1>2, <1>7, <2>1
    <3>2. x < i => e[x] < a
      BY <1>1, <1>2, <1>7 DEF Chosen
    <3>3. x = i => e[x] = a
      BY <1>1
    <3> QED
      BY <1>5, <1>7, <3>1, <3>2, <3>3
  <2>2. CASE i + 1 < x
    <3>1. z < e[x]
      BY <1>1, <1>2, <1>7, <2>2 DEF Chosen
    <3> QED
      BY <1>5, <1>7, <3>1
  <2> QED
    BY <1>2, <1>7, <2>1, <2>2
<1>9. z = a + 1
  BY <1>1, <1>7, <1>8
<1> QED
  BY <1>1, <1>2, <1>3, <1>5, <1>9

\* No clock reaches the end of the last of them, or of a session after it.
LEMMA ChosenEnd ==
    ASSUME NEW T, Timed(T), NEW lo \in 1..Len(T), NEW hi \in lo..Len(T),
           NEW C, NEW e, Chosen(e, C, T, lo, hi), Len(C) \in Nat, Len(C) >= 1,
           covered_until(C[Len(C)]) >= Closing, \A n \in lo..hi : Apart(T[n]),
           NEW n \in lo..hi, e[Len(C)] <= n, NEW t \in Range(Clocks)
    PROVE  t < covered_until(T[n])
<1>1. PICK z, c, d : z = e[Len(C)] /\ c = covered_until(T[z]) /\ d = covered_until(T[n])
  OBVIOUS
<1>2. Len(C) \in 1..Len(C)
  OBVIOUS
<1>3. z \in lo..hi /\ C[Len(C)] = T[z]
  BY <1>1, <1>2 DEF Chosen
<1>4. z \in 1..Len(T) /\ n \in 1..Len(T) /\ z \in Nat /\ n \in Nat /\ z <= n
  BY <1>1, <1>3
<1>5. c >= Closing /\ c \in Nat /\ d \in Nat
  <2>1. c >= Closing
    BY <1>1, <1>3
  <2>2. Fits(T[z]) /\ Fits(T[n])
    BY <1>4 DEF Timed
  <2> QED
    BY <1>1, <2>1, <2>2 DEF Fits
<1>6. t \in Nat /\ t <= Closing /\ Closing \in Nat
  BY ClockTimes
<1>7. t # c
  BY <1>1, <1>3 DEF Apart
<1>8. CASE z = n
  BY <1>1, <1>5, <1>6, <1>7, <1>8
<1>9. CASE z < n
  <2>1. c < T[n].connected
    BY <1>1, <1>4, <1>9, Later
  <2>2. Fits(T[n])
    BY <1>4 DEF Timed
  <2>3. PICK p : p = T[n].connected
    OBVIOUS
  <2>4. p \in Nat /\ p <= d
    BY <1>1, <2>2, <2>3, FitsFacts
  <2>5. t < d
    BY <1>5, <1>6, <2>1, <2>3, <2>4
  <2> QED
    BY <1>1, <2>5
<1> QED
  BY <1>4, <1>8, <1>9

\* What the capture's replay marks is what the journal of its sessions marks.
LEMMA GapsAgree ==
    ASSUME NEW T, Timed(T), NEW lo \in 1..Len(T), NEW hi \in lo..Len(T),
           NEW C, NEW e, Chosen(e, C, T, lo, hi), Len(C) \in Nat, Len(C) >= 1,
           covered_until(C[Len(C)]) >= Closing, \A n \in lo..hi : Apart(T[n]),
           NEW t \in Range(Clocks)
    PROVE  (\/ T[hi].kind \notin CLEAN /\ t >= covered_until(T[hi])
            \/ \E g \in Spans(T, lo, hi) : g.start <= t /\ t < g.end + Warmup)
           <=> \E g \in CaptureGaps(C) : g.start <= t /\ t < g.end + Warmup
<1>1. PICK M : M = Len(C)
  OBVIOUS
<1>2. M \in Nat /\ M \in 1..M /\ lo \in Nat /\ hi \in Nat /\ hi \in lo..hi /\ hi \in 1..Len(T)
  BY <1>1
<1>3. \A n \in lo..hi : n \in 1..Len(T) /\ covered_until(T[n]) \in Nat
  <2>1. \A n \in lo..hi : n \in 1..Len(T)
    OBVIOUS
  <2> QED
    BY <2>1 DEF Timed, Fits
<1>4. t \in Nat /\ t <= Closing /\ Closing \in Nat
  BY ClockTimes
<1>5. ~(t >= covered_until(T[hi]))
  <2>1. e[M] \in lo..hi
    BY <1>1, <1>2 DEF Chosen
  <2>2. e[M] <= hi
    BY <2>1
  <2>3. t < covered_until(T[hi])
    BY <1>1, <1>2, <2>2, ChosenEnd
  <2>4. PICK c : c = covered_until(T[hi])
    OBVIOUS
  <2>5. c \in Nat /\ t < c
    BY <1>2, <1>3, <2>3, <2>4
  <2> QED
    BY <1>4, <2>4, <2>5
<1>6. ASSUME NEW g \in CaptureGaps(C) PROVE g \in Spans(T, lo, hi)
  <2>1. PICK i \in 1..(Len(C) - 1) : g = [start |-> covered_until(C[i]), end |-> C[i + 1].connected]
    BY <1>6 DEF CaptureGaps
  <2>2. e[i] \in lo..(hi - 1) /\ C[i] = T[e[i]] /\ C[i + 1] = T[e[i] + 1]
    BY ChosenNext
  <2> QED
    BY <2>1, <2>2 DEF Spans
<1>7. ASSUME NEW g \in Spans(T, lo, hi), g.start <= t PROVE g \in CaptureGaps(C)
  <2>1. PICK k \in lo..(hi - 1) : g = [start |-> covered_until(T[k]), end |-> T[k + 1].connected]
    BY <1>7 DEF Spans
  <2>2. k \in lo..hi /\ k \in 1..Len(T) /\ k + 1 \in 1..Len(T) /\ k < k + 1
    BY <1>2
  <2>3. PICK c, p : c = covered_until(T[k]) /\ p = T[k].connected
    OBVIOUS
  <2>4. c \in Nat /\ p \in Nat /\ p <= c
    <3>1. Fits(T[k])
      BY <2>2 DEF Timed
    <3> QED
      BY <2>3, <3>1, FitsFacts
  <2>5. c <= t
    BY <1>7, <2>1, <2>3
  <2>6. p <= Closing
    BY <1>4, <2>4, <2>5
  <2>7. PICK x \in 1..M : e[x] = k
    BY <1>1, <2>2, <2>3, <2>6 DEF Chosen
  <2>8. x # M
    <3> SUFFICES ASSUME x = M PROVE FALSE
      OBVIOUS
    <3>1. e[M] <= k
      BY <2>2, <2>7
    <3>2. t < covered_until(T[k])
      BY <1>1, <2>2, <3>1, ChosenEnd
    <3>3. t < c
      BY <2>3, <3>2
    <3> QED
      BY <1>4, <2>4, <2>5, <3>3
  <2>9. x \in 1..(Len(C) - 1)
    BY <1>1, <1>2, <2>7, <2>8
  <2>10. C[x] = T[k] /\ C[x + 1] = T[k + 1]
    <3>1. C[x] = T[e[x]] /\ C[x + 1] = T[e[x] + 1]
      BY <2>9, ChosenNext
    <3> QED
      BY <2>7, <3>1
  <2>11. covered_until(T[k]) < T[k + 1].connected
    BY <2>2, Later
  <2>12. x \in {i \in 1..(Len(C) - 1) : covered_until(C[i]) < C[i + 1].connected}
    BY <2>9, <2>10, <2>11
  <2>13. g = [start |-> covered_until(C[x]), end |-> C[x + 1].connected]
    BY <2>1, <2>10
  <2> QED
    BY <2>12, <2>13 DEF CaptureGaps
<1> QED
  BY <1>5, <1>6, <1>7

LEMMA RowsAgree ==
    ASSUME NEW T, Timed(T), NEW lo \in 1..Len(T), NEW hi \in lo..Len(T),
           NEW C, NEW e, Chosen(e, C, T, lo, hi), DOMAIN C = 1..Len(C),
           NEW t \in Range(Clocks)
    PROVE  {r \in RowsIn(T, lo, hi) : r.at <= t} = {r \in CaptureRows(C) : r.at <= t}
<1>1. ASSUME NEW r \in CaptureRows(C) PROVE r \in RowsIn(T, lo, hi)
  <2>1. PICK i \in 1..Len(C) : r \in Range(C[i].rows)
    BY <1>1 DEF CaptureRows
  <2>2. e[i] \in lo..hi /\ C[i] = T[e[i]]
    BY DEF Chosen
  <2> QED
    BY <2>1, <2>2 DEF RowsIn
<1>2. ASSUME NEW r \in RowsIn(T, lo, hi), r.at <= t PROVE r \in CaptureRows(C)
  <2>1. PICK n \in lo..hi : r \in Range(T[n].rows)
    BY <1>2 DEF RowsIn
  <2>2. n \in 1..Len(T)
    OBVIOUS
  <2>3. Fits(T[n])
    BY <2>2 DEF Timed
  <2>4. PICK p : p = T[n].connected
    OBVIOUS
  <2>5. p \in Nat /\ r.at \in Nat /\ p <= r.at
    BY <2>1, <2>3, <2>4, FitsFacts
  <2>6. t \in Nat /\ t <= Closing /\ Closing \in Nat
    BY ClockTimes
  <2>7. p <= Closing
    BY <1>2, <2>5, <2>6
  <2>8. PICK i \in 1..Len(C) : e[i] = n
    BY <2>4, <2>7 DEF Chosen
  <2>9. C[i] = T[n]
    BY <2>8 DEF Chosen
  <2> QED
    BY <2>1, <2>9 DEF CaptureRows
<1> QED
  BY <1>1, <1>2

\* The journal of a run of sessions is the audit's replay of those certified.
LEMMA AuditIs ==
    ASSUME NEW T, Timed(T), NEW lo \in 1..Len(T), NEW hi \in lo..Len(T),
           NEW C, NEW e, Chosen(e, C, T, lo, hi), DOMAIN C = 1..Len(C), Len(C) \in Nat, Len(C) >= 1,
           covered_until(C[Len(C)]) >= Closing, \A n \in lo..hi : Apart(T[n])
    PROVE  Report(T, lo, hi) = AuditLog(C)
<1>1. ASSUME NEW t \in Range(Clocks)
      PROVE  [at |-> t, rows |-> {r \in RowsIn(T, lo, hi) : r.at <= t},
              gap |-> \/ T[hi].kind \notin CLEAN /\ t >= covered_until(T[hi])
                      \/ \E g \in Spans(T, lo, hi) : g.start <= t /\ t < g.end + Warmup]
             = [at |-> t, rows |-> {r \in CaptureRows(C) : r.at <= t},
                gap |-> \E g \in CaptureGaps(C) : g.start <= t /\ t < g.end + Warmup]
  <2>1. {r \in RowsIn(T, lo, hi) : r.at <= t} = {r \in CaptureRows(C) : r.at <= t}
    BY RowsAgree
  <2>2. (\/ T[hi].kind \notin CLEAN /\ t >= covered_until(T[hi])
         \/ \E g \in Spans(T, lo, hi) : g.start <= t /\ t < g.end + Warmup)
        = \E g \in CaptureGaps(C) : g.start <= t /\ t < g.end + Warmup
    BY GapsAgree
  <2> QED
    BY ONLY <2>1, <2>2, Zenon
<1> QED
  BY <1>1, Zenon DEF Report, AuditLog

\* C are sessions of T, at the places e, that together reach the close.
Certificate(C, T, e) ==
    /\ C \in Seq(Ended) /\ Len(C) >= 1
    /\ \A i \in 1..Len(C) : /\ e[i] \in 1..Len(T) /\ C[i] = T[e[i]] /\ C[i].connected <= Closing
                            /\ \A r \in Range(C[i].rows) : r.at <= covered_until(C[i])
    /\ \A i, k \in 1..Len(C) : i < k => e[i] < e[k]
    /\ \E i \in 1..Len(C) : covered_until(C[i]) >= Closing

LEMMA CertifiedFacts ==
    ASSUME NEW T, Timed(T), NEW C, C = Certified(T), C # <<>>
    PROVE  \E e : Certificate(C, T, e)
<1>1. PICK P, F, R : /\ P = {s \in Range(T) : s.hb # None}
                     /\ F = {s \in P : s.connected <= Opening /\ covered_until(s) >= Closing}
                     /\ R = {s \in P : s.connected <= Closing /\ covered_until(s) >= Opening}
  OBVIOUS
<1>2. PICK full, relevant : full = Among(T, F) /\ relevant = Among(T, R)
  OBVIOUS
<1>3. PICK chosen : chosen = IF full # <<>> THEN full ELSE relevant
  OBVIOUS
<1>4. C = IF \/ Len(full) > 1 \/ relevant = <<>>
             \/ relevant[1].connected > Opening
             \/ \A i \in DOMAIN relevant : covered_until(relevant[i]) < Closing
             \/ \E i \in DOMAIN chosen : \E r \in Range(chosen[i].rows) :
                   r.at > covered_until(chosen[i])
          THEN <<>> ELSE chosen
  BY <1>1, <1>2, <1>3 DEF Certified
<1>5. /\ C = chosen
      /\ \E i \in DOMAIN relevant : ~(covered_until(relevant[i]) < Closing)
      /\ \A i \in DOMAIN chosen : \A r \in Range(chosen[i].rows) : ~(r.at > covered_until(chosen[i]))
  BY <1>4
<1>6. T \in Seq(Ended) /\ Len(T) \in Nat /\ Range(T) \subseteq Ended /\ \A s \in Range(T) : Fits(s)
  <2>1. T \in Seq(Ended)
    BY DEF Timed
  <2>2. DOMAIN T = 1..Len(T) /\ Range(T) \subseteq Ended /\ Len(T) \in Nat
    BY <2>1 DEF Range
  <2> QED
    BY <2>1, <2>2 DEF Timed, Range
<1>7. Opening \in Nat /\ Closing \in Nat /\ Opening <= Closing
  <2>1. 1 \in 1..Len(Clocks)
    BY ClocksAscend
  <2>2. Clocks[1] \in Range(Clocks)
    BY <2>1, ClocksAscend
  <2> QED
    BY <2>2, ClockTimes
<1>8. PICK S : S = IF full # <<>> THEN F ELSE R
  OBVIOUS
<1>9. C = Among(T, S)
  BY <1>2, <1>3, <1>5, <1>8
<1>10. PICK e : Places(e, C, T, S, Len(T))
  BY <1>6, <1>9, AmongIs
<1>11. PICK M : M = Len(C)
  OBVIOUS
<1>12. C \in Seq(Ended) /\ M \in Nat /\ DOMAIN C = 1..M /\ M >= 1 /\ Len(e) = M
  <2>1. C \in Seq(Ended)
    BY <1>6, <1>9, AmongType
  <2>2. M \in Nat /\ DOMAIN C = 1..M
    BY <1>11, <2>1
  <2>3. M # 0
    BY <1>11, <2>1
  <2>4. Len(e) = M
    BY <1>10, <1>11 DEF Places
  <2> QED
    BY <2>1, <2>2, <2>3, <2>4
<1>13. \A i \in 1..M : e[i] \in 1..Len(T) /\ C[i] = T[e[i]] /\ C[i] \in S
  <2>1. e \in Seq(1..Len(T))
    BY <1>10 DEF Places
  <2>2. PICK D : D = 1..Len(T)
    OBVIOUS
  <2>3. \A i \in 1..Len(e) : e[i] \in D
    BY <2>1, <2>2
  <2> QED
    BY <1>10, <1>12, <2>2, <2>3 DEF Places
<1>14. \A i, k \in 1..M : i < k => e[i] < e[k]
  BY <1>10, <1>12 DEF Places
<1>15. ASSUME NEW i \in 1..M
       PROVE  C[i].connected <= Closing /\ \A r \in Range(C[i].rows) : r.at <= covered_until(C[i])
  <2>1. PICK s : s = C[i]
    OBVIOUS
  <2>2. s \in P /\ s \in Range(T)
    BY <1>1, <1>8, <1>13, <2>1
  <2>3. s.connected \in Nat /\ covered_until(s) \in Nat /\ \A r \in Range(s.rows) : r.at \in Nat
    BY <1>6, <2>2, FitsFacts
  <2>4. s.connected <= Closing
    <3>1. s \in F \/ s \in R
      BY <1>8, <1>13, <2>1
    <3>2. s.connected <= Opening \/ s.connected <= Closing
      BY <1>1, <3>1, Zenon
    <3> QED
      BY <1>7, <2>3, <3>2
  <2>5. \A r \in Range(s.rows) : ~(r.at > covered_until(s))
    BY <1>5, <1>12, <2>1
  <2> QED
    BY <2>1, <2>3, <2>4, <2>5
<1>16. \E i \in 1..M : covered_until(C[i]) >= Closing
  <2>1. \A s \in Range(T) : covered_until(s) \in Nat
    BY <1>6, FitsFacts
  <2>2. CASE full # <<>>
    <3>1. 1 \in 1..M
      BY <1>12
    <3>2. C[1] \in F
      BY <1>8, <1>13, <2>2, <3>1
    <3> QED
      BY <1>1, <3>1, <3>2
  <2>3. CASE full = <<>>
    <3>1. C = relevant
      BY <1>3, <1>5, <2>3
    <3>2. PICK i \in 1..M : ~(covered_until(C[i]) < Closing)
      BY <1>5, <1>12, <3>1
    <3>3. C[i] \in Range(T)
      BY <1>1, <1>8, <1>13, <3>2
    <3>4. PICK c : c = covered_until(C[i])
      OBVIOUS
    <3>5. c \in Nat /\ ~(c < Closing)
      BY <2>1, <3>2, <3>3, <3>4
    <3>6. c >= Closing
      BY <1>7, <3>5
    <3> QED
      BY <3>4, <3>6
  <2> QED
    BY <2>2, <2>3
<1> QED
  BY <1>11, <1>12, <1>13, <1>14, <1>15, <1>16 DEF Certificate

LEMMA CertificateTimed ==
    ASSUME NEW T, Timed(T), NEW C, NEW e, Certificate(C, T, e)
    PROVE  /\ Timed(C) /\ Len(C) \in Nat /\ DOMAIN C = 1..Len(C) /\ Len(C) \in 1..Len(C)
           /\ covered_until(C[Len(C)]) >= Closing
<1>1. PICK M : M = Len(C)
  OBVIOUS
<1>2. /\ C \in Seq(Ended) /\ M \in Nat /\ DOMAIN C = 1..M /\ M >= 1 /\ M \in 1..M
  BY <1>1 DEF Certificate
<1>3. \A i \in 1..M : e[i] \in 1..Len(T) /\ C[i] = T[e[i]] /\ C[i].connected <= Closing /\ Fits(C[i])
  BY <1>1 DEF Certificate, Timed
<1>4. ASSUME NEW i \in 1..M, NEW k \in 1..M, i < k
      PROVE  C[i].disconnected < C[k].connected
  <2>1. e[i] < e[k]
    BY <1>1, <1>4 DEF Certificate
  <2> QED
    BY <1>3, <2>1 DEF Timed
<1>5. Timed(C)
  BY <1>1, <1>2, <1>3, <1>4 DEF Timed
<1>6. PICK i \in 1..M : covered_until(C[i]) >= Closing
  BY <1>1 DEF Certificate
<1>7. i = M
  <2> SUFFICES ASSUME i < M PROVE FALSE
    BY <1>2
  <2>1. covered_until(C[i]) < C[M].connected
    BY <1>1, <1>2, <1>5, Later
  <2>2. PICK c, p : c = covered_until(C[i]) /\ p = C[M].connected
    OBVIOUS
  <2>3. c \in Nat /\ p \in Nat /\ p <= Closing /\ c >= Closing /\ c < p /\ Closing \in Nat
    BY <1>2, <1>3, <1>6, <2>1, <2>2, FitsFacts, JournalAssumption
  <2> QED
    BY ONLY <2>3
<1> QED
  BY <1>1, <1>2, <1>5, <1>6, <1>7

\* The rebuilt journal is the audit's replay, unless a clean stop leaves a gap inside the day.
LEMMA RebuiltIsReplay ==
    ASSUME NEW T, Timed(T), \A i \in 1..Len(T) : Apart(T[i]),
           \A i \in 1..Len(T) : ~(T[i].kind \in CLEAN /\ T[i].disconnected < Closing),
           NEW C, NEW e, Certificate(C, T, e), ~_replay_journal(C).failed
    PROVE  _replay_journal(C).manifest.log = AuditLog(C)
<1>1. PICK M : M = Len(C)
  OBVIOUS
<1>2. Timed(C) /\ M \in Nat /\ DOMAIN C = 1..M /\ M \in 1..M /\ covered_until(C[M]) >= Closing
  BY <1>1, CertificateTimed
<1>3. \A i \in 1..M : e[i] \in 1..Len(T) /\ C[i] = T[e[i]] /\ C[i].connected <= Closing
                      /\ \A r \in Range(C[i].rows) : r.at <= covered_until(C[i])
  BY <1>1 DEF Certificate
<1>4. \A i \in 1..M : Apart(C[i])
  BY <1>3
<1>5. ASSUME NEW i \in 1..(M - 1) PROVE C[i].kind \notin CLEAN
  <2> SUFFICES ASSUME C[i].kind \in CLEAN PROVE FALSE
    OBVIOUS
  <2>1. i \in 1..M /\ i + 1 \in 1..M /\ i < i + 1
    BY <1>2
  <2>2. ~(C[i].disconnected < Closing)
    BY <1>3, <2>1
  <2>3. C[i].disconnected < C[i + 1].connected /\ C[i + 1].connected <= Closing
    BY <1>1, <1>2, <1>3, <2>1 DEF Timed
  <2>4. Fits(C[i]) /\ Fits(C[i + 1])
    BY <1>1, <1>2, <2>1 DEF Timed
  <2>5. PICK d, p : d = C[i].disconnected /\ p = C[i + 1].connected
    OBVIOUS
  <2>6. d \in Nat /\ p \in Nat /\ Closing \in Nat
    BY <2>4, <2>5, FitsFacts, JournalAssumption
  <2>7. ~(d < Closing) /\ d < p /\ p <= Closing
    BY <2>2, <2>3, <2>5
  <2> QED
    BY ONLY <2>6, <2>7
<1>6. Coherent(C)
  BY <1>1, <1>2, <1>3, <1>4, <1>5 DEF Coherent
<1>7. _replay_journal(C).manifest.log = Report(C, 1, M)
  BY <1>1, <1>2, <1>6, ReplayFaithful
<1>8. PICK f : f = [i \in 1..M |-> i]
  OBVIOUS
<1>9. Chosen(f, C, C, 1, M)
  <2>1. \A i \in 1..M : f[i] = i
    BY <1>8
  <2> QED
    BY <1>1, <1>3, <2>1 DEF Chosen
<1>10. Report(C, 1, M) = AuditLog(C)
  <2>1. 1 \in 1..Len(C) /\ M \in 1..Len(C) /\ Len(C) \in Nat /\ Len(C) >= 1 /\ DOMAIN C = 1..Len(C)
    BY <1>1, <1>2
  <2>2. \A n \in 1..M : Apart(C[n])
    BY <1>4
  <2>3. covered_until(C[Len(C)]) >= Closing
    BY <1>1, <1>2
  <2> QED
    BY <1>2, <1>9, <2>1, <2>2, <2>3, AuditIs
<1> QED
  BY <1>7, <1>10

\* The lineage the audit accepts: the sessions from lo to hi, in the day D.
Accepted(T, lo, hi, C, S, D) ==
    /\ \A s : s \in S <=> s \in Range(T) /\ \E i \in lo..hi : s.id = T[i].id
    /\ D = Among(T, S) /\ Range(C) \subseteq Range(D)
    /\ \A s \in Range(D) \ Range(C) : s.connected > Closing

\* So is a live journal whose lineage the audit accepts: it may go on after the close.
LEMMA LiveIsReplay ==
    ASSUME NEW T, Timed(T), \A i \in 1..Len(T) : Apart(T[i]) /\ T[i].id[2] = i,
           NEW lo \in 1..Len(T), NEW hi \in lo..Len(T), NEW S, NEW D,
           NEW C, NEW e, Certificate(C, T, e), Accepted(T, lo, hi, C, S, D)
    PROVE  Report(T, lo, hi) = AuditLog(C)
<1>0. /\ \A s : s \in S <=> s \in Range(T) /\ \E i \in lo..hi : s.id = T[i].id
      /\ D = Among(T, S) /\ Range(C) \subseteq Range(D)
      /\ \A s \in Range(D) \ Range(C) : s.connected > Closing
  BY DEF Accepted
<1>1. PICK M : M = Len(C)
  OBVIOUS
<1>2. T \in Seq(Ended) /\ Len(T) \in Nat /\ DOMAIN T = 1..Len(T)
  BY DEF Timed
<1>3. Timed(C) /\ M \in Nat /\ DOMAIN C = 1..M /\ M \in 1..M /\ covered_until(C[M]) >= Closing
  BY <1>1, CertificateTimed
<1>4. PICK p : Places(p, D, T, S, Len(T))
  BY <1>0, <1>2, AmongIs
<1>5. D \in Seq(Ended) /\ Len(D) \in Nat /\ DOMAIN D = 1..Len(D) /\ Len(p) = Len(D)
  <2>1. D \in Seq(Ended)
    BY <1>0, <1>2, AmongType
  <2> QED
    BY <1>4, <2>1 DEF Places
<1>6. \A n \in 1..Len(T) : T[n] \in S => n \in lo..hi
  <2> SUFFICES ASSUME NEW n \in 1..Len(T), T[n] \in S PROVE n \in lo..hi
    OBVIOUS
  <2>1. PICK k \in lo..hi : T[n].id = T[k].id
    BY <1>0
  <2>2. k \in 1..Len(T)
    BY <1>2
  <2>3. n = k
    BY <2>1, <2>2
  <2> QED
    BY <2>3
<1>7. \A s \in Range(D) : s \in S
  <2> SUFFICES ASSUME NEW s \in Range(D) PROVE s \in S
    OBVIOUS
  <2>1. PICK i \in 1..Len(D) : s = D[i]
    BY <1>5 DEF Range
  <2>2. D[i] \in S
    BY <1>4, <1>5, <2>1 DEF Places
  <2> QED
    BY <2>1, <2>2
<1>8. \A n \in lo..hi : T[n] \in Range(D)
  <2> SUFFICES ASSUME NEW n \in lo..hi PROVE T[n] \in Range(D)
    OBVIOUS
  <2>1. n \in 1..Len(T) /\ T[n] \in Range(T)
    BY <1>2 DEF Range
  <2>2. T[n] \in S
    BY <1>0, <2>1
  <2>3. PICK i \in 1..Len(D) : p[i] = n
    BY <1>4, <1>5, <2>1, <2>2 DEF Places
  <2>4. D[i] = T[n]
    BY <1>4, <1>5, <2>3 DEF Places
  <2> QED
    BY <1>5, <2>3, <2>4 DEF Range
<1>9. \A i \in 1..M : /\ e[i] \in 1..Len(T) /\ C[i] = T[e[i]] /\ C[i].connected <= Closing
  BY <1>1 DEF Certificate
<1>10. \A i, k \in 1..M : i < k => e[i] < e[k]
  BY <1>1 DEF Certificate
<1>11. \A i \in 1..M : e[i] \in lo..hi
  <2> SUFFICES ASSUME NEW i \in 1..M PROVE e[i] \in lo..hi
    OBVIOUS
  <2>1. C[i] \in Range(C)
    BY <1>3 DEF Range
  <2>2. C[i] \in S
    BY <1>0, <1>7, <2>1
  <2>3. T[e[i]] \in S
    BY <1>9, <2>2
  <2> QED
    BY <1>6, <1>9, <2>3
<1>12. ASSUME NEW n \in lo..hi, T[n].connected <= Closing PROVE \E i \in 1..M : e[i] = n
  <2>1. n \in 1..Len(T)
    BY <1>2
  <2>2. Fits(T[n])
    BY <2>1 DEF Timed
  <2>3. PICK c : c = T[n].connected
    OBVIOUS
  <2>4. c \in Nat /\ Closing \in Nat /\ c <= Closing
    BY <1>12, <2>2, <2>3, FitsFacts, JournalAssumption
  <2>5. ~(c > Closing)
    BY <2>4
  <2>6. T[n] \in Range(C)
    BY <1>0, <1>8, <2>3, <2>5
  <2>7. PICK i \in 1..M : C[i] = T[n]
    BY <1>3, <2>6 DEF Range
  <2>8. e[i] \in 1..Len(T) /\ T[e[i]] = T[n]
    BY <1>9, <2>7
  <2>9. e[i] = n
    BY <2>1, <2>8
  <2> QED
    BY <2>9
<1>13. Chosen(e, C, T, lo, hi)
  BY <1>1, <1>9, <1>10, <1>11, <1>12 DEF Chosen
<1>14. \A n \in lo..hi : Apart(T[n])
  <2>1. \A n \in lo..hi : n \in 1..Len(T)
    BY <1>2
  <2> QED
    BY <2>1
<1>15. Len(C) \in Nat /\ Len(C) >= 1 /\ DOMAIN C = 1..Len(C) /\ covered_until(C[Len(C)]) >= Closing
  BY <1>1, <1>3
<1> QED
  BY <1>13, <1>14, <1>15, AuditIs

-----------------------------------------------------------------------------
(***************************************************************************)
(* When things happen: messages are received in order while their session  *)
(* is connected, and sessions follow each other.                           *)
(***************************************************************************)
\* The session c, with the rows q it has queued and a message stamped at l.
Open(c, q, l, time) ==
    /\ Sorted(c.rows \o q)
    /\ \A r \in Range(c.rows \o q) : c.connected <= r.at /\ r.at <= (IF l = None THEN time ELSE l)
    /\ l # None => c.connected <= l /\ l <= time
    /\ c.hb # None => c.connected <= c.hb

Past == /\ Timed(day)
        /\ \A i \in 1..Len(day) : day[i].disconnected <= now /\ day[i].id[2] = i

Present == IF cur = None THEN queue = <<>>
           ELSE /\ Open(cur, queue, late, now)
                /\ \A i \in 1..Len(day) : day[i].disconnected < cur.connected

TimeInv == Past /\ Present

LEMMA TimeInit == Init => TimeInv
<1> SUFFICES ASSUME Init PROVE TimeInv
  OBVIOUS
<1>1. day = <<>> /\ cur = None /\ queue = <<>>
  BY DEF Init
<1>2. <<>> \in Seq(Ended) /\ Len(<<>>) = 0 /\ 1..0 = {}
  OBVIOUS
<1>3. Timed(day) /\ 1..Len(day) = {}
  BY <1>1, <1>2 DEF Timed
<1> QED
  BY <1>1, <1>3 DEF TimeInv, Past, Present

LEMMA DayParts ==
    ASSUME SessionInv
    PROVE  /\ day \in Seq(Ended) /\ Len(day) \in Nat /\ DOMAIN day = 1..Len(day)
           /\ \A i \in 1..Len(day) : /\ day[i] \in Ended /\ day[i] \in Range(day)
                                     /\ day[i].disconnected \in Nat /\ day[i].connected \in Nat
<1>1. day \in Seq(Ended)
  BY DEF SessionInv, Types
<1>2. Len(day) \in Nat /\ DOMAIN day = 1..Len(day) /\ \A i \in 1..Len(day) : day[i] \in Ended
  BY <1>1
<1> QED
  BY <1>1, <1>2, EndedParts DEF Range

Concat(z, p, q, S) ==
    /\ z \in Seq(S) /\ Range(z) = Range(p) \cup Range(q)
    /\ Sorted(z) => Sorted(p) /\ Sorted(q)

LEMMA ConcatParts ==
    ASSUME NEW S, NEW p \in Seq(S), NEW q \in Seq(S), NEW z, z = p \o q PROVE Concat(z, p, q, S)
<1>1. PICK m, n : m = Len(p) /\ n = Len(q)
  OBVIOUS
<1>2. /\ z \in Seq(S) /\ m \in Nat /\ n \in Nat /\ Len(z) = m + n
      /\ DOMAIN p = 1..m /\ DOMAIN q = 1..n /\ DOMAIN z = 1..(m + n)
      /\ \A i \in 1..m : z[i] = p[i]
      /\ \A i \in 1..n : z[i + m] = q[i]
  BY <1>1
<1>3. /\ \A i \in 1..m : i \in 1..(m + n)
      /\ \A i \in 1..n : i + m \in 1..(m + n)
      /\ \A i \in 1..(m + n) : i \in 1..m \/ (i - m \in 1..n /\ (i - m) + m = i)
  BY <1>2
<1>4. Range(z) \subseteq Range(p) \cup Range(q)
  <2> SUFFICES ASSUME NEW i \in 1..(m + n) PROVE z[i] \in Range(p) \cup Range(q)
    BY <1>2 DEF Range
  <2>1. CASE i \in 1..m
    BY <1>2, <2>1 DEF Range
  <2>2. CASE i - m \in 1..n /\ (i - m) + m = i
    <3>1. PICK k \in 1..n : k = i - m /\ k + m = i
      BY <2>2
    <3>2. z[i] = q[k]
      BY <1>2, <3>1
    <3> QED
      BY <1>2, <3>2 DEF Range
  <2> QED
    BY <1>3, <2>1, <2>2
<1>5. Range(p) \subseteq Range(z) /\ Range(q) \subseteq Range(z)
  <2>1. \A i \in 1..m : p[i] \in Range(z)
    BY <1>2, <1>3 DEF Range
  <2>2. \A i \in 1..n : q[i] \in Range(z)
    BY <1>2, <1>3 DEF Range
  <2> QED
    BY <1>2, <2>1, <2>2 DEF Range
<1>6. ASSUME Sorted(z) PROVE Sorted(p) /\ Sorted(q)
  <2>1. ASSUME NEW i \in 1..m, NEW k \in 1..m, i < k PROVE p[i].at <= p[k].at
    BY <1>2, <1>3, <1>6, <2>1 DEF Sorted
  <2>2. ASSUME NEW i \in 1..n, NEW k \in 1..n, i < k PROVE q[i].at <= q[k].at
    <3>1. PICK x, y : x = i + m /\ y = k + m
      OBVIOUS
    <3>2. x \in 1..(m + n) /\ y \in 1..(m + n) /\ x < y
      BY <1>2, <1>3, <2>2, <3>1
    <3>3. z[x].at <= z[y].at
      BY <1>2, <1>6, <3>2 DEF Sorted
    <3> QED
      BY <1>2, <3>1, <3>3
  <2> QED
    BY <1>1, <2>1, <2>2 DEF Sorted
<1> QED
  BY <1>2, <1>4, <1>5, <1>6 DEF Concat

LEMMA CurParts ==
    ASSUME SessionInv, cur # None
    PROVE  /\ cur \in Segments /\ proc = "run" /\ cur.connected \in Nat /\ cur.connected <= now
           /\ cur.hb \in Nat \cup {None} /\ (cur.hb # None => cur.hb <= now)
           /\ cur.rows \in Seq(Rows) /\ queue \in Seq(Rows) /\ cur.rows \o queue \in Seq(Rows)
           /\ Range(cur.rows \o queue) = Range(cur.rows) \cup Range(queue)
           /\ \A r \in Range(cur.rows \o queue) : r \in Rows /\ r.at \in Nat
           /\ late \in Nat \cup {None} /\ now \in Nat /\ cur.id \in Nat \X Nat
<1>1. /\ cur \in Segments /\ proc = "run" /\ cur.connected <= now /\ (cur.hb # None => cur.hb <= now)
      /\ queue \in Seq(Rows) /\ late \in Nat \cup {None} /\ now \in Nat
  BY DEF SessionInv, Types
<1>2. cur.connected \in Nat /\ cur.hb \in Nat \cup {None} /\ cur.rows \in Seq(Rows) /\ cur.id \in Nat \X Nat
  BY <1>1 DEF Segments
<1>3. PICK a, b, c : a = cur.rows /\ b = queue /\ c = a \o b
  OBVIOUS
<1>4. a \in Seq(Rows) /\ b \in Seq(Rows) /\ c \in Seq(Rows)
  BY <1>1, <1>2, <1>3
<1>5. Range(c) = Range(a) \cup Range(b)
  <2>1. PICK D : D = Rows
    OBVIOUS
  <2>2. c = a \o b /\ a \in Seq(D) /\ b \in Seq(D)
    BY <1>3, <1>4, <2>1
  <2>3. Concat(c, a, b, D)
    BY ONLY <2>2, ConcatParts
  <2> QED
    BY ONLY <2>3 DEF Concat
<1>6. \A r \in Range(c) : r \in Rows
  BY <1>4 DEF Range
<1>7. \A r \in Rows : r.at \in Nat
  BY DEF Rows
<1> QED
  BY <1>1, <1>2, <1>3, <1>4, <1>5, <1>6, <1>7

\* Nothing of the capture changes.
LEMMA QuietTime ==
    ASSUME TimeInv, UNCHANGED <<now, cur, late, queue, day>>
    PROVE  TimeInv'
BY DEF TimeInv, Past, Present

LEMMA TickTime == ASSUME SessionInv, TimeInv, NEW beat \in BOOLEAN, Tick(beat) PROVE TimeInv'
<1>1. now \in Nat /\ now' = now + 1 /\ UNCHANGED <<late, queue, day>>
  BY DEF SessionInv, Types, Tick
<1>2. Past'
  <2>1. \A i \in 1..Len(day) : day[i].disconnected <= now'
    BY <1>1, DayParts DEF TimeInv, Past
  <2> QED
    BY <1>1, <2>1 DEF TimeInv, Past
<1>3. CASE cur = None
  <2>1. cur' = cur
    BY <1>3 DEF Tick
  <2> QED
    BY <1>1, <1>2, <1>3, <2>1 DEF TimeInv, Present
<1>4. CASE cur # None
  <2>1. PICK c : c = cur'
    OBVIOUS
  <2>2. /\ c.rows = cur.rows /\ c.connected = cur.connected /\ c # None
        /\ c.hb # None => c.connected <= c.hb
    <3>1. CASE beat
      <4>1. cur' = [cur EXCEPT !.hb = now + 1] /\ cur \in Segments
        BY <1>4, <3>1, CurParts DEF Tick
      <4>2. c \in Segments /\ c.rows = cur.rows /\ c.connected = cur.connected /\ c.hb = now + 1
        BY <1>1, <2>1, <4>1 DEF Segments
      <4>3. c # None
        BY <4>2, JournalAssumption
      <4> QED
        BY <1>1, <1>4, <4>2, <4>3, CurParts
    <3>2. CASE ~beat
      <4>1. c = cur
        BY <2>1, <3>2 DEF Tick
      <4> QED
        BY <1>4, <4>1 DEF TimeInv, Present, Open
    <3> QED
      BY <3>1, <3>2
  <2>3. Open(cur, queue, late, now) /\ \A i \in 1..Len(day) : day[i].disconnected < cur.connected
    BY <1>4 DEF TimeInv, Present
  <2>4. Open(c, queue, late, now + 1)
    <3>1. \A r \in Range(c.rows \o queue) :
             c.connected <= r.at /\ r.at <= (IF late = None THEN now + 1 ELSE late)
      BY <1>1, <1>4, <2>2, <2>3, CurParts DEF Open
    <3>2. late # None => c.connected <= late /\ late <= now + 1
      BY <1>1, <1>4, <2>2, <2>3, CurParts DEF Open
    <3> QED
      BY <2>2, <2>3, <3>1, <3>2 DEF Open
  <2>5. Present'
    BY <1>1, <2>1, <2>2, <2>3, <2>4 DEF Present
  <2> QED
    BY <1>2, <2>5 DEF TimeInv
<1> QED
  BY <1>3, <1>4

LEMMA ConnectTime == ASSUME SessionInv, TimeInv, Connect PROVE TimeInv'
<1>1. PICK id : id = <<procs, Len(day) + 1>>
  OBVIOUS
<1>2. /\ cur = None /\ cur' = [id |-> id, connected |-> now, hb |-> None, rows |-> <<>>]
      /\ \A i \in DOMAIN day : day[i].disconnected < now
      /\ UNCHANGED <<now, late, queue, day>>
  BY <1>1 DEF Connect
<1>3. queue = <<>> /\ late = None /\ now \in Nat
  BY <1>2 DEF SessionInv, Types, TimeInv, Present
<1>4. PICK c : c = cur'
  OBVIOUS
<1>5. c.rows = <<>> /\ c.connected = now /\ c.hb = None
  BY <1>2, <1>4
<1>6. c # None
  <2>1. c \in Segments
    BY <1>1, <1>2, <1>3, <1>4, DayParts DEF Segments, SessionInv, Types
  <2> QED
    BY <2>1, JournalAssumption
<1>7. c.rows \o queue = <<>> /\ Len(<<>>) = 0 /\ Range(<<>>) = {} /\ 1..0 = {}
  BY <1>3, <1>5 DEF Range
<1>8. Open(c, queue, late, now)
  BY <1>3, <1>5, <1>7 DEF Open, Sorted
<1>9. Present'
  BY <1>2, <1>4, <1>5, <1>6, <1>8, DayParts DEF Present
<1> QED
  BY <1>2, <1>9 DEF TimeInv, Past

LEMMA StampTime == ASSUME SessionInv, TimeInv, Stamp PROVE TimeInv'
<1>1. cur # None /\ late = None /\ late' = now /\ UNCHANGED <<now, cur, queue, day>>
  BY DEF Stamp
<1>2. now \in Nat /\ now # None /\ cur.connected <= now
  BY <1>1, CurParts, JournalAssumption
<1>3. Open(cur, queue, late, now)
  BY <1>1 DEF TimeInv, Present
<1>4. Open(cur, queue, now, now)
  BY <1>1, <1>2, <1>3 DEF Open
<1>5. Present'
  BY <1>1, <1>4 DEF TimeInv, Present
<1> QED
  BY <1>1, <1>5 DEF TimeInv, Past

LEMMA AppendConcat ==
    ASSUME NEW S, NEW p \in Seq(S), NEW q \in Seq(S), NEW x \in S
    PROVE  p \o Append(q, x) = Append(p \o q, x)
<1>1. PICK m, n, y, z : m = Len(p) /\ n = Len(q) /\ y = p \o Append(q, x) /\ z = Append(p \o q, x)
  OBVIOUS
<1>2. m \in Nat /\ n \in Nat /\ y \in Seq(S) /\ z \in Seq(S) /\ Len(y) = m + n + 1 /\ Len(z) = m + n + 1
  BY <1>1
<1>3. \A i \in 1..(m + n + 1) : y[i] = z[i]
  BY <1>1, <1>2
<1> QED
  BY <1>1, <1>2, <1>3

LEMMA EnqueueTime == ASSUME SessionInv, TimeInv, Enqueue PROVE TimeInv'
<1>1. PICK x : x = [ses |-> cur.id, seq |-> Len(cur.rows) + Len(queue) + 1, at |-> late]
  OBVIOUS
<1>2. late # None /\ queue' = Append(queue, x) /\ late' = None /\ UNCHANGED <<now, cur, day>>
  BY <1>1 DEF Enqueue
<1>3. cur # None
  BY <1>2 DEF SessionInv, Types
<1>4. /\ cur.rows \in Seq(Rows) /\ queue \in Seq(Rows) /\ cur.rows \o queue \in Seq(Rows)
      /\ \A r \in Range(cur.rows \o queue) : r \in Rows /\ r.at \in Nat
      /\ late \in Nat /\ now \in Nat /\ cur.connected \in Nat /\ cur.id \in Nat \X Nat
  BY <1>2, <1>3, CurParts
<1>5. x \in Rows /\ x.at = late
  <2>1. Len(cur.rows) \in Nat /\ Len(queue) \in Nat
    BY <1>4
  <2> QED
    BY <1>1, <1>4, <2>1 DEF Rows
<1>6. PICK z, y : z = cur.rows \o queue /\ y = cur.rows \o queue'
  OBVIOUS
<1>7. y = Append(z, x)
  <2>1. PICK a, b : a = cur.rows /\ b = queue
    OBVIOUS
  <2>2. a \in Seq(Rows) /\ b \in Seq(Rows) /\ z = a \o b /\ y = a \o Append(b, x)
    BY <1>2, <1>4, <1>6, <2>1
  <2>3. a \o Append(b, x) = Append(a \o b, x)
    <3>1. PICK D : D = Rows
      OBVIOUS
    <3>2. a \in Seq(D) /\ b \in Seq(D) /\ x \in D
      BY <1>5, <2>2, <3>1
    <3> QED
      BY ONLY <3>2, AppendConcat
  <2> QED
    BY ONLY <2>2, <2>3, Zenon
<1>8. /\ y \in Seq(Rows) /\ Len(y) = Len(z) + 1 /\ y[Len(z) + 1] = x
      /\ \A i \in 1..Len(z) : y[i] = z[i]
      /\ Range(y) = Range(z) \cup {x}
  <2>1. PICK D : D = Rows
    OBVIOUS
  <2>2. z \in Seq(D) /\ x \in D
    BY <1>4, <1>5, <1>6, <2>1
  <2>3. Longer(y, z, x, D)
    BY ONLY <1>7, <2>2, Appended
  <2> QED
    BY <2>1, <2>3 DEF Longer
<1>9. /\ Sorted(z) /\ \A r \in Range(z) : cur.connected <= r.at /\ r.at <= late
      /\ cur.connected <= late /\ late <= now /\ (cur.hb # None => cur.connected <= cur.hb)
      /\ \A i \in 1..Len(day) : day[i].disconnected < cur.connected
  BY <1>2, <1>3, <1>6 DEF TimeInv, Present, Open
<1>10. Sorted(y)
  <2>1. PICK n : n = Len(z) /\ n \in Nat /\ DOMAIN z = 1..n
    BY <1>4, <1>6
  <2> SUFFICES ASSUME NEW i \in 1..(n + 1), NEW k \in 1..(n + 1), i < k PROVE y[i].at <= y[k].at
    BY <1>8, <2>1 DEF Sorted
  <2>2. i \in 1..n /\ y[i] = z[i] /\ z[i] \in Range(z)
    BY <1>8, <2>1 DEF Range
  <2>3. CASE k = n + 1
    BY <1>5, <1>8, <1>9, <2>1, <2>2, <2>3
  <2>4. CASE k \in 1..n
    BY <1>8, <1>9, <2>1, <2>2, <2>4 DEF Sorted
  <2> QED
    BY <2>1, <2>3, <2>4
<1>11. \A r \in Range(y) : cur.connected <= r.at /\ r.at <= now
  <2>1. \A r \in Range(z) : r.at <= now
    BY <1>4, <1>6, <1>9
  <2> QED
    BY <1>5, <1>8, <1>9, <2>1
<1>12. Open(cur, queue', None, now)
  BY <1>6, <1>9, <1>10, <1>11 DEF Open
<1>13. Present'
  BY <1>2, <1>3, <1>9, <1>12 DEF Present
<1> QED
  BY <1>2, <1>13 DEF TimeInv, Past

LEMMA LoopTime == ASSUME SessionInv, TimeInv, Loop PROVE TimeInv'
<1>1. PICK z : z = cur.rows \o queue
  OBVIOUS
<1>2. /\ cur # None /\ cur' = [cur EXCEPT !.rows = z] /\ queue' = <<>>
      /\ UNCHANGED <<now, late, day>>
  BY <1>1 DEF Loop
<1>3. cur \in Segments /\ z \in Seq(Rows)
  BY <1>1, <1>2, CurParts
<1>4. PICK c : c = cur'
  OBVIOUS
<1>5. c \in Segments /\ c.rows = z /\ c.connected = cur.connected /\ c.hb = cur.hb
  BY <1>2, <1>3, <1>4 DEF Segments
<1>6. c # None
  BY <1>5, JournalAssumption
<1>7. c.rows \o queue' = cur.rows \o queue
  BY <1>1, <1>2, <1>3, <1>5
<1>8. Open(cur, queue, late, now) /\ \A i \in 1..Len(day) : day[i].disconnected < cur.connected
  BY <1>2 DEF TimeInv, Present
<1>9. Open(c, queue', late, now)
  BY <1>5, <1>7, <1>8 DEF Open
<1>10. Present'
  BY <1>2, <1>4, <1>5, <1>6, <1>8, <1>9 DEF Present
<1> QED
  BY <1>2, <1>10 DEF TimeInv, Past

\* The session s ends.
Ends(s) ==
    /\ cur # None /\ proc = "run" /\ Fits(s)
    /\ s.id = cur.id /\ s.connected = cur.connected /\ s.disconnected = now
    /\ s.rows = cur.rows \o queue
    /\ day' = Append(day, s)
    /\ j' = disconnected(ingest(j, queue), covered_until(s), s.kind \notin CLEAN)
    /\ missed' = (missed \/ Misses)
    /\ cur' = None /\ queue' = <<>> /\ proc' \in Capturing /\ (s.kind \in CLEAN => proc' = "closing")
    /\ UNCHANGED <<now, procs, staged, store>>

LEMMA EndFacts ==
    ASSUME SessionInv, TimeInv, NEW kind \in {"stale", "capture_error", "shutdown", "completed"},
           NEW delivered \in BOOLEAN, End(kind, delivered)
    PROVE  \E s : Ends(s)
<1>1. PICK z : z = cur.rows \o queue
  OBVIOUS
<1>2. PICK s : s = [id |-> cur.id, connected |-> cur.connected, disconnected |-> now,
                    published |-> now, kind |-> kind, hb |-> cur.hb, rows |-> z]
  OBVIOUS
<1>3. /\ cur # None /\ day' = Append(day, s)
      /\ j' = disconnected(ingest(j, queue), covered_until(s), kind \notin CLEAN)
      /\ missed' = (missed \/ Misses) /\ cur' = None /\ queue' = <<>>
      /\ proc' = IF kind \in CLEAN \/ now >= Deadline THEN "closing" ELSE "run"
      /\ UNCHANGED <<now, procs, staged, store>>
  BY <1>1, <1>2 DEF End
<1>4. /\ cur \in Segments /\ proc = "run" /\ cur.connected \in Nat /\ cur.connected <= now
      /\ cur.hb \in Nat \cup {None} /\ (cur.hb # None => cur.hb <= now)
      /\ z \in Seq(Rows) /\ \A r \in Range(z) : r.at \in Nat
      /\ late \in Nat \cup {None} /\ now \in Nat /\ cur.id \in Nat \X Nat
  BY <1>1, <1>3, CurParts
<1>5. Open(cur, queue, late, now)
  BY <1>3 DEF TimeInv, Present
<1>6. /\ s.id = cur.id /\ s.connected = cur.connected /\ s.disconnected = now /\ s.published = now
      /\ s.kind = kind /\ s.hb = cur.hb /\ s.rows = z /\ s \in Ended
  BY <1>2, <1>4 DEF Ended
<1>7. covered_until(s) \in Nat /\ s.connected <= covered_until(s) /\ covered_until(s) <= now
  <2>1. cur.hb # None => cur.connected <= cur.hb
    BY <1>5 DEF Open
  <2> QED
    BY <1>4, <1>6, <2>1 DEF covered_until
<1>8. Sorted(z) /\ \A r \in Range(z) : cur.connected <= r.at /\ r.at <= now
  <2>1. /\ Sorted(z) /\ \A r \in Range(z) : cur.connected <= r.at /\ r.at <= (IF late = None THEN now ELSE late)
        /\ late # None => late <= now
    BY <1>1, <1>5 DEF Open
  <2> QED
    BY <1>4, <2>1
<1>9. Fits(s)
  BY <1>4, <1>6, <1>7, <1>8 DEF Fits
<1>10. proc' \in Capturing /\ (s.kind \in CLEAN => proc' = "closing")
  BY <1>3, <1>6 DEF Capturing
<1>11. Ends(s)
  BY <1>1, <1>3, <1>4, <1>6, <1>9, <1>10 DEF Ends
<1> QED
  BY <1>11

LEMMA EndedDay ==
    ASSUME SessionInv, NEW s, Ends(s)
    PROVE  /\ day' \in Seq(Ended) /\ Len(day) \in Nat /\ Len(day') = Len(day) + 1
           /\ \A i \in 1..Len(day) : day'[i] = day[i]
           /\ day'[Len(day) + 1] = s /\ Range(day') = Range(day) \cup {s}
<1>1. PICK D : D = Ended
  OBVIOUS
<1>2. day \in Seq(D) /\ s \in D /\ day' = Append(day, s) /\ Len(day) \in Nat
  BY <1>1, DayParts, FitsFacts DEF Ends
<1>3. Longer(day', day, s, D)
  BY ONLY <1>2, Appended
<1> QED
  BY <1>1, <1>2, <1>3 DEF Longer

LEMMA EndTime ==
    ASSUME SessionInv, TimeInv, NEW s, Ends(s)
    PROVE  TimeInv'
<1>1. PICK n, T : n = Len(day) /\ T = day'
  OBVIOUS
<1>2. /\ T \in Seq(Ended) /\ n \in Nat /\ Len(T) = n + 1
      /\ \A i \in 1..n : T[i] = day[i]
      /\ T[n + 1] = s
  BY <1>1, EndedDay
<1>3. \A i \in 1..(n + 1) : i \in 1..n \/ i = n + 1
  BY <1>2
<1>4. /\ Timed(day) /\ \A i \in 1..n : day[i].disconnected <= now /\ day[i].id[2] = i
      /\ \A i \in 1..n : day[i].disconnected < cur.connected
  BY <1>1 DEF TimeInv, Past, Present, Ends
<1>5. /\ Fits(s) /\ s.connected = cur.connected /\ s.disconnected = now /\ s.id[2] = n + 1
      /\ now \in Nat
  BY <1>1 DEF Ends, SessionInv, Numbered, Types
<1>6. \A i \in 1..(n + 1) : Fits(T[i])
  BY <1>1, <1>2, <1>3, <1>4, <1>5 DEF Timed
<1>7. ASSUME NEW i \in 1..(n + 1), NEW k \in 1..(n + 1), i < k
      PROVE  T[i].disconnected < T[k].connected
  <2>1. i \in 1..n /\ T[i] = day[i]
    BY <1>2, <1>7
  <2>2. CASE k = n + 1
    BY <1>2, <1>4, <1>5, <2>1, <2>2
  <2>3. CASE k \in 1..n
    BY <1>1, <1>2, <1>4, <1>7, <2>1, <2>3 DEF Timed
  <2> QED
    BY <1>3, <2>2, <2>3
<1>8. Timed(T)
  BY <1>2, <1>6, <1>7 DEF Timed
<1>9. \A i \in 1..(n + 1) : T[i].disconnected <= now /\ T[i].id[2] = i
  BY <1>2, <1>3, <1>4, <1>5
<1>10. cur' = None /\ queue' = <<>> /\ now' = now
  BY DEF Ends
<1>11. Past'
  BY <1>1, <1>2, <1>8, <1>9, <1>10 DEF Past
<1>12. Present'
  BY <1>10 DEF Present
<1> QED
  BY <1>11, <1>12 DEF TimeInv

LEMMA TimeStep == ASSUME SessionInv, TimeInv, [Next]_vars PROVE TimeInv'
<1>1. CASE Start \/ GiveUp \/ Close \/ Stage \/ Deliver \/ Ensure \/ Rebuild \/ JobCrash \/ UNCHANGED vars
  <2>1. UNCHANGED <<now, cur, late, queue, day>>
    BY <1>1 DEF Start, GiveUp, Close, Stage, Deliver, Ensure, Rebuild, JobCrash, vars
  <2> QED
    BY <2>1, QuietTime
<1>2. CASE Crash
  BY <1>2 DEF Crash, TimeInv, Past, Present
<1>3. CASE Stamp \/ Enqueue \/ Loop \/ Connect
  BY <1>3, StampTime, EnqueueTime, LoopTime, ConnectTime
<1>4. ASSUME NEW beat \in BOOLEAN, Tick(beat) PROVE TimeInv'
  BY <1>4, TickTime
<1>5. ASSUME NEW kind \in {"stale", "capture_error", "shutdown", "completed"},
             NEW d \in BOOLEAN, End(kind, d)
      PROVE  TimeInv'
  <2>1. PICK s : Ends(s)
    BY <1>5, EndFacts
  <2> QED
    BY <2>1, EndTime
<1> QED
  BY <1>1, <1>2, <1>3, <1>4, <1>5 DEF Next

-----------------------------------------------------------------------------
(***************************************************************************)
(* What the live journal says: nothing but the sessions of its process,    *)
(* and of the rows of the connected session those the loop has drained.    *)
(***************************************************************************)
Received == IF cur = None THEN {} ELSE Range(cur.rows)

\* Nothing has happened that the live journal and the replay see differently.
Ordinary == ~missed /\ \A i \in 1..Len(day) : day[i].kind # "stale" /\ Apart(day[i])

\* The sessions of the process are those from lo on.
Heard(lo) ==
    /\ lo \in 1..(Len(day) + 1)
    /\ \A i \in 1..Len(day) : day[i].id[1] = procs <=> i >= lo
    /\ \A i \in lo..Len(day) : day[i].kind \in CLEAN => proc = "closing"
    /\ Faithful(j, RowsIn(day, lo, Len(day)) \cup Received)
    /\ IF cur = None THEN Between(j, day, lo, Len(day))
       ELSE Within(j, day, lo, Len(day), cur.connected)

Hearing == proc \in Capturing /\ ~j.failed /\ Ordinary /\ Clear(Received) => \E lo : Heard(lo)

LEMMA HearingInit == Init => Hearing
<1> SUFFICES ASSUME Init PROVE Hearing
  OBVIOUS
<1>1. proc = "run" /\ cur = None /\ day = <<>> /\ j = NewJournal
  BY DEF Init
<1>2. Len(day) = 0 /\ 1 \in 1..(Len(day) + 1) /\ 1..Len(day) = {}
  BY <1>1
<1>3. Faithful(j, RowsIn(day, 1, Len(day))) /\ Between(j, day, 1, Len(day)) /\ Received = {}
  <2>1. 1 \in Nat /\ 0 \in Nat /\ 0 < 1
    OBVIOUS
  <2> QED
    BY <1>1, <1>2, <2>1, NewFaithful DEF Received
<1>4. RowsIn(day, 1, Len(day)) \cup Received = RowsIn(day, 1, Len(day))
  BY <1>3
<1>5. Heard(1)
  BY <1>1, <1>2, <1>3, <1>4 DEF Heard
<1> QED
  BY <1>5 DEF Hearing

\* The journal is not called and hears of no session.
LEMMA QuietHearing ==
    ASSUME Hearing, UNCHANGED <<j, day, procs, missed>>,
           proc' \in Capturing => proc \in Capturing /\ (proc = "closing" => proc' = "closing"),
           Received' = Received, (cur' = None) = (cur = None), cur # None => cur'.connected = cur.connected
    PROVE  Hearing'
<1> SUFFICES ASSUME proc' \in Capturing, ~j'.failed, Ordinary', Clear(Received')
             PROVE  \E lo : Heard(lo)'
  BY DEF Hearing
<1>1. Ordinary /\ Clear(Received) /\ ~j.failed
  BY DEF Ordinary
<1>2. PICK lo : Heard(lo)
  BY <1>1 DEF Hearing
<1>3. \A i \in lo..Len(day) : day[i].kind \in CLEAN => proc' = "closing"
  BY <1>2 DEF Heard
<1>4. Faithful(j, RowsIn(day, lo, Len(day)) \cup Received')
  BY <1>2 DEF Heard
<1>5. IF cur' = None THEN Between(j, day, lo, Len(day))
      ELSE Within(j, day, lo, Len(day), cur'.connected)
  BY <1>2 DEF Heard
<1>6. Heard(lo)'
  BY <1>2, <1>3, <1>4, <1>5 DEF Heard
<1> QED
  BY <1>6

LEMMA TickHearing == ASSUME SessionInv, Hearing, NEW beat \in BOOLEAN, Tick(beat) PROVE Hearing'
<1>1. UNCHANGED <<j, day, procs, missed, proc>>
  BY DEF Tick
<1>2. CASE ~beat
  <2>1. cur' = cur
    BY <1>2 DEF Tick
  <2> QED
    BY <1>1, <2>1, QuietHearing DEF Received
<1>3. CASE beat
  <2>1. cur # None /\ cur' = [cur EXCEPT !.hb = now + 1]
    BY <1>3 DEF Tick
  <2>2. cur \in Segments /\ now + 1 \in Nat
    BY <2>1, CurParts
  <2>3. PICK c : c = cur'
    OBVIOUS
  <2>4. c \in Segments /\ c.rows = cur.rows /\ c.connected = cur.connected
    BY <2>1, <2>2, <2>3 DEF Segments
  <2>5. c # None
    BY <2>4, JournalAssumption
  <2>6. Received' = Received
    BY <2>1, <2>3, <2>4, <2>5 DEF Received
  <2> QED
    BY <1>1, <2>1, <2>3, <2>4, <2>5, <2>6, QuietHearing
<1> QED
  BY <1>2, <1>3

LEMMA StartHearing == ASSUME SessionInv, Start PROVE Hearing'
<1>1. /\ proc = "off" /\ procs' = procs + 1 /\ j' = NewJournal /\ UNCHANGED <<cur, day>>
  BY DEF Start
<1>2. cur = None /\ procs \in Nat
  BY <1>1 DEF SessionInv, Types
<1>3. PICK n : n = Len(day)
  OBVIOUS
<1>4. n \in Nat /\ n + 1 \in 1..(n + 1) /\ n + 1 \in Nat /\ n < n + 1 /\ (n + 1)..n = {}
  BY <1>3, DayParts
<1>5. \A i \in 1..n : day[i].id[1] = procs + 1 <=> i >= n + 1
  <2>1. ASSUME NEW i \in 1..n PROVE day[i].id[1] # procs + 1 /\ ~(i >= n + 1)
    <3>1. day[i] \in Range(day)
      BY <1>3, DayParts
    <3>2. PICK p : p = day[i].id[1]
      OBVIOUS
    <3>3. p \in Nat /\ p <= procs
      BY <3>1, <3>2, EndedIds
    <3>4. p # procs + 1
      BY <1>2, <3>3
    <3> QED
      BY <1>4, <3>2, <3>4
  <2> QED
    BY <2>1
<1>6. /\ Faithful(NewJournal, RowsIn(day, n + 1, n)) /\ Between(NewJournal, day, n + 1, n)
  BY <1>4, NewFaithful
<1>7. Received' = {}
  BY <1>1, <1>2 DEF Received
<1>8. RowsIn(day, n + 1, n) \cup {} = RowsIn(day, n + 1, n)
  OBVIOUS
<1>9. Heard(n + 1)'
  BY <1>1, <1>2, <1>3, <1>4, <1>5, <1>6, <1>7, <1>8 DEF Heard
<1> QED
  BY <1>9 DEF Hearing

LEMMA ConnectHearing == ASSUME SessionInv, TimeInv, Hearing, Connect PROVE Hearing'
<1> SUFFICES ASSUME ~j'.failed, Ordinary' PROVE \E lo : Heard(lo)'
  BY DEF Hearing
<1>1. PICK id, n, x, y, T : id = <<procs, Len(day) + 1>> /\ n = Len(day) /\ x = j /\ y = j' /\ T = day
  OBVIOUS
<1>2. /\ proc = "run" /\ cur = None /\ y = connected(x, id, now)
      /\ cur' = [id |-> id, connected |-> now, hb |-> None, rows |-> <<>>]
      /\ \A i \in DOMAIN T : T[i].disconnected < now
      /\ UNCHANGED <<now, proc, procs, day, missed>>
  BY <1>1 DEF Connect
<1>3. /\ IsJournal(x) /\ Until(x, now) /\ x.manifest = None /\ now \in Nat /\ proc \in Capturing
      /\ DOMAIN T = 1..n /\ n \in Nat
  BY <1>1, <1>2, DayParts DEF SessionInv, Live, Types, Capturing
<1>4. ~x.failed
  BY <1>1, <1>2, <1>3, ConnectedFacts
<1>5. Ordinary /\ Received = {} /\ Clear(Received)
  BY <1>2 DEF Ordinary, Received, Clear
<1>6. PICK lo : Heard(lo)
  BY <1>1, <1>3, <1>4, <1>5 DEF Hearing
<1>7. PICK R : R = RowsIn(T, lo, n)
  OBVIOUS
<1>8. /\ lo \in 1..(n + 1) /\ lo \in Nat /\ \A i \in lo..n : T[i].kind \notin CLEAN
      /\ Faithful(x, R) /\ Between(x, T, lo, n)
  <2>1. /\ lo \in 1..(n + 1) /\ \A i \in lo..n : T[i].kind \in CLEAN => proc = "closing"
        /\ Faithful(x, R \cup {}) /\ Between(x, T, lo, n)
    BY <1>1, <1>2, <1>5, <1>6, <1>7 DEF Heard
  <2>2. R \cup {} = R
    OBVIOUS
  <2> QED
    BY <1>2, <1>3, <2>1, <2>2
<1>9. lo <= n => T[n].kind \notin CLEAN /\ covered_until(T[n]) \in Nat /\ covered_until(T[n]) < now
  <2> SUFFICES ASSUME lo <= n PROVE T[n].kind \notin CLEAN /\ covered_until(T[n]) \in Nat
                                    /\ covered_until(T[n]) < now
    OBVIOUS
  <2>1. n \in lo..n /\ n \in 1..n
    BY <1>3, <1>8
  <2>2. PICK s : s = T[n]
    OBVIOUS
  <2>3. Fits(s) /\ s.disconnected < now
    BY <1>1, <1>2, <1>3, <2>1, <2>2 DEF TimeInv, Past, Timed
  <2>4. covered_until(s) \in Nat /\ s.disconnected \in Nat /\ covered_until(s) <= s.disconnected
    BY <2>3, FitsFacts
  <2>5. covered_until(s) < now
    BY <1>3, <2>3, <2>4
  <2> QED
    BY <1>8, <2>1, <2>2, <2>4, <2>5
<1>10. Faithful(y, R) /\ Within(y, T, lo, n, now)
  <2>1. y = connected(x, id, now) /\ ~y.failed /\ x.manifest = None
    BY <1>1, <1>2, <1>3
  <2> QED
    BY ONLY <1>3, <1>4, <1>8, <1>9, <2>1, JoinFaithful
<1>11. PICK c : c = cur'
  OBVIOUS
<1>12. c.rows = <<>> /\ c.connected = now /\ Range(<<>>) = {}
  BY <1>2, <1>11 DEF Range
<1>13. c # None
  <2>1. <<>> \in Seq(Rows) /\ procs \in Nat
    BY DEF SessionInv, Types
  <2>2. c \in Segments
    BY <1>1, <1>2, <1>3, <1>11, <2>1 DEF Segments
  <2> QED
    BY <2>2, JournalAssumption
<1>14. Received' = {} /\ R \cup {} = R
  BY <1>11, <1>12 DEF Received
<1>15. Faithful(j', RowsIn(day', lo, Len(day')) \cup Received')
  BY <1>1, <1>2, <1>7, <1>10, <1>14
<1>16. Within(j', day', lo, Len(day'), cur'.connected) /\ cur' # None
  BY <1>1, <1>2, <1>10, <1>11, <1>12, <1>13
<1>17. Heard(lo)'
  BY <1>1, <1>2, <1>6, <1>15, <1>16 DEF Heard
<1> QED
  BY <1>17

\* The journal takes the rows of the queue.
LEMMA TakesFaithful ==
    ASSUME SessionInv, TimeInv, cur # None, ~j.failed, NEW R, Faithful(j, R),
           ~missed, ~Misses, NEW a, a = ingest(j, queue), ~a.failed
    PROVE  /\ Faithful(a, R \cup Range(queue)) /\ Rests(j, a) /\ a.manifest = None
           /\ IsJournal(a) /\ Until(a, now)
<1>1. PICK x, q : x = j /\ q = queue
  OBVIOUS
<1>2. IsJournal(x) /\ Until(x, now) /\ x.manifest = None /\ q \in Seq(Rows) /\ cur.rows \in Seq(Rows)
  BY <1>1, CurParts DEF SessionInv, Live, Capturing
<1>3. Sorted(q)
  <2>1. PICK p, z, D : p = cur.rows /\ z = cur.rows \o queue /\ D = Rows
    OBVIOUS
  <2>2. Sorted(z)
    BY <2>1 DEF TimeInv, Present, Open
  <2>3. p \in Seq(D) /\ q \in Seq(D) /\ z = p \o q
    BY <1>1, <1>2, <2>1
  <2>4. Concat(z, p, q, D)
    BY ONLY <2>3, ConcatParts
  <2> QED
    BY <2>2, <2>4 DEF Concat
<1>4. LateEnough(x, q)
  <2> SUFFICES ASSUME x.next > Len(Clocks), NEW r \in Range(q) PROVE r.at > Clocks[Len(Clocks)]
    BY DEF LateEnough
  <2>1. ~(r.at <= Clocks[Len(Clocks)])
    BY <1>1 DEF Misses
  <2>2. r \in Rows
    BY <1>2 DEF Range
  <2>3. PICK c : c = Clocks[Len(Clocks)]
    OBVIOUS
  <2>4. r.at \in Nat /\ c \in Nat /\ ~(r.at <= c)
    <3>1. Len(Clocks) \in 1..Len(Clocks)
      BY ClocksAscend
    <3> QED
      BY <2>1, <2>2, <2>3, <3>1, ClocksAscend DEF Rows
  <2> QED
    BY <2>3, <2>4
<1>5. Faithful(a, R \cup Range(q)) /\ Rests(x, a) /\ a.manifest = None
  <2>1. Faithful(x, R) /\ ~x.failed /\ x.manifest = None /\ a = ingest(x, q) /\ ~a.failed
    BY <1>1, <1>2
  <2> QED
    BY ONLY <1>2, <1>3, <1>4, <2>1, IngestFaithful
<1>6. IsJournal(a) /\ Until(a, now)
  BY <1>1, <1>2, IngestFacts
<1> QED
  BY <1>1, <1>5, <1>6

LEMMA LoopHearing == ASSUME SessionInv, TimeInv, Hearing, Loop PROVE Hearing'
<1> SUFFICES ASSUME ~j'.failed, Ordinary', Clear(Received') PROVE \E lo : Heard(lo)'
  BY DEF Hearing
<1>1. PICK n, x, y, T, a, z : /\ n = Len(day) /\ x = j /\ y = j' /\ T = day
                              /\ a = ingest(j, queue) /\ z = cur.rows \o queue
  OBVIOUS
<1>2. /\ cur # None /\ y = advance(a, now) /\ missed' = (missed \/ Misses)
      /\ cur' = [cur EXCEPT !.rows = z] /\ UNCHANGED <<now, proc, procs, day>>
  BY <1>1 DEF Loop
<1>3. /\ IsJournal(x) /\ x.manifest = None /\ now \in Nat /\ proc \in Capturing /\ n \in Nat
      /\ cur \in Segments /\ z \in Seq(Rows) /\ Range(z) = Range(cur.rows) \cup Range(queue)
  BY <1>1, <1>2, DayParts, CurParts DEF SessionInv, Live, Capturing
<1>4. PICK c : c = cur'
  OBVIOUS
<1>5. c # None /\ c.rows = z /\ c.connected = cur.connected
  <2>1. c \in Segments /\ c.rows = z /\ c.connected = cur.connected
    BY <1>2, <1>3, <1>4 DEF Segments
  <2> QED
    BY <2>1, JournalAssumption
<1>6. IsJournal(a) /\ Same(x, a)
  BY <1>1, <1>3, IngestFacts
<1>7. ~a.failed /\ ~x.failed
  <2>1. a.failed => y = a
    BY <1>2 DEF advance, Safe
  <2> QED
    BY <1>1, <1>6, <2>1 DEF Same
<1>8. Received' = Range(z) /\ Received = Range(cur.rows)
  BY <1>2, <1>4, <1>5 DEF Received
<1>9. ~missed /\ ~Misses /\ Ordinary /\ Clear(Received)
  <2>1. ~missed /\ ~Misses /\ Ordinary
    BY <1>2 DEF Ordinary
  <2> QED
    BY <1>3, <1>8, <2>1 DEF Clear
<1>10. PICK lo : Heard(lo)
  BY <1>1, <1>3, <1>7, <1>9 DEF Hearing
<1>11. PICK R, G : R = RowsIn(T, lo, n) \cup Received /\ G = R \cup Range(queue)
  OBVIOUS
<1>12. Faithful(x, R) /\ Within(x, T, lo, n, cur.connected) /\ lo \in 1..(n + 1)
  BY <1>1, <1>2, <1>10, <1>11 DEF Heard
<1>13. Faithful(a, G) /\ Rests(x, a) /\ a.manifest = None
  BY <1>1, <1>2, <1>7, <1>9, <1>11, <1>12, TakesFaithful
<1>14. G = RowsIn(T, lo, n) \cup Range(z)
  BY <1>3, <1>8, <1>11
<1>15. Clear(G)
  <2>1. \A i \in lo..n : Apart(T[i])
    BY <1>1, <1>3, <1>9, <1>12 DEF Ordinary
  <2>2. Clear(RowsIn(T, lo, n))
    BY <2>1, RowsApart
  <2>3. Clear(Range(z))
    BY <1>8
  <2> QED
    BY <1>14, <2>2, <2>3 DEF Clear
<1>16. Faithful(y, G) /\ Rests(a, y)
  <2>1. y = _advance(a, now - Cadence)
    BY <1>2, <1>7, <1>13 DEF advance, Safe
  <2>2. now - Cadence \in Int
    BY <1>3, JournalAssumption
  <2>3. ~y.failed
    BY <1>1
  <2> QED
    BY ONLY <1>13, <1>15, <2>1, <2>2, <2>3, AdvanceFaithful
<1>17. Within(y, T, lo, n, cur.connected)
  BY <1>12, <1>13, <1>16 DEF Within, Rests
<1>18. Heard(lo)'
  <2>1. Faithful(j', RowsIn(day', lo, Len(day')) \cup Received')
    BY <1>1, <1>2, <1>8, <1>14, <1>16
  <2>2. Within(j', day', lo, Len(day'), cur'.connected) /\ cur' # None
    BY <1>1, <1>2, <1>4, <1>5, <1>17
  <2> QED
    BY <1>1, <1>2, <1>10, <2>1, <2>2 DEF Heard
<1> QED
  BY <1>18

LEMMA EndHearing == ASSUME SessionInv, TimeInv, Hearing, NEW s, Ends(s) PROVE Hearing'
<1> SUFFICES ASSUME ~j'.failed, Ordinary', Clear(Received') PROVE \E lo : Heard(lo)'
  BY DEF Hearing
<1>1. PICK n, x, y, T, U, a, z, at : /\ n = Len(day) /\ x = j /\ y = j' /\ T = day /\ U = day'
                                     /\ a = ingest(j, queue) /\ z = cur.rows \o queue
                                     /\ at = covered_until(s)
  OBVIOUS
<1>2. /\ cur # None /\ proc = "run" /\ Fits(s) /\ s.id = cur.id /\ s.connected = cur.connected
      /\ s.disconnected = now /\ s.rows = z /\ y = disconnected(a, at, s.kind \notin CLEAN)
      /\ missed' = (missed \/ Misses) /\ cur' = None /\ (s.kind \in CLEAN => proc' = "closing")
      /\ UNCHANGED <<now, procs>>
  BY <1>1 DEF Ends
<1>3. /\ n \in Nat /\ Len(U) = n + 1 /\ \A i \in 1..n : U[i] = T[i]
      /\ U[n + 1] = s
  BY <1>1, EndedDay
<1>4. /\ IsJournal(x) /\ x.manifest = None /\ now \in Nat /\ proc \in Capturing
      /\ Range(z) = Range(cur.rows) \cup Range(queue)
  BY <1>1, <1>2, CurParts DEF SessionInv, Live, Capturing
<1>5. ~missed /\ ~Misses /\ \A i \in 1..(n + 1) : U[i].kind # "stale" /\ Apart(U[i])
  BY <1>1, <1>2, <1>3 DEF Ordinary
<1>6. s.kind # "stale" /\ Apart(s)
  <2>1. n + 1 \in 1..(n + 1)
    BY <1>3
  <2> QED
    BY <1>3, <1>5, <2>1
<1>7. Ordinary
  <2>1. \A i \in 1..n : i \in 1..(n + 1)
    BY <1>3
  <2> QED
    BY <1>1, <1>3, <1>5, <2>1 DEF Ordinary
<1>8. at = now /\ at \in Nat /\ at \notin Range(Clocks) /\ Clear(Range(z))
  <2>1. s \in Ended
    BY <1>2, FitsFacts
  <2>2. at = s.disconnected
    BY <1>1, <1>6 DEF covered_until
  <2> QED
    BY <1>1, <1>2, <1>4, <1>6, <2>2 DEF Apart
<1>9. Received = Range(cur.rows) /\ Received' = {}
  BY <1>2 DEF Received
<1>10. IsJournal(a) /\ Same(x, a)
  BY <1>1, <1>4, IngestFacts
<1>11. ~a.failed /\ ~x.failed
  <2>1. a.failed => y = a
    BY <1>2 DEF disconnected, Safe
  <2> QED
    BY <1>1, <1>10, <2>1 DEF Same
<1>12. Clear(Received)
  BY <1>4, <1>8, <1>9 DEF Clear
<1>13. PICK lo : Heard(lo)
  BY <1>1, <1>4, <1>7, <1>11, <1>12 DEF Hearing
<1>14. PICK R, G : R = RowsIn(T, lo, n) \cup Received /\ G = R \cup Range(queue)
  OBVIOUS
<1>15. /\ Faithful(x, R) /\ Within(x, T, lo, n, cur.connected) /\ lo \in 1..(n + 1) /\ lo \in Nat
       /\ \A i \in 1..n : T[i].id[1] = procs <=> i >= lo
       /\ \A i \in lo..n : T[i].kind \in CLEAN => proc = "closing"
  <2>1. lo \in 1..(n + 1)
    BY <1>1, <1>13 DEF Heard
  <2> QED
    BY <1>1, <1>2, <1>3, <1>13, <1>14, <2>1 DEF Heard
<1>16. Faithful(a, G) /\ Rests(x, a) /\ a.manifest = None /\ Until(a, now)
  BY <1>1, <1>2, <1>5, <1>11, <1>14, <1>15, TakesFaithful
<1>17. \A i \in lo..n : i \in 1..n
  BY <1>3, <1>15
<1>18. G = RowsIn(U, lo, n) \cup Range(z) /\ G = RowsIn(U, lo, n + 1)
  <2>1. \A i \in lo..n : U[i] = T[i]
    BY <1>3, <1>17
  <2>2. RowsIn(U, lo, n) = RowsIn(T, lo, n)
    BY <1>3, <1>15, <2>1, SpansKept
  <2>3. lo <= n + 1
    BY <1>3, <1>15
  <2>4. RowsIn(U, lo, n + 1) = RowsIn(U, lo, n) \cup Range(U[n + 1].rows)
    BY <1>3, <1>15, <2>3, SpansStep
  <2>5. Range(U[n + 1].rows) = Range(z)
    BY <1>2, <1>3
  <2>6. G = RowsIn(T, lo, n) \cup Range(z)
    BY <1>4, <1>9, <1>14
  <2> QED
    BY <2>2, <2>4, <2>5, <2>6
<1>19. Clear(G)
  <2>1. \A i \in lo..n : Apart(U[i])
    BY <1>3, <1>5, <1>17
  <2>2. Clear(RowsIn(U, lo, n))
    BY <2>1, RowsApart
  <2> QED
    BY <1>8, <1>18, <2>2 DEF Clear
<1>20. Within(a, U, lo, n, s.connected)
  <2>1. Within(a, T, lo, n, s.connected)
    BY <1>2, <1>15, <1>16 DEF Within, Rests
  <2>2. \A i \in lo..n : U[i] = T[i]
    BY <1>3, <1>17
  <2> QED
    BY <1>3, <1>15, <2>1, <2>2, SpansKept
<1>21. Faithful(y, G) /\ Between(y, U, lo, n + 1)
  <2>1. /\ lo <= n + 1 /\ s = U[n + 1] /\ at \in Nat /\ at = covered_until(s) /\ at \notin Range(Clocks)
        /\ Until(a, at) /\ y = disconnected(a, at, s.kind \notin CLEAN) /\ ~y.failed /\ ~a.failed
    BY <1>1, <1>2, <1>3, <1>8, <1>11, <1>15, <1>16
  <2> QED
    BY ONLY <1>3, <1>15, <1>16, <1>19, <1>20, <2>1, LeaveFaithful
<1>22. \A i \in 1..(n + 1) : U[i].id[1] = procs <=> i >= lo
  <2> SUFFICES ASSUME NEW i \in 1..(n + 1) PROVE U[i].id[1] = procs <=> i >= lo
    OBVIOUS
  <2>1. CASE i \in 1..n
    BY <1>3, <1>15, <2>1
  <2>2. CASE i = n + 1
    <3>1. s.id[1] = procs
      BY <1>2 DEF SessionInv, Numbered
    <3>2. i >= lo
      BY <1>3, <1>15, <2>2
    <3> QED
      BY <1>3, <2>2, <3>1, <3>2
  <2> QED
    BY <1>3, <2>1, <2>2
<1>23. \A i \in lo..(n + 1) : U[i].kind \in CLEAN => proc' = "closing"
  <2> SUFFICES ASSUME NEW i \in lo..(n + 1), U[i].kind \in CLEAN PROVE proc' = "closing"
    OBVIOUS
  <2>1. CASE i \in lo..n
    <3>1. T[i].kind \in CLEAN
      BY <1>3, <1>17, <2>1
    <3> QED
      BY <1>2, <1>15, <2>1, <3>1
  <2>2. CASE i = n + 1
    BY <1>2, <1>3, <2>2
  <2> QED
    BY <1>3, <1>15, <2>1, <2>2
<1>24. Heard(lo)'
  <2>1. lo \in 1..(n + 1 + 1)
    BY <1>3, <1>15
  <2>2. RowsIn(U, lo, n + 1) \cup Received' = G
    BY <1>9, <1>18
  <2>3. Faithful(j', RowsIn(day', lo, Len(day')) \cup Received')
    BY <1>1, <1>3, <1>21, <2>2
  <2>4. Between(j', day', lo, Len(day'))
    BY <1>1, <1>3, <1>21
  <2>5. lo \in 1..(Len(day') + 1)
    BY <1>1, <1>3, <2>1
  <2>6. /\ \A i \in 1..Len(day') : day'[i].id[1] = procs' <=> i >= lo
        /\ \A i \in lo..Len(day') : day'[i].kind \in CLEAN => proc' = "closing"
    BY <1>1, <1>2, <1>3, <1>22, <1>23
  <2> QED
    BY <1>2, <2>3, <2>4, <2>5, <2>6 DEF Heard
<1> QED
  BY <1>24

LEMMA HearingStep == ASSUME SessionInv, TimeInv, Hearing, [Next]_vars PROVE Hearing'
<1>1. CASE \/ Stamp \/ Enqueue \/ Deliver \/ Ensure \/ Rebuild \/ JobCrash \/ UNCHANGED vars
  <2>1. UNCHANGED <<j, day, procs, missed, proc, cur>>
    BY <1>1 DEF Stamp, Enqueue, Deliver, Ensure, Rebuild, JobCrash, vars
  <2> QED
    BY <2>1, QuietHearing DEF Received
<1>2. CASE GiveUp
  <2>1. proc = "run" /\ proc' = "closing" /\ UNCHANGED <<j, day, procs, missed, cur>>
    BY <1>2 DEF GiveUp
  <2>2. Received' = Received /\ proc \in Capturing
    BY <2>1 DEF Received, Capturing
  <2> QED
    BY <2>1, <2>2, QuietHearing
<1>3. CASE Close \/ Stage \/ Crash
  <2>1. proc' \in {"off", "publish"}
    BY <1>3 DEF Close, Stage, Crash
  <2> QED
    BY <2>1 DEF Hearing, Capturing
<1>4. CASE Start \/ Connect \/ Loop
  BY <1>4, StartHearing, ConnectHearing, LoopHearing
<1>5. ASSUME NEW beat \in BOOLEAN, Tick(beat) PROVE Hearing'
  BY <1>5, TickHearing
<1>6. ASSUME NEW kind \in {"stale", "capture_error", "shutdown", "completed"},
             NEW d \in BOOLEAN, End(kind, d)
      PROVE  Hearing'
  <2>1. PICK s : Ends(s)
    BY <1>6, EndFacts
  <2> QED
    BY <2>1, EndHearing
<1> QED
  BY <1>1, <1>2, <1>3, <1>4, <1>5, <1>6 DEF Next

-----------------------------------------------------------------------------
(***************************************************************************)
(* What is published: the live journal's report of its sessions, which no  *)
(* later session changes, or the rebuild of a day that is over.            *)
(***************************************************************************)
Told(m) ==
    Ordinary => \E lo \in 1..Len(day) : \E hi \in lo..Len(day) :
        m.log = Report(day, lo, hi) /\ Range(m.uris) = {day[i].id : i \in lo..hi}

FromLive(m) == m.by = "live" /\ Told(m)

Settled == now >= Deadline /\ cur = None /\ proc # "run"

FromRebuild(m) ==
    /\ Settled /\ ~_replay_journal(Certified(day)).failed
    /\ m = _replay_journal(Certified(day)).manifest

Truthful ==
    /\ proc = "publish" => FromLive(j.manifest)
    /\ \A i \in DOMAIN staged : staged[i].object = "manifest" => FromLive(staged[i].body)
    /\ "manifest" \in DOMAIN store =>
          FromLive(store["manifest"]) \/ FromRebuild(store["manifest"])

FaithInv == JournalInv /\ TimeInv /\ Hearing /\ Truthful

LEMMA ReportKept ==
    ASSUME NEW T, NEW U, NEW lo \in Nat, NEW hi \in Nat, lo <= hi, \A i \in lo..hi : U[i] = T[i]
    PROVE  Report(U, lo, hi) = Report(T, lo, hi)
<1>1. Spans(U, lo, hi) = Spans(T, lo, hi) /\ RowsIn(U, lo, hi) = RowsIn(T, lo, hi)
  BY SpansKept
<1>2. U[hi] = T[hi]
  OBVIOUS
<1> QED
  BY <1>1, <1>2 DEF Report

LEMMA DayKept ==
    ASSUME SessionInv, TimeInv, [Next]_vars
    PROVE  /\ \/ day' = day
              \/ Len(day') = Len(day) + 1 /\ \A i \in 1..Len(day) : day'[i] = day[i]
           /\ missed => missed'
<1>1. ASSUME NEW kind \in {"stale", "capture_error", "shutdown", "completed"},
             NEW d \in BOOLEAN, End(kind, d)
      PROVE  /\ Len(day') = Len(day) + 1 /\ \A i \in 1..Len(day) : day'[i] = day[i]
             /\ missed => missed'
  <2>1. PICK s : Ends(s)
    BY <1>1, EndFacts
  <2> QED
    BY <2>1, EndedDay DEF Ends
<1>2. CASE Loop
  BY <1>2 DEF Loop
<1>3. CASE \/ \E beat \in BOOLEAN : Tick(beat)
           \/ Start \/ Connect \/ Stamp \/ Enqueue \/ GiveUp \/ Close \/ Stage \/ Deliver \/ Crash
           \/ Ensure \/ Rebuild \/ JobCrash \/ UNCHANGED vars
  BY <1>3 DEF Tick, Start, Connect, Stamp, Enqueue, GiveUp, Close, Stage, Deliver, Crash,
              Ensure, Rebuild, JobCrash, vars
<1> QED
  BY <1>1, <1>2, <1>3 DEF Next

LEMMA LiveKept ==
    ASSUME SessionInv, TimeInv, [Next]_vars, NEW m, FromLive(m)
    PROVE  FromLive(m)'
<1> SUFFICES ASSUME Ordinary'
             PROVE  \E lo \in 1..Len(day') : \E hi \in lo..Len(day') :
                       m.log = Report(day', lo, hi) /\ Range(m.uris) = {day'[i].id : i \in lo..hi}
  BY DEF FromLive, Told
<1>1. PICK n, T, U : n = Len(day) /\ T = day /\ U = day'
  OBVIOUS
<1>2. n \in Nat
  BY <1>1, DayParts
<1>3. U = T \/ (Len(U) = n + 1 /\ \A i \in 1..n : U[i] = T[i])
  BY <1>1, DayKept
<1>4. n <= Len(U) /\ Len(U) \in Nat /\ \A i \in 1..n : U[i] = T[i] /\ i \in 1..Len(U)
  BY <1>1, <1>2, <1>3
<1>5. Ordinary
  <2>1. ~missed
    BY DayKept DEF Ordinary
  <2>2. \A i \in 1..n : T[i].kind # "stale" /\ Apart(T[i])
    BY <1>1, <1>4 DEF Ordinary
  <2> QED
    BY <1>1, <2>1, <2>2 DEF Ordinary
<1>6. PICK lo \in 1..n : \E hi \in lo..n :
         m.log = Report(T, lo, hi) /\ Range(m.uris) = {T[i].id : i \in lo..hi}
  BY <1>1, <1>5 DEF FromLive, Told
<1>7. PICK hi \in lo..n : m.log = Report(T, lo, hi) /\ Range(m.uris) = {T[i].id : i \in lo..hi}
  BY <1>6
<1>8. /\ lo \in Nat /\ hi \in Nat /\ lo <= hi /\ \A i \in lo..hi : i \in 1..n
      /\ lo \in 1..Len(U) /\ hi \in lo..Len(U)
  BY <1>2, <1>4
<1>9. \A i \in lo..hi : U[i] = T[i]
  BY <1>4, <1>8
<1>10. Report(U, lo, hi) = Report(T, lo, hi)
  BY <1>8, <1>9, ReportKept
<1>11. {U[i].id : i \in lo..hi} = {T[i].id : i \in lo..hi}
  BY <1>9
<1>12. m.log = Report(U, lo, hi) /\ Range(m.uris) = {U[i].id : i \in lo..hi}
  BY <1>7, <1>10, <1>11
<1>13. \E x \in 1..Len(U) : \E y \in x..Len(U) :
          m.log = Report(U, x, y) /\ Range(m.uris) = {U[i].id : i \in x..y}
  BY <1>8, <1>12
<1> QED
  BY <1>1, <1>13

LEMMA SettledKept ==
    ASSUME SessionInv, Settled, [Next]_vars
    PROVE  Settled' /\ day' = day
<1>1. now \in Nat /\ Deadline \in Nat /\ now >= Deadline /\ cur = None /\ proc # "run"
      /\ late = None
  BY JournalAssumption DEF Settled, SessionInv, Types
<1>2. CASE \E beat \in BOOLEAN : Tick(beat)
  <2>1. PICK beat \in BOOLEAN : Tick(beat)
    BY <1>2
  <2>2. now' = now + 1 /\ cur' = cur /\ UNCHANGED <<proc, day>>
    BY <1>1, <2>1 DEF Tick
  <2> QED
    BY <1>1, <2>2 DEF Settled
<1>3. ~Start /\ ~Connect /\ ~Stamp /\ ~Enqueue /\ ~Loop /\ ~GiveUp
      /\ \A kind, d : ~End(kind, d)
  BY <1>1 DEF Start, Connect, Stamp, Enqueue, Loop, GiveUp, End
<1>4. CASE Close \/ Stage \/ Crash
  BY <1>1, <1>4 DEF Close, Stage, Crash, Settled
<1>5. CASE Deliver \/ Ensure \/ Rebuild \/ JobCrash \/ UNCHANGED vars
  BY <1>1, <1>5 DEF Deliver, Ensure, Rebuild, JobCrash, vars, Settled
<1> QED
  BY <1>2, <1>3, <1>4, <1>5 DEF Next

LEMMA RebuildKept ==
    ASSUME SessionInv, [Next]_vars, NEW m, FromRebuild(m)
    PROVE  FromRebuild(m)'
<1>1. Settled' /\ day' = day
  BY SettledKept DEF FromRebuild
<1>2. PICK r : r = _replay_journal(Certified(day))
  OBVIOUS
<1>3. r = _replay_journal(Certified(day))'
  BY <1>1, <1>2
<1>4. ~r.failed /\ m = r.manifest
  BY <1>2 DEF FromRebuild
<1> QED
  BY <1>1, <1>3, <1>4 DEF FromRebuild

LEMMA CloseTruth ==
    ASSUME JournalInv, TimeInv, Hearing, Close, ~j'.failed
    PROVE  FromLive(j'.manifest)
<1>1. PICK b : b = close(j, now, uris, "live")
  OBVIOUS
<1>2. SessionInv /\ proc = "closing" /\ b = j' /\ ~b.failed /\ cur = None
  BY <1>1 DEF Close, JournalInv, SessionInv, Types
<1>3. IsJournal(j) /\ j.manifest = None /\ now \in Int /\ proc \in Capturing
  BY <1>2 DEF SessionInv, Types, Live, Capturing
<1>4. b.manifest.by = "live" /\ b.manifest.uris = j.ids /\ ~j.failed /\ j.ids # <<>>
  BY <1>1, <1>2, <1>3, CloseFacts
<1> SUFFICES ASSUME Ordinary
             PROVE  \E lo \in 1..Len(day) : \E hi \in lo..Len(day) :
                       /\ b.manifest.log = Report(day, lo, hi)
                       /\ Range(b.manifest.uris) = {day[i].id : i \in lo..hi}
  BY <1>2, <1>4 DEF FromLive, Told
<1>5. Received = {} /\ Clear(Received)
  BY <1>2 DEF Received, Clear
<1>6. PICK lo : Heard(lo)
  BY <1>3, <1>4, <1>5 DEF Hearing
<1>7. PICK n, T : n = Len(day) /\ T = day
  OBVIOUS
<1>8. n \in Nat /\ DOMAIN T = 1..n /\ \A i \in 1..n : T[i] \in Range(T)
  BY <1>2, <1>7, DayParts
<1>9. lo \in 1..(n + 1) /\ Between(j, T, lo, n) /\ \A i \in 1..n : T[i].id[1] = procs <=> i >= lo
  BY <1>2, <1>6, <1>7 DEF Heard
<1>10. Faithful(j, RowsIn(T, lo, n))
  <2>1. RowsIn(T, lo, n) \cup Received = RowsIn(T, lo, n)
    BY <1>5
  <2> QED
    BY <1>6, <1>7, <2>1 DEF Heard
<1>11. Range(j.ids) = {T[i].id : i \in lo..n}
  <2>1. Range(j.ids) = EndedBy(procs)
    BY <1>2, <1>3, <1>4 DEF SessionInv, Live, Seen, Connected
  <2>2. ASSUME NEW x \in EndedBy(procs) PROVE x \in {T[i].id : i \in lo..n}
    <3>1. PICK s \in Range(T) : s.id[1] = procs /\ x = s.id
      BY <1>7, <2>2 DEF EndedBy
    <3>2. PICK i \in 1..n : s = T[i]
      BY <1>8, <3>1 DEF Range
    <3>3. i >= lo /\ lo \in Int
      BY <1>9, <3>1, <3>2
    <3>4. i \in lo..n
      BY <1>8, <3>3
    <3> QED
      BY <3>1, <3>2, <3>4
  <2>3. ASSUME NEW i \in lo..n PROVE T[i].id \in EndedBy(procs)
    <3>1. i \in 1..n /\ i >= lo
      BY <1>8, <1>9
    <3>2. T[i].id[1] = procs /\ T[i] \in Range(T)
      BY <1>8, <1>9, <3>1
    <3> QED
      BY <1>7, <3>2 DEF EndedBy
  <2> QED
    BY <2>1, <2>2, <2>3
<1>12. lo \in 1..n /\ n \in lo..n /\ lo \in Nat /\ lo <= n
  <2>1. Range(j.ids) # {}
    <3>1. j.ids \in Seq(Nat \X Nat)
      BY <1>2, <1>3, <1>4 DEF SessionInv, Live, Seen
    <3>2. 1 \in DOMAIN j.ids
      BY <1>4, <3>1
    <3> QED
      BY <3>2 DEF Range
  <2>2. PICK i : i \in lo..n
    BY <1>11, <2>1
  <2> QED
    BY <1>8, <1>9, <2>2
<1>13. \A i \in lo..n : Apart(T[i])
  <2>1. \A i \in lo..n : i \in 1..n
    BY <1>12
  <2> QED
    BY <1>7, <2>1 DEF Ordinary
<1>14. Clear(RowsIn(T, lo, n))
  BY <1>13, RowsApart
<1>15. b.manifest.log = ReportOf(RowsIn(T, lo, n), j)
  BY <1>1, <1>2, <1>3, <1>10, <1>14, CloseFaithful
<1>16. covered_until(T[n]) \in Nat
  <2>1. n \in 1..n
    BY <1>8, <1>12
  <2> QED
    BY <1>7, <2>1 DEF TimeInv, Past, Timed, Fits
<1>17. ReportOf(RowsIn(T, lo, n), j) = Report(T, lo, n)
  BY <1>8, <1>9, <1>12, <1>16, ReportIs
<1> QED
  BY <1>4, <1>7, <1>11, <1>12, <1>15, <1>17

LEMMA TruthfulInit == Init => Truthful
BY DEF Init, Truthful

LEMMA PublishTruth ==
    ASSUME FaithInv, [Next]_vars, proc' = "publish"
    PROVE  FromLive(j.manifest)'
<1>1. PICK m : m = j'.manifest
  OBVIOUS
<1>2. Close \/ (proc = "publish" /\ j' = j)
  <2>1. cur # None => proc = "run"
    BY DEF FaithInv, JournalInv, SessionInv, Types
  <2>2. ~Start /\ ~Connect /\ ~Loop /\ ~GiveUp /\ ~Crash
    BY <2>1 DEF Start, Connect, Loop, GiveUp, Crash
  <2>3. \A kind, d : ~End(kind, d)
    BY DEF End
  <2> QED
    BY <2>2, <2>3 DEF Next, vars, Tick, Stamp, Enqueue, Stage, Deliver, Ensure, Rebuild, JobCrash
<1>3. FromLive(m)
  <2>1. CASE Close
    <3>1. ~j'.failed
      BY <2>1 DEF Close
    <3> QED
      BY <1>1, <2>1, <3>1, CloseTruth DEF FaithInv
  <2>2. CASE proc = "publish" /\ j' = j
    BY <1>1, <2>2 DEF FaithInv, Truthful
  <2> QED
    BY <1>2, <2>1, <2>2
<1>4. FromLive(m)'
  BY <1>3, LiveKept DEF FaithInv, JournalInv
<1> QED
  BY <1>1, <1>4 DEF FromLive, Told

LEMMA StagedTruth ==
    ASSUME FaithInv, [Next]_vars, NEW i \in DOMAIN staged', staged'[i].object = "manifest"
    PROVE  FromLive(staged[i].body)'
<1>1. PICK m : m = staged'[i].body
  OBVIOUS
<1>2. FromLive(m)
  <2>1. CASE staged' = staged
    BY <1>1, <2>1 DEF FaithInv, Truthful
  <2>2. CASE Stage
    <3>1. PICK x, n : /\ n \in 0..3 /\ staged = Objects(x, n) /\ x = j.manifest /\ n < 3
      BY <2>2 DEF FaithInv, JournalInv, Spooled, Stage
    <3>2. Len(staged) = n /\ DOMAIN staged = 1..n
      BY <3>1, ObjectsFacts
    <3>3. PICK t : t = staged'
      OBVIOUS
    <3>4. t = Objects(x, n + 1)
      <4>1. t = Append(Objects(x, n), [object |-> OBJECTS[n + 1], body |-> Body(x, OBJECTS[n + 1])])
        BY <2>2, <3>1, <3>2, <3>3 DEF Stage
      <4> QED
        BY <3>1, <4>1, ObjectsFacts
    <3>5. n + 1 \in 0..3
      BY <3>1
    <3>6. i \in 1..(n + 1)
      <4>1. DOMAIN Objects(x, n + 1) = 1..(n + 1)
        BY <3>5, ObjectsFacts
      <4> QED
        BY <3>3, <3>4, <4>1
    <3>7. t[i].object = OBJECTS[i] /\ t[i].body = Body(x, OBJECTS[i])
      BY <3>4, <3>5, <3>6, ObjectsFacts
    <3>8. m = x
      BY <1>1, <3>3, <3>7, BodyFacts
    <3>9. FromLive(j.manifest)
      BY <2>2 DEF FaithInv, Truthful, Stage
    <3> QED
      BY <3>1, <3>8, <3>9
  <2>3. Stage \/ staged' = staged
    BY DEF Next, vars, Tick, Start, Connect, Stamp, Enqueue, Loop, End, GiveUp, Close, Deliver,
           Crash, Ensure, Rebuild, JobCrash
  <2> QED
    BY <2>1, <2>2, <2>3
<1>3. FromLive(m)'
  BY <1>2, LiveKept DEF FaithInv, JournalInv
<1> QED
  BY <1>1, <1>3 DEF FromLive, Told

LEMMA StoreTruth ==
    ASSUME FaithInv, [Next]_vars, "manifest" \in DOMAIN store'
    PROVE  FromLive(store["manifest"])' \/ FromRebuild(store["manifest"])'
<1>1. PICK m : m = store'["manifest"]
  OBVIOUS
<1>2. FromLive(m) \/ FromRebuild(m)
  <2>1. CASE "manifest" \in DOMAIN store
    <3>1. m = store["manifest"]
      BY <1>1, <2>1, StoreGrows DEF Grows
    <3> QED
      BY <2>1, <3>1 DEF FaithInv, Truthful
  <2>2. CASE Deliver /\ "manifest" \notin DOMAIN store
    <3>1. PICK i \in DOMAIN staged : store' = Put(staged[i].object, staged[i].body)
      BY <2>2 DEF Deliver
    <3>2. PICK o, b : o = staged[i].object /\ b = staged[i].body
      OBVIOUS
    <3>3. DOMAIN store' = DOMAIN store \cup {o} /\ store'[o] = b
      BY <3>1, <3>2, PutFacts
    <3>4. o = "manifest" /\ m = b
      BY <1>1, <2>2, <3>3
    <3> QED
      BY <3>2, <3>4 DEF FaithInv, Truthful
  <2>3. CASE Rebuild /\ "manifest" \notin DOMAIN store
    <3>1. PICK r, b : r = _replay_journal(Certified(day)) /\ b = Body(r.manifest, job)
      OBVIOUS
    <3>2. store' = store \/ store' = Put(job, b)
      BY <2>3, <3>1 DEF Rebuild
    <3>3. DOMAIN store' = DOMAIN store \cup {job} /\ store'[job] = b
      BY <2>3, <3>2, PutFacts
    <3>4. job = "manifest" /\ m = r.manifest
      BY <1>1, <2>3, <3>1, <3>3, BodyFacts
    <3>5. Settled /\ ~r.failed
      BY <3>1, <3>4, ObjectFacts DEF FaithInv, JournalInv, Rebuilding, Settled
    <3> QED
      BY <3>1, <3>4, <3>5 DEF FromRebuild
  <2>4. Deliver \/ Rebuild \/ store' = store
    BY DEF Next, vars, Tick, Start, Connect, Stamp, Enqueue, Loop, End, GiveUp, Close, Stage, Crash,
           Ensure, JobCrash
  <2> QED
    BY <2>1, <2>2, <2>3, <2>4
<1>3. FromLive(m)' \/ FromRebuild(m)'
  BY <1>2, LiveKept, RebuildKept DEF FaithInv, JournalInv
<1> QED
  BY <1>1, <1>3 DEF FromLive, Told, FromRebuild

LEMMA FaithInit == Init => FaithInv
BY JournalInit, TimeInit, HearingInit, TruthfulInit DEF FaithInv

LEMMA FaithStep == FaithInv /\ [Next]_vars => FaithInv'
<1> SUFFICES ASSUME FaithInv, [Next]_vars PROVE FaithInv'
  OBVIOUS
<1>1. SessionInv /\ TimeInv /\ Hearing
  BY DEF FaithInv, JournalInv
<1>2. JournalInv' /\ TimeInv' /\ Hearing'
  BY <1>1, JournalStep, TimeStep, HearingStep DEF FaithInv
<1>3. Truthful'
  BY PublishTruth, StagedTruth, StoreTruth DEF Truthful
<1> QED
  BY <1>2, <1>3 DEF FaithInv

LEMMA FaithReplay == FaithInv => PublishedIsReplay
<1> SUFFICES ASSUME FaithInv, Auditable,
                    store["manifest"].by = "live" => \A i \in DOMAIN day : day[i].kind # "stale",
                    store["manifest"].by = "recovery" => ~StoppedEarly
             PROVE  store["manifest"].log = AuditLog(Certified(day))
  BY DEF PublishedIsReplay
<1>1. PICK m, T, C : m = store["manifest"] /\ T = day /\ C = Certified(T)
  OBVIOUS
<1>2. SessionInv /\ Timed(T) /\ (\A i \in 1..Len(T) : T[i].id[2] = i) /\ DOMAIN T = 1..Len(T)
  <2>1. SessionInv
    BY DEF FaithInv, JournalInv
  <2> QED
    BY <1>1, <2>1, DayParts DEF FaithInv, TimeInv, Past
<1>3. C # <<>> /\ ~Coincides /\ ~missed /\ LineageMatches(m, C)
  BY <1>1 DEF Auditable
<1>4. \A i \in 1..Len(T) : Apart(T[i])
  BY <1>1, <1>2, <1>3 DEF Coincides, Apart, Clear
<1>5. PICK e : Certificate(C, T, e)
  BY <1>1, <1>2, <1>3, CertifiedFacts
<1>6. CASE FromLive(m)
  <2>1. Ordinary
    <3>1. \A i \in 1..Len(T) : T[i].kind # "stale"
      BY <1>1, <1>2, <1>6 DEF FromLive
    <3> QED
      BY <1>1, <1>3, <1>4, <3>1 DEF Ordinary
  <2>2. PICK lo \in 1..Len(T) : \E hi \in lo..Len(T) :
           m.log = Report(T, lo, hi) /\ Range(m.uris) = {T[i].id : i \in lo..hi}
    BY <1>1, <1>6, <2>1 DEF FromLive, Told
  <2>3. PICK hi \in lo..Len(T) :
           m.log = Report(T, lo, hi) /\ Range(m.uris) = {T[i].id : i \in lo..hi}
    BY <2>2
  <2>4. PICK S : S = {s \in Range(T) : s.id \in Range(m.uris)}
    OBVIOUS
  <2>5. PICK D : D = Among(T, S)
    OBVIOUS
  <2>6. Range(C) \subseteq Range(D) /\ \A s \in Range(D) \ Range(C) : s.connected > Closing
    BY <1>1, <1>3, <2>4, <2>5 DEF LineageMatches
  <2>7. Report(T, lo, hi) = AuditLog(C)
    <3>1. \A s : s \in S <=> s \in Range(T) /\ \E i \in lo..hi : s.id = T[i].id
      BY <2>3, <2>4
    <3>2. Accepted(T, lo, hi, C, S, D)
      BY <2>5, <2>6, <3>1 DEF Accepted
    <3>3. Timed(T) /\ \A i \in 1..Len(T) : Apart(T[i]) /\ T[i].id[2] = i
      BY <1>2, <1>4
    <3> QED
      BY <1>5, <3>2, <3>3, LiveIsReplay
  <2> QED
    BY <1>1, <2>3, <2>7
<1>7. CASE FromRebuild(m)
  <2>1. ~_replay_journal(C).failed /\ m = _replay_journal(C).manifest
    BY <1>1, <1>7 DEF FromRebuild
  <2>2. m.by = "recovery"
    <3>1. Readable(C)
      BY <1>1, <1>2, CertifiedReadable
    <3>2. PICK r : r = _replay_journal(C)
      OBVIOUS
    <3>3. r.manifest.by = "recovery"
      BY <2>1, <3>1, <3>2, RebuiltFacts
    <3> QED
      BY <2>1, <3>2, <3>3
  <2>3. \A i \in 1..Len(T) : ~(T[i].kind \in CLEAN /\ T[i].disconnected < Closing)
    BY <1>1, <1>2, <2>2 DEF StoppedEarly
  <2>4. _replay_journal(C).manifest.log = AuditLog(C)
    BY <1>2, <1>4, <1>5, <2>1, <2>3, RebuiltIsReplay
  <2> QED
    BY <1>1, <2>1, <2>4
<1> QED
  BY <1>1, <1>6, <1>7 DEF FaithInv, Truthful, Auditable

(***************************************************************************)
(* The published journal of a certified day is its replay: whatever        *)
(* reconnects, crashes, late callbacks and rebuilds a day sees, and for    *)
(* any number of clocks, rows and sessions, the records the capture        *)
(* service wrote while the day went on (journal.py advance, disconnected,  *)
(* close; stream.py), or a rebuild wrote afterwards (recovery.py), are the *)
(* ones the audit computes from the certified sessions (audit.py).  The    *)
(* cases PublishedIsReplay excepts are excepted here.                      *)
(***************************************************************************)
THEOREM Replayable == Spec => []PublishedIsReplay
<1>1. Init => FaithInv
  BY FaithInit
<1>2. FaithInv /\ [Next]_vars => FaithInv'
  BY FaithStep
<1>3. FaithInv => PublishedIsReplay
  BY FaithReplay
<1> QED
  BY <1>1, <1>2, <1>3, PTL DEF Spec
=============================================================================
