---------------------------- MODULE SumTheorems ----------------------------
(***************************************************************************)
(* Facts about SumFunctionOnSet, the sum of the values a function takes on *)
(* a finite set: what it is on the empty set, and how it changes when a    *)
(* term is added, removed or replaced.  A fact that failed on some set     *)
(* would fail on a smallest one, which is one term larger than a set on    *)
(* which it holds.                                                         *)
(***************************************************************************)
EXTENDS Integers, FiniteSets, Functions, FiniteSetTheorems, WellFoundedInduction, TLAPS

Some(s) == CHOOSE x \in s : TRUE

IsSum(g, f, S) ==
    g = [s \in SUBSET S |->
            IF s = {} THEN 0
            ELSE f[CHOOSE x \in s : TRUE] + g[s \ {CHOOSE x \in s : TRUE}]]

LEMMA SumUnfolds ==
    ASSUME NEW f, NEW S, NEW h, h = CHOOSE g : IsSum(g, f, S)
    PROVE  SumFunctionOnSet(f, S) = h[S]
BY DEF SumFunctionOnSet, FoldFunctionOnSet, MapThenFoldSet, IsSum

LEMMA SomeMember == \A s : s # {} => Some(s) \in s
BY DEF Some

LEMMA IsSumAt ==
    ASSUME NEW g, NEW f, NEW S, IsSum(g, f, S), NEW s \in SUBSET S
    PROVE  g[s] = IF s = {} THEN 0 ELSE f[Some(s)] + g[s \ {Some(s)}]
BY DEF IsSum, Some

LEMMA IsSumFrom ==
    ASSUME NEW g, NEW f, NEW S, g = [s \in SUBSET S |-> g[s]],
           \A s \in SUBSET S : g[s] = IF s = {} THEN 0 ELSE f[Some(s)] + g[s \ {Some(s)}]
    PROVE  IsSum(g, f, S)
BY DEF IsSum, Some

LEMMA FirstOf == ASSUME NEW B \in SUBSET Nat, B # {} PROVE \E n \in B : \A m \in B : ~(m < n)
<1>1. PICK n \in B : \A m \in B : ~(<<m, n>> \in OpToRel(<, Nat))
  BY NatLessThanWellFounded, WFMin, Zenon
<1> QED
  BY <1>1 DEF OpToRel

\* A finite set without one of its members.
LEMMA Smaller ==
    ASSUME NEW s, IsFiniteSet(s), NEW x \in s
    PROVE  /\ IsFiniteSet(s \ {x}) /\ Cardinality(s) \in Nat
           /\ Cardinality(s \ {x}) \in Nat /\ Cardinality(s \ {x}) = Cardinality(s) - 1
BY FS_RemoveElement, FS_CardinalityType

\* Among the finite sets of C there is one that none is smaller than.
LEMMA SmallestSet ==
    ASSUME NEW C, C # {}, \A s \in C : IsFiniteSet(s)
    PROVE  \E s \in C : \A t \in C : ~(Cardinality(t) < Cardinality(s))
<1>1. \A s \in C : Cardinality(s) \in Nat
  BY FS_CardinalityType
<1>2. PICK B : B = {Cardinality(s) : s \in C}
  OBVIOUS
<1>3. B \in SUBSET Nat /\ B # {}
  BY <1>1, <1>2
<1>4. PICK n \in B : \A m \in B : ~(m < n)
  BY <1>3, FirstOf
<1> QED
  BY <1>2, <1>4

\* The sums of the subsets up to a size.
LEMMA SumsExist ==
    ASSUME NEW f, NEW S, IsFiniteSet(S) PROVE \E g : IsSum(g, f, S)
<1> DEFINE Up(g, n) ==
             /\ g = [s \in SUBSET S |-> g[s]]
             /\ \A s \in SUBSET S : Cardinality(s) <= n =>
                   g[s] = IF s = {} THEN 0 ELSE f[Some(s)] + g[s \ {Some(s)}]
           B == {n \in Nat : ~\E g : Up(g, n)}
<1>0. \A s \in SUBSET S : IsFiniteSet(s) /\ Cardinality(s) \in Nat
  BY FS_Subset, FS_CardinalityType
<1>1. B = {}
  <2> SUFFICES ASSUME B # {} PROVE FALSE
    OBVIOUS
  <2>1. PICK n \in B : \A m \in B : ~(m < n)
    <3>1. B \in SUBSET Nat
      OBVIOUS
    <3> HIDE DEF B
    <3> QED
      BY <3>1, FirstOf
  <2>2. CASE n = 0
    <3>1. PICK g : g = [s \in SUBSET S |-> 0]
      OBVIOUS
    <3>2. \A s \in SUBSET S : Cardinality(s) <= 0 => s = {}
      BY <1>0, FS_EmptySet
    <3>3. Up(g, 0)
      BY <3>1, <3>2
    <3> QED
      BY <2>1, <2>2, <3>3
  <2>3. CASE n # 0
    <3>0. n \in Nat
      BY <2>1
    <3>1. n - 1 \in Nat /\ n - 1 \notin B
      <4>1. n - 1 \in Nat /\ n - 1 < n
        BY <2>3, <3>0
      <4> HIDE DEF B
      <4> QED
        BY <2>1, <4>1
    <3>2. PICK g : Up(g, n - 1)
      BY <3>1
    <3>3. PICK h : h = [s \in SUBSET S |-> IF s = {} \/ Cardinality(s) <= n - 1 THEN g[s]
                                          ELSE f[Some(s)] + g[s \ {Some(s)}]]
      OBVIOUS
    <3>4. ASSUME NEW s \in SUBSET S, Cardinality(s) <= n
          PROVE  h[s] = IF s = {} THEN 0 ELSE f[Some(s)] + h[s \ {Some(s)}]
      <4>1. CASE s = {}
        <5>1. Cardinality(s) <= n - 1
          BY <3>1, <4>1, FS_EmptySet
        <5> QED
          BY <3>2, <3>3, <4>1, <5>1
      <4>2. CASE s # {}
        <5>1. PICK t : t = s \ {Some(s)}
          OBVIOUS
        <5>2. t \in SUBSET S /\ Cardinality(t) <= n - 1 /\ Cardinality(s) \in Nat
          BY <1>0, <2>1, <3>4, <4>2, <5>1, SomeMember, Smaller
        <5>3. h[t] = g[t]
          BY <3>3, <5>2
        <5>4. h[s] = f[Some(s)] + g[t]
          BY <3>2, <3>3, <4>2, <5>1
        <5> QED
          BY <4>2, <5>1, <5>3, <5>4
      <4> QED
        BY <4>1, <4>2
    <3>5. h = [s \in SUBSET S |-> h[s]]
      BY <3>3
    <3>6. Up(h, n)
      BY <3>4, <3>5
    <3> QED
      BY <2>1, <3>6
  <2> QED
    BY <2>2, <2>3
<1>2. Cardinality(S) \in Nat
  BY FS_CardinalityType
<1>3. PICK g : Up(g, Cardinality(S))
  BY <1>1, <1>2
<1>4. \A s \in SUBSET S : Cardinality(s) <= Cardinality(S)
  BY FS_Subset
<1>5. IsSum(g, f, S)
  BY <1>3, <1>4, IsSumFrom
<1> QED
  BY <1>5

\* Sums over two sets agree on the subsets of both.
LEMMA SumsAgree ==
    ASSUME NEW g, NEW h, NEW f, NEW S, NEW T, IsSum(g, f, S), IsSum(h, f, T),
           IsFiniteSet(S), NEW u \in SUBSET S, u \in SUBSET T
    PROVE  g[u] = h[u]
<1> DEFINE C == {s \in SUBSET S : s \in SUBSET T /\ g[s] # h[s]}
<1>1. C = {}
  <2> SUFFICES ASSUME C # {} PROVE FALSE
    OBVIOUS
  <2>1. PICK s \in C : \A t \in C : ~(Cardinality(t) < Cardinality(s))
    <3>1. \A s \in C : IsFiniteSet(s)
      BY FS_Subset
    <3> HIDE DEF C
    <3> QED
      BY <3>1, SmallestSet
  <2>2. s # {}
    BY <2>1, IsSumAt
  <2>3. PICK t : t = s \ {Some(s)}
    OBVIOUS
  <2>4. Cardinality(t) < Cardinality(s) /\ t \in SUBSET S /\ t \in SUBSET T
    BY <2>1, <2>2, <2>3, SomeMember, Smaller, FS_Subset
  <2>5. g[t] = h[t]
    BY <2>1, <2>4
  <2>6. g[s] = f[Some(s)] + g[t]
    BY <2>1, <2>2, <2>3, IsSumAt
  <2>7. h[s] = f[Some(s)] + h[t]
    <3>1. s \in SUBSET T
      BY <2>1
    <3> QED
      BY <2>2, <2>3, <3>1, IsSumAt
  <2> QED
    BY <2>1, <2>5, <2>6, <2>7
<1> QED
  BY <1>1

LEMMA SumEmpty == ASSUME NEW f PROVE SumFunctionOnSet(f, {}) = 0
<1>1. PICK h : h = CHOOSE g : IsSum(g, f, {})
  OBVIOUS
<1>2. IsSum(h, f, {})
  BY <1>1, SumsExist, FS_EmptySet
<1> QED
  BY <1>1, <1>2, SumUnfolds, IsSumAt

LEMMA SumTakes ==
    ASSUME NEW f, NEW S, IsFiniteSet(S), S # {}
    PROVE  SumFunctionOnSet(f, S) = f[Some(S)] + SumFunctionOnSet(f, S \ {Some(S)})
<1>1. PICK T : T = S \ {Some(S)}
  OBVIOUS
<1>2. PICK h, k : h = (CHOOSE g : IsSum(g, f, S)) /\ k = CHOOSE g : IsSum(g, f, T)
  OBVIOUS
<1>3. IsFiniteSet(T) /\ T \in SUBSET S
  BY <1>1, FS_Subset
<1>4. IsSum(h, f, S) /\ IsSum(k, f, T)
  BY <1>2, <1>3, SumsExist
<1>5. h[T] = k[T]
  BY <1>3, <1>4, SumsAgree
<1>6. h[S] = f[Some(S)] + h[T]
  BY <1>1, <1>4, IsSumAt
<1> QED
  BY <1>1, <1>2, <1>5, <1>6, SumUnfolds

LEMMA SumType ==
    ASSUME NEW f, NEW S, IsFiniteSet(S), \A x \in S : f[x] \in Int
    PROVE  SumFunctionOnSet(f, S) \in Int
<1> DEFINE C == {s \in SUBSET S : SumFunctionOnSet(f, s) \notin Int}
<1>1. C = {}
  <2> SUFFICES ASSUME C # {} PROVE FALSE
    OBVIOUS
  <2>1. PICK s \in C : \A t \in C : ~(Cardinality(t) < Cardinality(s))
    <3>1. \A s \in C : IsFiniteSet(s)
      BY FS_Subset
    <3> HIDE DEF C
    <3> QED
      BY <3>1, SmallestSet
  <2>2. s # {}
    BY <2>1, SumEmpty
  <2>3. PICK t : t = s \ {Some(s)}
    OBVIOUS
  <2>4. Some(s) \in S /\ Cardinality(t) < Cardinality(s) /\ t \in SUBSET S /\ IsFiniteSet(s)
    BY <2>1, <2>2, <2>3, SomeMember, Smaller, FS_Subset
  <2>5. SumFunctionOnSet(f, t) \in Int
    BY <2>1, <2>4
  <2>6. SumFunctionOnSet(f, s) = f[Some(s)] + SumFunctionOnSet(f, t)
    BY <2>2, <2>3, <2>4, SumTakes
  <2> QED
    BY <2>1, <2>4, <2>5, <2>6
<1> QED
  BY <1>1

\* Any term may be taken first.
LEMMA SumRemove ==
    ASSUME NEW f, NEW S, IsFiniteSet(S), \A x \in S : f[x] \in Int, NEW x \in S
    PROVE  SumFunctionOnSet(f, S) = f[x] + SumFunctionOnSet(f, S \ {x})
<1> DEFINE C == {s \in SUBSET S :
                   \E y \in s : SumFunctionOnSet(f, s) # f[y] + SumFunctionOnSet(f, s \ {y})}
<1>1. C = {}
  <2> SUFFICES ASSUME C # {} PROVE FALSE
    OBVIOUS
  <2>1. PICK s \in C : \A t \in C : ~(Cardinality(t) < Cardinality(s))
    <3>1. \A s \in C : IsFiniteSet(s)
      BY FS_Subset
    <3> HIDE DEF C
    <3> QED
      BY <3>1, SmallestSet
  <2>2. PICK y \in s : SumFunctionOnSet(f, s) # f[y] + SumFunctionOnSet(f, s \ {y})
    BY <2>1
  <2>3. PICK z : z = Some(s)
    OBVIOUS
  <2>4. IsFiniteSet(s) /\ z \in s /\ s \in SUBSET S
    BY <2>1, <2>2, <2>3, SomeMember, FS_Subset
  <2>5. SumFunctionOnSet(f, s) = f[z] + SumFunctionOnSet(f, s \ {z})
    BY <2>2, <2>3, <2>4, SumTakes
  <2>6. y # z
    BY <2>2, <2>5
  <2>7. PICK t, u, v : t = s \ {z} /\ u = s \ {y} /\ v = (s \ {z}) \ {y}
    OBVIOUS
  <2>8. /\ t \in SUBSET S /\ u \in SUBSET S /\ y \in t /\ z \in u
        /\ Cardinality(t) < Cardinality(s) /\ Cardinality(u) < Cardinality(s)
        /\ v = t \ {y} /\ v = u \ {z} /\ IsFiniteSet(v) /\ v \in SUBSET S
    BY <2>4, <2>6, <2>7, Smaller, FS_Subset
  <2>9. /\ SumFunctionOnSet(f, t) = f[y] + SumFunctionOnSet(f, v)
        /\ SumFunctionOnSet(f, u) = f[z] + SumFunctionOnSet(f, v)
    BY <2>1, <2>8
  <2>10. SumFunctionOnSet(f, v) \in Int /\ f[y] \in Int /\ f[z] \in Int
    BY <2>4, <2>8, SumType
  <2> QED
    BY <2>2, <2>5, <2>7, <2>9, <2>10
<1> QED
  BY <1>1

LEMMA SumAdd ==
    ASSUME NEW f, NEW S, IsFiniteSet(S), NEW x, x \notin S, \A y \in S \cup {x} : f[y] \in Int
    PROVE  SumFunctionOnSet(f, S \cup {x}) = SumFunctionOnSet(f, S) + f[x]
<1>1. PICK T : T = S \cup {x}
  OBVIOUS
<1>2. IsFiniteSet(T) /\ x \in T /\ T \ {x} = S
  BY <1>1, FS_AddElement
<1>3. SumFunctionOnSet(f, S) \in Int
  BY SumType
<1>4. SumFunctionOnSet(f, T) = f[x] + SumFunctionOnSet(f, S)
  BY <1>1, <1>2, SumRemove
<1> QED
  BY <1>1, <1>3, <1>4

LEMMA SumSame ==
    ASSUME NEW f, NEW g, NEW S, IsFiniteSet(S), \A x \in S : f[x] = g[x]
    PROVE  SumFunctionOnSet(f, S) = SumFunctionOnSet(g, S)
<1> DEFINE C == {s \in SUBSET S : SumFunctionOnSet(f, s) # SumFunctionOnSet(g, s)}
<1>1. C = {}
  <2> SUFFICES ASSUME C # {} PROVE FALSE
    OBVIOUS
  <2>1. PICK s \in C : \A t \in C : ~(Cardinality(t) < Cardinality(s))
    <3>1. \A s \in C : IsFiniteSet(s)
      BY FS_Subset
    <3> HIDE DEF C
    <3> QED
      BY <3>1, SmallestSet
  <2>2. s # {}
    BY <2>1, SumEmpty
  <2>3. PICK t : t = s \ {Some(s)}
    OBVIOUS
  <2>4. Some(s) \in S /\ Cardinality(t) < Cardinality(s) /\ t \in SUBSET S /\ IsFiniteSet(s)
    BY <2>1, <2>2, <2>3, SomeMember, Smaller, FS_Subset
  <2>5. SumFunctionOnSet(f, t) = SumFunctionOnSet(g, t)
    BY <2>1, <2>4
  <2>6. /\ SumFunctionOnSet(f, s) = f[Some(s)] + SumFunctionOnSet(f, t)
        /\ SumFunctionOnSet(g, s) = g[Some(s)] + SumFunctionOnSet(g, t)
    BY <2>2, <2>3, <2>4, SumTakes
  <2> QED
    BY <2>1, <2>4, <2>5, <2>6
<1> QED
  BY <1>1

\* One term changes.
LEMMA SumChange ==
    ASSUME NEW f, NEW g, NEW S, IsFiniteSet(S), NEW x \in S,
           \A y \in S : f[y] \in Int /\ g[y] \in Int, \A y \in S : y # x => f[y] = g[y]
    PROVE  SumFunctionOnSet(g, S) = SumFunctionOnSet(f, S) - f[x] + g[x]
<1>1. PICK T : T = S \ {x}
  OBVIOUS
<1>2. IsFiniteSet(T) /\ x \notin T /\ S = T \cup {x}
  BY <1>1, FS_Subset
<1>3. SumFunctionOnSet(f, T) = SumFunctionOnSet(g, T) /\ SumFunctionOnSet(f, T) \in Int
  BY <1>1, <1>2, SumSame, SumType
<1>4. /\ SumFunctionOnSet(f, S) = f[x] + SumFunctionOnSet(f, T)
      /\ SumFunctionOnSet(g, S) = g[x] + SumFunctionOnSet(g, T)
  BY <1>1, SumRemove
<1> QED
  BY <1>3, <1>4

\* What holds of {} and is kept when a member is added holds of every finite set.
LEMMA Building ==
    ASSUME NEW S, IsFiniteSet(S), NEW C, {} \in C,
           \A s \in SUBSET S : \A x \in S : s \in C /\ x \notin s => s \cup {x} \in C
    PROVE  S \in C
<1> DEFINE B == {s \in SUBSET S : s \notin C}
<1>1. B = {}
  <2> SUFFICES ASSUME B # {} PROVE FALSE
    OBVIOUS
  <2>1. PICK s \in B : \A t \in B : ~(Cardinality(t) < Cardinality(s))
    <3>1. \A s \in B : IsFiniteSet(s)
      BY FS_Subset
    <3> HIDE DEF B
    <3> QED
      BY <3>1, SmallestSet
  <2>2. s # {} /\ s \in SUBSET S /\ s \notin C
    BY <2>1
  <2>3. PICK x : x \in s
    BY <2>2
  <2>4. PICK t : t = s \ {x}
    OBVIOUS
  <2>5. t \in SUBSET S /\ Cardinality(t) < Cardinality(s)
    BY <2>2, <2>3, <2>4, Smaller, FS_Subset
  <2>6. t \in C
    BY <2>1, <2>5
  <2>7. t \cup {x} = s /\ x \notin t /\ x \in S
    BY <2>2, <2>3, <2>4
  <2> QED
    BY <2>2, <2>5, <2>6, <2>7
<1> QED
  BY <1>1

\* A bound on every term is one on the sum.
LEMMA SumBounds ==
    ASSUME NEW S, IsFiniteSet(S), NEW a, NEW b, NEW e,
           \A x \in S : a[x] \in Int /\ b[x] \in Int /\ e[x] \in Int /\ 2 * a[x] <= 2 * b[x] + e[x]
    PROVE  2 * SumFunctionOnSet(a, S) <= 2 * SumFunctionOnSet(b, S) + SumFunctionOnSet(e, S)
<1> DEFINE Bounded(s) == 2 * SumFunctionOnSet(a, s) <= 2 * SumFunctionOnSet(b, s) + SumFunctionOnSet(e, s)
           C == {s \in SUBSET S : Bounded(s)}
<1>1. {} \in C
  BY SumEmpty
<1>2. ASSUME NEW s \in SUBSET S, NEW x \in S, s \in C, x \notin s PROVE s \cup {x} \in C
  <2>1. IsFiniteSet(s)
    BY FS_Subset
  <2>2. \A y \in s \cup {x} : a[y] \in Int /\ b[y] \in Int /\ e[y] \in Int
    OBVIOUS
  <2>3. /\ SumFunctionOnSet(a, s \cup {x}) = SumFunctionOnSet(a, s) + a[x]
        /\ SumFunctionOnSet(b, s \cup {x}) = SumFunctionOnSet(b, s) + b[x]
        /\ SumFunctionOnSet(e, s \cup {x}) = SumFunctionOnSet(e, s) + e[x]
    BY <1>2, <2>1, <2>2, SumAdd
  <2>4. PICK i \in Int, k \in Int, l \in Int :
           /\ i = SumFunctionOnSet(a, s) /\ k = SumFunctionOnSet(b, s)
           /\ l = SumFunctionOnSet(e, s)
    BY <2>1, <2>2, SumType
  <2>5. 2 * i <= 2 * k + l
    BY <1>2, <2>4
  <2>6. 2 * (i + a[x]) <= 2 * (k + b[x]) + (l + e[x])
    BY <2>5
  <2> QED
    BY <2>3, <2>4, <2>6
<1>3. S \in C
  <2> HIDE DEF C
  <2> QED
    BY <1>1, <1>2, Building
<1> QED
  BY <1>3

\* Nothing negative adds up to nothing negative.
LEMMA SumNat ==
    ASSUME NEW f, NEW S, IsFiniteSet(S), \A x \in S : f[x] \in Nat
    PROVE  SumFunctionOnSet(f, S) \in Nat
<1> DEFINE C == {s \in SUBSET S : SumFunctionOnSet(f, s) \in Nat}
<1>1. {} \in C
  BY SumEmpty
<1>2. ASSUME NEW s \in SUBSET S, NEW x \in S, s \in C, x \notin s PROVE s \cup {x} \in C
  <2>1. IsFiniteSet(s) /\ \A y \in s \cup {x} : f[y] \in Int
    BY FS_Subset
  <2>2. SumFunctionOnSet(f, s \cup {x}) = SumFunctionOnSet(f, s) + f[x]
    BY <1>2, <2>1, SumAdd
  <2> QED
    BY <1>2, <2>2
<1>3. S \in C
  <2> HIDE DEF C
  <2> QED
    BY <1>1, <1>2, Building
<1> QED
  BY <1>3

\* c is twice a on S.
Twice(S, a, c) == \A x \in S : a[x] \in Int /\ c[x] = a[x] + a[x]

LEMMA SumTwice ==
    ASSUME NEW S, IsFiniteSet(S), NEW a, NEW c, Twice(S, a, c)
    PROVE  SumFunctionOnSet(c, S) = SumFunctionOnSet(a, S) + SumFunctionOnSet(a, S)
<1> DEFINE Doubled(s) == SumFunctionOnSet(c, s) = SumFunctionOnSet(a, s) + SumFunctionOnSet(a, s)
           C == {s \in SUBSET S : Doubled(s)}
<1>1. {} \in C
  BY SumEmpty
<1>2. ASSUME NEW s \in SUBSET S, NEW x \in S, s \in C, x \notin s PROVE s \cup {x} \in C
  <2>1. IsFiniteSet(s)
    BY FS_Subset
  <2>2. \A y \in s \cup {x} : a[y] \in Int /\ c[y] \in Int
    BY DEF Twice
  <2>3. /\ SumFunctionOnSet(a, s \cup {x}) = SumFunctionOnSet(a, s) + a[x]
        /\ SumFunctionOnSet(c, s \cup {x}) = SumFunctionOnSet(c, s) + c[x]
    BY <1>2, <2>1, <2>2, SumAdd
  <2>4. PICK i \in Int : i = SumFunctionOnSet(a, s)
    BY <2>1, <2>2, SumType
  <2>5. c[x] = a[x] + a[x] /\ a[x] \in Int
    BY DEF Twice
  <2>6. (i + i) + (a[x] + a[x]) = (i + a[x]) + (i + a[x])
    BY <2>5
  <2> QED
    BY <1>2, <2>3, <2>4, <2>5, <2>6
<1>3. S \in C
  <2> HIDE DEF C
  <2> QED
    BY <1>1, <1>2, Building
<1> QED
  BY <1>3

\* A cardinality is a sum of ones.
LEMMA SumOnes ==
    ASSUME NEW S, IsFiniteSet(S), NEW f, \A x \in S : f[x] = 1
    PROVE  SumFunctionOnSet(f, S) = Cardinality(S)
<1> DEFINE C == {s \in SUBSET S : SumFunctionOnSet(f, s) = Cardinality(s)}
<1>1. {} \in C
  BY SumEmpty, FS_EmptySet
<1>2. ASSUME NEW s \in SUBSET S, NEW x \in S, s \in C, x \notin s PROVE s \cup {x} \in C
  <2>1. IsFiniteSet(s)
    BY FS_Subset
  <2>2. SumFunctionOnSet(f, s \cup {x}) = SumFunctionOnSet(f, s) + f[x]
    BY <1>2, <2>1, SumAdd
  <2>3. Cardinality(s \cup {x}) = Cardinality(s) + 1
    BY <1>2, <2>1, FS_AddElement
  <2> QED
    BY <1>2, <2>2, <2>3
<1>3. S \in C
  <2> HIDE DEF C
  <2> QED
    BY <1>1, <1>2, Building
<1> QED
  BY <1>3

LEMMA SumJoin ==
    ASSUME NEW S, NEW T, IsFiniteSet(S), IsFiniteSet(T), S \cap T = {}, NEW f,
           \A x \in S \cup T : f[x] \in Int
    PROVE  SumFunctionOnSet(f, S \cup T) = SumFunctionOnSet(f, S) + SumFunctionOnSet(f, T)
<1> DEFINE C == {t \in SUBSET T :
                   SumFunctionOnSet(f, S \cup t) = SumFunctionOnSet(f, S) + SumFunctionOnSet(f, t)}
<1>1. {} \in C
  <2>1. S \cup {} = S /\ SumFunctionOnSet(f, S) \in Int
    BY SumType
  <2> QED
    BY <2>1, SumEmpty
<1>2. ASSUME NEW t \in SUBSET T, NEW x \in T, t \in C, x \notin t PROVE t \cup {x} \in C
  <2>1. PICK u : u = S \cup t
    OBVIOUS
  <2>2. IsFiniteSet(t) /\ IsFiniteSet(u) /\ x \notin u /\ S \cup (t \cup {x}) = u \cup {x}
    BY <1>2, <2>1, FS_Subset, FS_Union
  <2>3. \A y \in u \cup {x} : f[y] \in Int
    BY <2>1
  <2>4. /\ SumFunctionOnSet(f, u \cup {x}) = SumFunctionOnSet(f, u) + f[x]
        /\ SumFunctionOnSet(f, t \cup {x}) = SumFunctionOnSet(f, t) + f[x]
    BY <1>2, <2>1, <2>2, <2>3, SumAdd
  <2>5. SumFunctionOnSet(f, u) = SumFunctionOnSet(f, S) + SumFunctionOnSet(f, t)
    BY <1>2, <2>1
  <2>6. PICK i \in Int, k \in Int : i = SumFunctionOnSet(f, S) /\ k = SumFunctionOnSet(f, t)
    BY <2>2, SumType
  <2>7. (i + k) + f[x] = i + (k + f[x])
    OBVIOUS
  <2>8. SumFunctionOnSet(f, S \cup (t \cup {x})) = SumFunctionOnSet(f, S) + SumFunctionOnSet(f, t \cup {x})
    BY <2>2, <2>4, <2>5, <2>6, <2>7
  <2> QED
    BY <1>2, <2>8
<1>3. T \in C
  <2> HIDE DEF C
  <2> QED
    BY <1>1, <1>2, Building
<1> QED
  BY <1>3

\* The sets F[d] are finite and apart from one another, and g[d] is the sum of f on F[d].
SumsOf(D, F, f, g) ==
    /\ \A d \in D : IsFiniteSet(F[d]) /\ g[d] = SumFunctionOnSet(f, F[d])
    /\ \A d \in D : \A x \in F[d] : f[x] \in Int
    /\ \A d, e \in D : d # e => F[d] \cap F[e] = {}

\* The sum over a union of disjoint sets is the sum of their sums.
LEMMA SumFamily ==
    ASSUME NEW D, IsFiniteSet(D), NEW F, NEW f, NEW g,
           SumsOf(D, F, f, g), NEW T, T = UNION {F[d] : d \in D}
    PROVE  IsFiniteSet(T) /\ SumFunctionOnSet(f, T) = SumFunctionOnSet(g, D)
<1> USE DEF SumsOf
<1> DEFINE U(s) == UNION {F[d] : d \in s}
           C == {s \in SUBSET D : /\ IsFiniteSet(U(s))
                                  /\ SumFunctionOnSet(f, U(s)) = SumFunctionOnSet(g, s)}
<1>1. {} \in C
  <2>1. U({}) = {}
    OBVIOUS
  <2> QED
    BY <2>1, SumEmpty, FS_EmptySet
<1>2. ASSUME NEW s \in SUBSET D, NEW x \in D, s \in C, x \notin s PROVE s \cup {x} \in C
  <2>1. PICK u, v, w : u = U(s) /\ v = F[x] /\ w = U(s \cup {x})
    OBVIOUS
  <2>2. w = u \cup v
    BY <2>1
  <2>3. IsFiniteSet(s) /\ IsFiniteSet(u) /\ IsFiniteSet(v) /\ IsFiniteSet(w)
    BY <1>2, <2>1, <2>2, FS_Subset, FS_Union
  <2>4. u \cap v = {}
    BY <1>2, <2>1
  <2>5. \A y \in u \cup v : f[y] \in Int
    BY <2>1
  <2>6. SumFunctionOnSet(f, w) = SumFunctionOnSet(f, u) + SumFunctionOnSet(f, v)
    BY <2>2, <2>3, <2>4, <2>5, SumJoin
  <2>7. \A d \in D : g[d] \in Int
    BY SumType
  <2>8. SumFunctionOnSet(g, s \cup {x}) = SumFunctionOnSet(g, s) + g[x]
    BY <1>2, <2>3, <2>7, SumAdd
  <2>9. SumFunctionOnSet(f, u) = SumFunctionOnSet(g, s) /\ g[x] = SumFunctionOnSet(f, v)
    BY <1>2, <2>1
  <2>10. SumFunctionOnSet(f, w) = SumFunctionOnSet(g, s \cup {x})
    BY <2>6, <2>8, <2>9
  <2> QED
    BY <2>1, <2>3, <2>10
<1>3. D \in C
  <2> HIDE DEF C
  <2> QED
    BY <1>1, <1>2, Building
<1> QED
  BY <1>3

Tag(d, X) == {<<d, x>> : x \in X}

\* g has the value on <<d, x>> that f has on x.
Renames(d, X, f, g) == \A x \in X : f[x] \in Int /\ g[<<d, x>>] = f[x]

\* Terms may be renamed: here by the pair they form with d.
LEMMA SumTagged ==
    ASSUME NEW X, IsFiniteSet(X), NEW d, NEW f, NEW g,
           Renames(d, X, f, g)
    PROVE  IsFiniteSet(Tag(d, X)) /\ SumFunctionOnSet(g, Tag(d, X)) = SumFunctionOnSet(f, X)
<1> USE DEF Renames, Tag
<1> DEFINE P(s) == Tag(d, s)
           C == {s \in SUBSET X : /\ IsFiniteSet(P(s))
                                  /\ SumFunctionOnSet(g, P(s)) = SumFunctionOnSet(f, s)}
<1>1. {} \in C
  <2>1. P({}) = {}
    OBVIOUS
  <2> QED
    BY <2>1, SumEmpty, FS_EmptySet
<1>2. ASSUME NEW s \in SUBSET X, NEW x \in X, s \in C, x \notin s PROVE s \cup {x} \in C
  <2>1. PICK u, p, w : u = P(s) /\ p = <<d, x>> /\ w = P(s \cup {x})
    OBVIOUS
  <2>2. w = u \cup {p} /\ p \notin u
    BY <1>2, <2>1
  <2>3. IsFiniteSet(s) /\ IsFiniteSet(u) /\ IsFiniteSet(w)
    BY <1>2, <2>1, <2>2, FS_Subset, FS_AddElement
  <2>4. (\A y \in u \cup {p} : g[y] \in Int) /\ g[p] = f[x]
    BY <2>1
  <2>5. /\ SumFunctionOnSet(g, w) = SumFunctionOnSet(g, u) + g[p]
        /\ SumFunctionOnSet(f, s \cup {x}) = SumFunctionOnSet(f, s) + f[x]
    BY <1>2, <2>2, <2>3, <2>4, SumAdd
  <2>6. SumFunctionOnSet(g, u) = SumFunctionOnSet(f, s)
    BY <1>2, <2>1
  <2> QED
    BY <2>1, <2>3, <2>4, <2>5, <2>6
<1>3. X \in C
  <2> HIDE DEF C
  <2> QED
    BY <1>1, <1>2, Building
<1> QED
  BY <1>3

Carried(f, S) == {f[x] : x \in S}

\* f takes every term of a to one of b, no two to the same.
Carries(f, S, a, b) ==
    /\ \A x \in S : a[x] \in Int /\ b[f[x]] = a[x]
    /\ \A x, y \in S : f[x] = f[y] => x = y

LEMMA SumCarried ==
    ASSUME NEW S, IsFiniteSet(S), NEW f, NEW a, NEW b, Carries(f, S, a, b)
    PROVE  IsFiniteSet(Carried(f, S)) /\ SumFunctionOnSet(b, Carried(f, S)) = SumFunctionOnSet(a, S)
<1> USE DEF Carries, Carried
<1> DEFINE P(s) == Carried(f, s)
           C == {s \in SUBSET S : /\ IsFiniteSet(P(s))
                                  /\ SumFunctionOnSet(b, P(s)) = SumFunctionOnSet(a, s)}
<1>1. {} \in C
  <2>1. P({}) = {}
    OBVIOUS
  <2> QED
    BY <2>1, SumEmpty, FS_EmptySet
<1>2. ASSUME NEW s \in SUBSET S, NEW x \in S, s \in C, x \notin s PROVE s \cup {x} \in C
  <2>1. PICK u, p, w : u = P(s) /\ p = f[x] /\ w = P(s \cup {x})
    OBVIOUS
  <2>2. w = u \cup {p} /\ p \notin u
    BY <1>2, <2>1
  <2>3. IsFiniteSet(s) /\ IsFiniteSet(u) /\ IsFiniteSet(w)
    BY <1>2, <2>1, <2>2, FS_Subset, FS_AddElement
  <2>4. (\A y \in u \cup {p} : b[y] \in Int) /\ b[p] = a[x]
    BY <2>1
  <2>5. /\ SumFunctionOnSet(b, w) = SumFunctionOnSet(b, u) + b[p]
        /\ SumFunctionOnSet(a, s \cup {x}) = SumFunctionOnSet(a, s) + a[x]
    BY <1>2, <2>2, <2>3, <2>4, SumAdd
  <2>6. SumFunctionOnSet(b, u) = SumFunctionOnSet(a, s)
    BY <1>2, <2>1
  <2> QED
    BY <2>1, <2>3, <2>4, <2>5, <2>6
<1>3. S \in C
  <2> HIDE DEF C
  <2> QED
    BY <1>1, <1>2, Building
<1> QED
  BY <1>3

\* The pairs of a member of D and a member of its set.
Tagged(D, X) == UNION {Tag(d, X[d]) : d \in D}

\* t[d] is the sum of v[d] on X[d], and f has its values on the pairs.
PairsOf(D, X, f, v, t) ==
    \A d \in D : /\ IsFiniteSet(X[d]) /\ t[d] = SumFunctionOnSet(v[d], X[d])
                 /\ Renames(d, X[d], v[d], f)

LEMMA SumPairs ==
    ASSUME NEW D, IsFiniteSet(D), NEW X, NEW f, NEW v, NEW t, PairsOf(D, X, f, v, t)
    PROVE  /\ IsFiniteSet(Tagged(D, X))
           /\ SumFunctionOnSet(f, Tagged(D, X)) = SumFunctionOnSet(t, D)
<1>1. PICK F : F = [d \in D |-> Tag(d, X[d])]
  OBVIOUS
<1>2. \A d \in D : IsFiniteSet(F[d]) /\ t[d] = SumFunctionOnSet(f, F[d])
  <2> SUFFICES ASSUME NEW d \in D PROVE IsFiniteSet(F[d]) /\ t[d] = SumFunctionOnSet(f, F[d])
    OBVIOUS
  <2>1. PICK S, w : S = X[d] /\ w = v[d]
    OBVIOUS
  <2>2. IsFiniteSet(S) /\ Renames(d, S, w, f) /\ t[d] = SumFunctionOnSet(w, S) /\ F[d] = Tag(d, S)
    BY <1>1, <2>1 DEF PairsOf
  <2> QED
    BY <2>2, SumTagged
<1>3. \A d \in D : \A y \in F[d] : f[y] \in Int
  BY <1>1 DEF PairsOf, Renames, Tag
<1>4. \A d, e \in D : d # e => F[d] \cap F[e] = {}
  BY <1>1 DEF Tag
<1>5. Tagged(D, X) = UNION {F[d] : d \in D}
  BY <1>1 DEF Tagged
<1>6. SumsOf(D, F, f, t)
  BY <1>2, <1>3, <1>4 DEF SumsOf
<1> QED
  BY <1>5, <1>6, SumFamily

LEMMA CountPairs ==
    ASSUME NEW D, IsFiniteSet(D), NEW X, NEW t,
           \A d \in D : IsFiniteSet(X[d]) /\ t[d] = Cardinality(X[d])
    PROVE  IsFiniteSet(Tagged(D, X)) /\ Cardinality(Tagged(D, X)) = SumFunctionOnSet(t, D)
<1>1. PICK f : f = [c \in Tagged(D, X) |-> 1]
  OBVIOUS
<1>2. PICK v : v = [d \in D |-> [x \in X[d] |-> 1]]
  OBVIOUS
<1>3. \A d \in D : IsFiniteSet(X[d]) /\ t[d] = SumFunctionOnSet(v[d], X[d]) /\ Renames(d, X[d], v[d], f)
  <2> SUFFICES ASSUME NEW d \in D
               PROVE  /\ IsFiniteSet(X[d]) /\ t[d] = SumFunctionOnSet(v[d], X[d])
                      /\ Renames(d, X[d], v[d], f)
    OBVIOUS
  <2>1. PICK S, w : S = X[d] /\ w = v[d]
    OBVIOUS
  <2>2. IsFiniteSet(S) /\ t[d] = Cardinality(S)
    BY <2>1
  <2>3. \A x \in S : w[x] = 1
    BY <1>2, <2>1
  <2>4. t[d] = SumFunctionOnSet(w, S)
    BY <2>2, <2>3, SumOnes
  <2>5. \A x \in S : <<d, x>> \in Tagged(D, X)
    BY <2>1 DEF Tagged, Tag
  <2>6. \A x \in S : f[<<d, x>>] = 1
    BY <1>1, <2>5
  <2>7. Renames(d, S, w, f)
    BY <2>3, <2>6 DEF Renames
  <2> QED
    BY <2>1, <2>2, <2>4, <2>7
<1>4. PairsOf(D, X, f, v, t)
  BY <1>3 DEF PairsOf
<1>5. PICK T : T = Tagged(D, X)
  OBVIOUS
<1>6. IsFiniteSet(T) /\ SumFunctionOnSet(f, T) = SumFunctionOnSet(t, D)
  BY <1>4, <1>5, SumPairs
<1>7. \A c \in T : f[c] = 1
  BY <1>1, <1>5
<1>8. SumFunctionOnSet(f, T) = Cardinality(T)
  BY <1>6, <1>7, SumOnes
<1> QED
  BY <1>5, <1>6, <1>8

=============================================================================
