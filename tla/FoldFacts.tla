----------------------------- MODULE FoldFacts -----------------------------
(***************************************************************************)
(* What a fold over a sequence and a sorted sequence are, for every        *)
(* operator: a module that proves something about a fold of its own takes  *)
(* an instance with that operator.                                         *)
(***************************************************************************)
EXTENDS Naturals, SequencesExt, FiniteSetTheorems, TLAPS

CONSTANT Op(_, _)  \* the step of the fold

\* A set of numbers that is not empty has a least one.
LEMMA LeastExists ==
  ASSUME NEW S \in SUBSET Nat, S # {}
  PROVE  \E n \in S : \A m \in S : n <= m
<1> DEFINE less == {ss \in Nat \X Nat : ss[1] < ss[2]}
<1>1. IsWellFoundedOn(less, Nat)
  BY NatLessThanWellFounded DEF OpToRel
<1> HIDE DEF less
<1>2. PICK n \in S : \A m \in S : <<m, n>> \notin less
  BY <1>1, WFMin
<1>3. ASSUME NEW m \in S PROVE n <= m
  <2>1. n \in Nat /\ m \in Nat /\ ~(m < n)
    BY <1>2, <1>3 DEF less
  <2> QED BY <2>1
<1> QED BY <1>3

\* A set of numbers up to n has a greatest one.
LEMMA GreatestExists ==
  ASSUME NEW n \in Nat, NEW S \in SUBSET (1..n), S # {}
  PROVE  Max(S) \in S /\ \A m \in S : m <= Max(S)
<1> DEFINE T == {n - m : m \in S}
<1>1. T \in SUBSET Nat /\ T # {}
  <2>1. \A m \in S : n - m \in Nat
    OBVIOUS
  <2> QED BY <2>1
<1>2. PICK k \in T : \A l \in T : k <= l
  BY <1>1, LeastExists
<1>3. PICK m \in S : k = n - m
  OBVIOUS
<1>4. \A l \in S : m >= l
  BY <1>2, <1>3
<1> QED BY <1>4 DEF Max

\* Induction up to n, over a set.
LEMMA UpTo ==
  ASSUME NEW n \in Nat, NEW S, 0 \in S, \A i \in 0..n : i < n /\ i \in S => i + 1 \in S
  PROVE  \A i \in 0..n : i \in S
<1> SUFFICES ASSUME {i \in 0..n : i \notin S} # {} PROVE FALSE
  OBVIOUS
<1>1. PICK k \in 0..n : k \notin S /\ \A m \in 0..n : m \notin S => k <= m
  <2>1. {i \in 0..n : i \notin S} \in SUBSET Nat
    OBVIOUS
  <2> QED BY <2>1, LeastExists
<1>2. k # 0 /\ k - 1 \in 0..n /\ k - 1 < n /\ k = (k - 1) + 1 /\ ~(k <= k - 1)
  BY <1>1
<1> QED BY <1>1, <1>2

-----------------------------------------------------------------------------
\* The results after each element, the first one before all.
Runs(base, seq, acc) ==
  /\ DOMAIN acc = 0..Len(seq)
  /\ acc[0] = base
  /\ \A i \in 0..Len(seq) : i < Len(seq) => acc[i + 1] = Op(acc[i], seq[i + 1])

\* A fold is the last of its results.
THEOREM FoldRuns ==
  ASSUME NEW T, NEW seq \in Seq(T), NEW base
  PROVE  \E acc : Runs(base, seq, acc) /\ FoldLeft(Op, base, seq) = acc[Len(seq)]
<1> DEFINE n == Len(seq)
           Body(g, s) == IF s = {} THEN base ELSE Op(g[s \ {Max(s)}], seq[Max(s)])
           Folds(k) == \E g : g = [s \in SUBSET (1..k) |-> Body(g, s)]
           iter[s \in SUBSET (1..n)] == IF s = {} THEN base ELSE LET x == Max(s) IN Op(iter[s \ {x}], seq[x])
<1> HIDE DEF iter
<1>1. n \in Nat /\ DOMAIN seq = 1..n
  OBVIOUS
<1>2. Folds(0)
  <2>1. SUBSET (1..0) = {{}}
    OBVIOUS
  <2> DEFINE g == [s \in SUBSET (1..0) |-> base]
  <2>2. g = [s \in SUBSET (1..0) |-> Body(g, s)]
    BY <2>1
  <2> QED BY <2>2
<1>3. ASSUME NEW k \in Nat, Folds(k) PROVE Folds(k + 1)
  <2>1. PICK g : g = [s \in SUBSET (1..k) |-> Body(g, s)]
    BY <1>3
  <2> DEFINE h == [s \in SUBSET (1..(k + 1)) |-> Body(g, s)]
  <2>2. ASSUME NEW s \in SUBSET (1..(k + 1)), s # {} PROVE s \ {Max(s)} \in SUBSET (1..k)
    <3>0. k + 1 \in Nat
      OBVIOUS
    <3>1. Max(s) \in s /\ \A m \in s : m <= Max(s)
      BY <2>2, <3>0, GreatestExists
    <3>2. ASSUME NEW big \in s, \A m \in s : m <= big PROVE s \ {big} \in SUBSET (1..k)
      BY <3>2
    <3> QED BY <3>1, <3>2
  <2>3. ASSUME NEW s \in SUBSET (1..k) PROVE h[s] = g[s]
    <3>1. s \in SUBSET (1..(k + 1))
      OBVIOUS
    <3> QED BY <2>1, <3>1
  <2>4. h = [s \in SUBSET (1..(k + 1)) |-> Body(h, s)]
    <3>1. ASSUME NEW s \in SUBSET (1..(k + 1)) PROVE Body(g, s) = Body(h, s)
      BY <2>2, <2>3, <3>1
    <3> QED BY <3>1
  <2> QED BY <2>4
<1>4. Folds(n)
  <2> HIDE DEF Folds
  <2> DEFINE S == {j \in Nat : Folds(j)}
  <2>1. 0 \in S
    BY <1>2
  <2>2. ASSUME NEW i \in 0..n, i < n, i \in S PROVE i + 1 \in S
    <3>1. i \in Nat /\ i + 1 \in Nat
      OBVIOUS
    <3> QED BY <1>3, <2>2, <3>1
  <2> HIDE DEF S
  <2>3. n \in 0..n /\ \A i \in 0..n : i \in S
    BY <1>1, <2>1, <2>2, UpTo
  <2> QED BY <2>3 DEF S
<1>5. iter = [s \in SUBSET (1..n) |-> IF s = {} THEN base ELSE Op(iter[s \ {Max(s)}], seq[Max(s)])]
  <2>1. \E g : g = [s \in SUBSET (1..n) |-> IF s = {} THEN base ELSE Op(g[s \ {Max(s)}], seq[Max(s)])]
    BY <1>4
  <2> QED BY <2>1 DEF iter
<1>6. FoldLeft(Op, base, seq) = iter[1..n]
  BY <1>1 DEF FoldLeft, MapThenFoldSet, iter
<1> DEFINE acc == [i \in 0..n |-> iter[1..i]]
<1>7. acc[0] = base
  <2>1. 1..0 = {} /\ 0 \in 0..n
    BY <1>1
  <2> QED BY <1>5, <2>1
<1>8. ASSUME NEW i \in 0..n, i < n PROVE acc[i + 1] = Op(acc[i], seq[i + 1])
  <2>1. i + 1 \in 1..n /\ i + 1 \in 1..(i + 1) /\ 1..(i + 1) \in SUBSET (1..n) /\ 1..(i + 1) # {}
    <3>1. i + 1 \in 1..n /\ i + 1 \in 1..(i + 1)
      BY <1>1, <1>8
    <3>2. \A k \in 1..(i + 1) : k \in 1..n
      BY <1>1, <1>8
    <3> QED BY <3>1, <3>2
  <2>2. Max(1..(i + 1)) = i + 1
    <3>1. Max(1..(i + 1)) \in 1..(i + 1) /\ \A m \in 1..(i + 1) : m <= Max(1..(i + 1))
      <4>1. i + 1 \in Nat
        OBVIOUS
      <4> QED BY <2>1, <4>1, GreatestExists
    <3> QED BY <2>1, <3>1
  <2>3. 1..(i + 1) \ {i + 1} = 1..i
    BY <1>1
  <2>4. iter[1..(i + 1)] = Op(iter[1..(i + 1) \ {i + 1}], seq[i + 1])
    BY <1>5, <2>1, <2>2
  <2> QED BY <1>1, <1>8, <2>1, <2>3, <2>4
<1>9. Runs(base, seq, acc) /\ FoldLeft(Op, base, seq) = acc[n]
  BY <1>1, <1>6, <1>7, <1>8 DEF Runs
<1> QED BY <1>9
\* What was folded before one more element.
THEOREM FoldAppend ==
  ASSUME NEW T, NEW seq \in Seq(T), NEW e \in T, NEW base
  PROVE  FoldLeft(Op, base, Append(seq, e)) = Op(FoldLeft(Op, base, seq), e)
<1> DEFINE more == Append(seq, e)
           n == Len(seq)
<1>1. n \in Nat /\ more \in Seq(T) /\ Len(more) = n + 1 /\ more[n + 1] = e /\ \A i \in 1..n : more[i] = seq[i]
  OBVIOUS
<1> HIDE DEF more
<1>2. PICK a : Runs(base, seq, a) /\ FoldLeft(Op, base, seq) = a[n]
  BY FoldRuns
<1>3. PICK b : Runs(base, more, b) /\ FoldLeft(Op, base, more) = b[n + 1]
  BY <1>1, FoldRuns
<1>4. \A i \in 0..n : a[i] = b[i]
  <2> DEFINE S == {i \in 0..n : a[i] = b[i]}
  <2>1. 0 \in S
    BY <1>1, <1>2, <1>3 DEF Runs
  <2>2. ASSUME NEW i \in 0..n, i < n, i \in S PROVE i + 1 \in S
    <3>1. i \in 0..(n + 1) /\ i < n + 1 /\ i + 1 \in 1..n /\ i + 1 \in 0..n
      BY <1>1, <2>2
    <3>2. a[i + 1] = Op(a[i], seq[i + 1]) /\ b[i + 1] = Op(b[i], more[i + 1]) /\ more[i + 1] = seq[i + 1]
      BY <1>1, <1>2, <1>3, <2>2, <3>1 DEF Runs
    <3> QED BY <2>2, <3>1, <3>2
  <2> HIDE DEF S
  <2>3. \A i \in 0..n : i \in S
    BY <1>1, <2>1, <2>2, UpTo
  <2> QED BY <2>3 DEF S
<1>5. b[n + 1] = Op(b[n], more[n + 1])
  <2>1. n \in 0..(n + 1) /\ n < n + 1
    BY <1>1
  <2> QED BY <1>1, <1>3, <2>1 DEF Runs
<1>6. a[n] = b[n]
  BY <1>1, <1>4
<1> QED BY <1>1, <1>2, <1>3, <1>5, <1>6 DEF more

\* Of nothing.
THEOREM FoldNothing ==
  ASSUME NEW base
  PROVE  FoldLeft(Op, base, <<>>) = base
<1>1. <<>> \in Seq({}) /\ Len(<<>>) = 0
  OBVIOUS
<1>2. PICK acc : Runs(base, <<>>, acc) /\ FoldLeft(Op, base, <<>>) = acc[0]
  BY <1>1, FoldRuns
<1> QED BY <1>2 DEF Runs

\* A fold over a finite set stays among what its step stays among.
THEOREM FoldSetIn ==
  ASSUME NEW S, IsFiniteSet(S), NEW T, NEW base \in T,
         \A x \in S, t \in T : Op(x, t) \in T
  PROVE  FoldSet(Op, base, S) \in T
<1> DEFINE One(s) == CHOOSE x \in s : TRUE
           Level(k) == {s \in SUBSET S : Cardinality(s) <= k}
           Body(g, s) == IF s = {} THEN base ELSE Op(One(s), g[s \ {One(s)}])
           Folds(k) == \E g : g = [s \in Level(k) |-> Body(g, s)]
           iter[s \in SUBSET S] == IF s = {} THEN base ELSE LET x == One(s) IN Op(x, iter[s \ {x}])
           n == Cardinality(S)
<1> HIDE DEF iter
<1>1. n \in Nat /\ \A s \in SUBSET S : IsFiniteSet(s) /\ Cardinality(s) \in 0..n
  <2>1. n \in Nat
    BY FS_CardinalityType
  <2>2. ASSUME NEW s \in SUBSET S PROVE IsFiniteSet(s) /\ Cardinality(s) \in 0..n
    <3>1. IsFiniteSet(s) /\ Cardinality(s) <= n
      BY FS_Subset
    <3>2. Cardinality(s) \in Nat
      BY <3>1, FS_CardinalityType
    <3> QED BY <2>1, <3>1, <3>2
  <2> QED BY <2>1, <2>2
<1>2. ASSUME NEW k \in Nat, NEW s \in Level(k + 1), s # {}
      PROVE  One(s) \in s /\ s \ {One(s)} \in Level(k)
  <2>1. One(s) \in s
    BY <1>2
  <2> HIDE DEF One
  <2>2. Cardinality(s \ {One(s)}) = Cardinality(s) - 1
    BY <1>1, <2>1, FS_RemoveElement
  <2>3. Cardinality(s) \in Nat /\ Cardinality(s) <= k + 1 /\ s \ {One(s)} \in SUBSET S
    BY <1>1
  <2> QED BY <2>1, <2>2, <2>3
<1>3. Level(0) = {{}}
  <2>1. ASSUME NEW s \in SUBSET S, Cardinality(s) <= 0 PROVE s = {}
    <3>1. Cardinality(s) = 0
      BY <1>1, <2>1
    <3> QED BY <1>1, <3>1, FS_EmptySet
  <2> QED BY <2>1, FS_EmptySet
<1>4. Folds(0)
  <2> DEFINE g == [s \in Level(0) |-> base]
  <2>1. g = [s \in Level(0) |-> Body(g, s)]
    BY <1>3
  <2> QED BY <2>1
<1>5. ASSUME NEW k \in Nat, Folds(k) PROVE Folds(k + 1)
  <2>1. PICK g : g = [s \in Level(k) |-> Body(g, s)]
    BY <1>5
  <2> DEFINE h == [s \in Level(k + 1) |-> Body(g, s)]
  <2>2. ASSUME NEW s \in Level(k) PROVE h[s] = g[s]
    <3>1. s \in Level(k + 1)
      <4>1. Cardinality(s) \in Nat /\ Cardinality(s) <= k
        BY <1>1
      <4>2. Cardinality(s) <= k + 1
        BY <4>1
      <4> QED BY <4>2
    <3> HIDE DEF Level, Body
    <3>2. g[s] = Body(g, s)
      BY <2>1
    <3> QED BY <3>1, <3>2
  <2>3. ASSUME NEW s \in Level(k + 1) PROVE Body(g, s) = Body(h, s)
    <3>1. CASE s = {}
      BY <3>1
    <3>2. CASE s # {}
      <4>1. s \ {One(s)} \in Level(k)
        BY <1>2, <3>2
      <4> HIDE DEF Level, h, One
      <4>2. h[s \ {One(s)}] = g[s \ {One(s)}]
        BY <2>2, <4>1
      <4> QED BY <3>2, <4>2
    <3> QED BY <3>1, <3>2
  <2>4. h = [s \in Level(k + 1) |-> Body(h, s)]
    <3> HIDE DEF Level, Body
    <3> QED BY <2>3
  <2> QED BY <2>4
<1>6. Folds(n) /\ Level(n) = SUBSET S
  <2>1. Folds(n)
    <3> HIDE DEF Folds
    <3> DEFINE F == {j \in Nat : Folds(j)}
    <3>1. 0 \in F
      BY <1>4
    <3>2. ASSUME NEW i \in 0..n, i < n, i \in F PROVE i + 1 \in F
      BY <1>5, <3>2
    <3> HIDE DEF F
    <3>3. n \in 0..n /\ \A i \in 0..n : i \in F
      BY <1>1, <3>1, <3>2, UpTo
    <3> QED BY <3>3 DEF F
  <2>2. ASSUME NEW s \in SUBSET S PROVE Cardinality(s) <= n
    <3>1. Cardinality(s) \in 0..n
      BY <1>1
    <3> HIDE DEF n
    <3> QED BY <1>1, <3>1
  <2>3. Level(n) = SUBSET S
    BY <2>2
  <2> QED BY <2>1, <2>3
<1>7. iter = [s \in SUBSET S |-> Body(iter, s)]
  <2>1. \E g : g = [s \in SUBSET S |-> Body(g, s)]
    <3> HIDE DEF Level
    <3> QED BY <1>6
  <2> QED BY <2>1 DEF iter
<1>8. FoldSet(Op, base, S) = iter[S]
  BY DEF FoldSet, MapThenFoldSet, iter
<1>9. \A k \in 0..n : \A s \in Level(k) : iter[s] \in T
  <2> DEFINE F == {k \in Nat : \A s \in Level(k) : iter[s] \in T}
  <2>1. 0 \in F
    <3>1. iter[{}] = base
      BY <1>7
    <3> QED BY <1>3, <3>1
  <2>2. ASSUME NEW i \in 0..n, i < n, i \in F PROVE i + 1 \in F
    <3>1. ASSUME NEW s \in Level(i + 1) PROVE iter[s] \in T
      <4>1. CASE s = {}
        BY <1>7, <4>1
      <4>2. CASE s # {}
        <5>1. One(s) \in s /\ s \ {One(s)} \in Level(i) /\ s \in SUBSET S /\ i \in Nat
          <6>1. i \in Nat
            OBVIOUS
          <6> QED BY <1>2, <4>2, <6>1
        <5> HIDE DEF One, Level
        <5>2. iter[s \ {One(s)}] \in T
          BY <2>2, <5>1
        <5>3. iter[s] = Op(One(s), iter[s \ {One(s)}])
          BY <1>7, <4>2, <5>1
        <5> QED BY <5>1, <5>2, <5>3
      <4> QED BY <4>1, <4>2
    <3> HIDE DEF Level
    <3> QED BY <2>2, <3>1
  <2> HIDE DEF F
  <2>3. \A i \in 0..n : i \in F
    BY <1>1, <2>1, <2>2, UpTo
  <2> HIDE DEF Level
  <2> QED BY <2>3 DEF F
<1>10. n \in 0..n /\ S \in Level(n)
  BY <1>1
<1> HIDE DEF Level
<1> QED BY <1>8, <1>9, <1>10
-----------------------------------------------------------------------------
\* A finite set of numbers that is not empty has a greatest one.
LEMMA GreatestOf ==
  ASSUME NEW S \in SUBSET Int, IsFiniteSet(S), S # {}
  PROVE  Max(S) \in S /\ \A x \in S : x <= Max(S)
<1> DEFINE More(x) == {y \in S : y > x}
           T == {Cardinality(More(x)) : x \in S}
<1>1. ASSUME NEW x \in S PROVE IsFiniteSet(More(x)) /\ Cardinality(More(x)) \in Nat
  <2>1. More(x) \in SUBSET S
    OBVIOUS
  <2> QED BY <2>1, FS_Subset, FS_CardinalityType
<1>2. T \in SUBSET Nat /\ T # {}
  BY <1>1
<1>3. PICK k \in T : \A l \in T : k <= l
  BY <1>2, LeastExists
<1>4. PICK x \in S : k = Cardinality(More(x))
  OBVIOUS
<1>5. ASSUME NEW y \in S PROVE y <= x
  <2>1. SUFFICES ASSUME y > x PROVE FALSE
    OBVIOUS
  <2>2. More(y) \in SUBSET More(x) /\ y \in More(x) /\ y \notin More(y)
    <3>1. x \in Int /\ y \in Int /\ \A z \in S : z \in Int /\ (z > y => z > x) /\ ~(y > y)
      BY <2>1
    <3> QED BY <2>1, <3>1
  <2>3. Cardinality(More(y)) <= Cardinality(More(x)) /\ Cardinality(More(y)) # Cardinality(More(x))
    BY <1>1, <2>2, FS_Subset
  <2>4. k <= Cardinality(More(y))
    BY <1>3
  <2> HIDE DEF More
  <2> QED BY <1>1, <1>4, <2>3, <2>4
<1> QED BY <1>5 DEF Max

\* The order of the elements of a set, if Op is a strict one of all of them.
Rank(S) == [i \in 1..Cardinality(S) |-> CHOOSE x \in S : Cardinality({y \in S : Op(y, x)}) = i - 1]

\* Every element stands in one place.
THEOREM RankIsPermutation ==
  ASSUME NEW S, IsFiniteSet(S),
         \A x \in S : ~Op(x, x),
         \A x, y \in S : x # y => Op(x, y) \/ Op(y, x),
         \A x, y, z \in S : Op(x, y) /\ Op(y, z) => Op(x, z)
  PROVE  /\ Cardinality(S) \in Nat
         /\ Rank(S) \in [1..Cardinality(S) -> S]
         /\ \A x \in S : \E i \in 1..Cardinality(S) : Rank(S)[i] = x
         /\ \A i, j \in 1..Cardinality(S) : i < j <=> Op(Rank(S)[i], Rank(S)[j])
<1> DEFINE n == Cardinality(S)
           Less(x) == {y \in S : Op(y, x)}
           at == [x \in S |-> Cardinality(Less(x)) + 1]
<1>1. n \in Nat
  BY FS_CardinalityType
<1>2. ASSUME NEW x \in S PROVE IsFiniteSet(Less(x)) /\ Cardinality(Less(x)) \in 0..(n - 1)
  <2>1. Less(x) \in SUBSET S /\ x \notin Less(x)
    OBVIOUS
  <2>2. IsFiniteSet(Less(x)) /\ Cardinality(Less(x)) <= n /\ Cardinality(Less(x)) # n
    BY <2>1, FS_Subset
  <2>3. Cardinality(Less(x)) \in Nat
    BY <2>2, FS_CardinalityType
  <2> HIDE DEF Less
  <2> QED BY <1>1, <2>2, <2>3
<1>3. ASSUME NEW x \in S, NEW y \in S, Op(x, y) PROVE Cardinality(Less(x)) < Cardinality(Less(y))
  <2>1. Less(x) \in SUBSET Less(y) /\ x \in Less(y) /\ x \notin Less(x)
    BY <1>3
  <2>2. Cardinality(Less(x)) <= Cardinality(Less(y)) /\ Cardinality(Less(x)) # Cardinality(Less(y))
    BY <1>2, <2>1, FS_Subset
  <2> HIDE DEF Less
  <2> QED BY <1>1, <1>2, <2>2
<1>4. at \in [S -> 1..n]
  <2> HIDE DEF Less
  <2> QED BY <1>1, <1>2
<1>5. \A x, y \in S : at[x] = at[y] => x = y
  <2> SUFFICES ASSUME NEW x \in S, NEW y \in S, x # y PROVE at[x] # at[y]
    OBVIOUS
  <2>1. Cardinality(Less(x)) < Cardinality(Less(y)) \/ Cardinality(Less(y)) < Cardinality(Less(x))
    BY <1>3
  <2> HIDE DEF Less
  <2> QED BY <1>1, <1>2, <2>1
<1> HIDE DEF at, Less
<1>6. \A i \in 1..n : \E x \in S : at[x] = i
  <2>1. at \in Injection(S, 1..n)
    BY <1>4, <1>5 DEF Injection, IsInjective
  <2>2. IsFiniteSet(1..n) /\ Cardinality(1..n) = n
    BY <1>1, FS_Interval
  <2>3. at \in Surjection(S, 1..n)
    BY <2>1, <2>2, FS_Injection
  <2> QED BY <2>3 DEF Surjection
<1>7. ASSUME NEW i \in 1..n PROVE Rank(S)[i] \in S /\ at[Rank(S)[i]] = i
  <2>1. PICK x \in S : at[x] = i
    BY <1>6
  <2>2. Cardinality(Less(x)) = i - 1
    BY <1>1, <1>2, <2>1 DEF at
  <2>3. Rank(S)[i] = CHOOSE y \in S : Cardinality(Less(y)) = i - 1
    BY DEF Rank, Less
  <2>4. Rank(S)[i] \in S /\ Cardinality(Less(Rank(S)[i])) = i - 1
    BY <2>2, <2>3
  <2> QED BY <1>1, <2>4 DEF at
<1>8. Rank(S) \in [1..n -> S]
  <2>1. DOMAIN Rank(S) = 1..n /\ Rank(S) = [i \in 1..n |-> Rank(S)[i]]
    BY DEF Rank
  <2> QED BY <1>7, <2>1
<1>9. ASSUME NEW x \in S PROVE at[x] \in 1..n /\ Rank(S)[at[x]] = x
  BY <1>4, <1>5, <1>7
<1>10. ASSUME NEW i \in 1..n, NEW j \in 1..n PROVE i < j <=> Op(Rank(S)[i], Rank(S)[j])
  <2> DEFINE x == Rank(S)[i]
             y == Rank(S)[j]
  <2>1. x \in S /\ y \in S /\ at[x] = i /\ at[y] = j
    BY <1>7
  <2> HIDE DEF x, y
  <2>2. Op(x, y) => i < j
    <3>1. Op(x, y) => Cardinality(Less(x)) < Cardinality(Less(y))
      BY <1>3, <2>1
    <3> QED BY <1>1, <1>2, <2>1, <3>1 DEF at
  <2>3. Op(y, x) => j < i
    <3>1. Op(y, x) => Cardinality(Less(y)) < Cardinality(Less(x))
      BY <1>3, <2>1
    <3> QED BY <1>1, <1>2, <2>1, <3>1 DEF at
  <2>4. x = y => i = j
    BY <2>1
  <2> QED BY <2>1, <2>2, <2>3, <2>4 DEF x, y
<1> QED BY <1>1, <1>8, <1>9, <1>10
=============================================================================
