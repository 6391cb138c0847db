----------------------------- MODULE PayrollProofs -----------------------------
(* What payroll reads: the present days and the overtime of any period, for any *)
(* number of days, sessions and stamps.  A sum over a set is a recursive        *)
(* function in the community modules; that there is one, and what it computes,  *)
(* is proved here from the well-foundedness of strict inclusion.                *)
EXTENDS PayrollReads, PresenceProofs
--------------------------------------------------------------------------------
(* Sums over sets, as functions.                                                *)

\* Induction on the subsets of a finite set: what holds of a set as soon as it holds
\* of its strict subsets holds of all of them.
LEMMA SubsetInduction ==
  ASSUME NEW S, IsFiniteSet(S), NEW good,
         \A T \in SUBSET S : (\A U \in SUBSET T : U # T => U \in good) => T \in good
  PROVE  SUBSET S \subseteq good
<1> SUFFICES ASSUME NEW C \in SUBSET S, C \notin good PROVE FALSE OBVIOUS
<1> DEFINE bad == {T \in SUBSET S : T \notin good}
<1>1. bad \subseteq FiniteSubsetsOf(S) /\ bad # {} BY FS_Subset DEF FiniteSubsetsOf
<1>2. IsWellFoundedOn(StrictSubsetOrdering(S), FiniteSubsetsOf(S))
  BY FS_StrictSubsetOrderingWellFounded
<1> HIDE DEF bad
<1>3. PICK B \in bad : \A T \in bad : <<T, B>> \notin StrictSubsetOrdering(S)
  BY <1>1, <1>2, WFMin
<1>4. \A U \in SUBSET B : U # B => U \in good BY <1>3 DEF StrictSubsetOrdering, bad
<1>5. QED BY <1>3, <1>4 DEF bad

\* The function a sum over a set is computed by: it takes one element away at a time.
One(T) == CHOOSE x \in T : TRUE
IsFold(F, f, S) ==
  F = [T \in SUBSET S |-> IF T = {} THEN 0 ELSE f[One(T)] + F[T \ {One(T)}]]

LEMMA OneOf == ASSUME NEW T, T # {} PROVE One(T) \in T
  BY DEF One

\* Two of them over the same summands agree where both are defined.
Folds(F, G, f, S, R) ==
  IsFiniteSet(S) /\ S \subseteq R /\ IsFold(F, f, S) /\ IsFold(G, f, R)

LEMMA FoldsAgree ==
  ASSUME NEW S, NEW R, NEW f, NEW F, NEW G, Folds(F, G, f, S, R)
  PROVE  \A T \in SUBSET S : F[T] = G[T]
<1> USE DEF Folds
<1> DEFINE good == {T \in SUBSET S : F[T] = G[T]}
<1>1. ASSUME NEW T \in SUBSET S, \A U \in SUBSET T : U # T => U \in good
      PROVE  T \in good
  <2>1. CASE T = {} BY <2>1 DEF IsFold
  <2>2. CASE T # {}
    <3> DEFINE c == One(T)
    <3>1. c \in T BY <2>2, OneOf
    <3>2. F[T \ {c}] = G[T \ {c}] BY <1>1, <3>1
    <3>3. F[T] = f[c] + F[T \ {c}] /\ G[T] = f[c] + G[T \ {c}] BY <2>2 DEF IsFold
    <3>4. QED BY <3>1, <3>2, <3>3
  <2>3. QED BY <2>1, <2>2
<1> HIDE DEF good
<1>2. SUBSET S \subseteq good BY <1>1, SubsetInduction
<1>3. QED BY <1>2 DEF good

LEMMA FoldUnique ==
  ASSUME NEW S, IsFiniteSet(S), NEW f, NEW F, NEW G, IsFold(F, f, S), IsFold(G, f, S)
  PROVE  F[S] = G[S]
<1>1. Folds(F, G, f, S, S) BY DEF Folds
<1>2. \A T \in SUBSET S : F[T] = G[T] BY <1>1, FoldsAgree
<1>3. QED BY <1>2

\* The summands outside the set do not matter.
LEMMA FoldOfSame ==
  ASSUME NEW S, NEW f, NEW g, \A x \in S : f[x] = g[x], NEW F, IsFold(F, f, S)
  PROVE  IsFold(F, g, S)
<1>1. \A T \in SUBSET S : T # {} => f[One(T)] = g[One(T)] BY OneOf
<1>2. QED BY <1>1 DEF IsFold

LEMMA FoldExists ==
  ASSUME NEW S, IsFiniteSet(S), NEW f
  PROVE  \E F : IsFold(F, f, S)
<1> DEFINE good == {T \in SUBSET S : \E F : IsFold(F, f, T)}
<1>1. ASSUME NEW T \in SUBSET S, \A U \in SUBSET T : U # T => U \in good
      PROVE  T \in good
  <2> DEFINE fold == [U \in SUBSET T |-> CHOOSE F : IsFold(F, f, U)]
             c    == One(T)
             F    == [U \in SUBSET T |->
                       IF U = T THEN IF T = {} THEN 0 ELSE f[c] + fold[T \ {c}][T \ {c}]
                       ELSE fold[U][U]]
  <2>1. \A U \in SUBSET T : U # T => IsFold(fold[U], f, U)
    <3>1. SUFFICES ASSUME NEW U \in SUBSET T, U # T PROVE IsFold(fold[U], f, U) OBVIOUS
    <3>2. \E H : IsFold(H, f, U) BY <1>1, <3>1
    <3>3. fold[U] = CHOOSE H : IsFold(H, f, U) OBVIOUS
    <3> HIDE DEF fold
    <3>4. QED BY <3>2, <3>3
  <2> HIDE DEF fold
  <2>2. ASSUME NEW U \in SUBSET T
        PROVE  F[U] = IF U = {} THEN 0 ELSE f[One(U)] + F[U \ {One(U)}]
    <3> DEFINE u == One(U)
    <3>1. CASE U = {} /\ U # T BY <2>1, <3>1 DEF IsFold
    <3>2. CASE U = {} /\ U = T BY <3>2
    <3>3. CASE U # {} /\ U = T
      <4>1. u \in T BY <3>3, OneOf
      <4>2. QED BY <3>3, <4>1
    <3>4. CASE U # {} /\ U # T
      <4>1. u \in U BY <3>4, OneOf
      <4>2. fold[U][U] = f[u] + fold[U][U \ {u}]
        BY <2>1, <3>4 DEF IsFold
      <4>3. IsFold(fold[U], f, U) /\ IsFold(fold[U \ {u}], f, U \ {u})
        BY <2>1, <3>4, <4>1
      <4>4. IsFiniteSet(U \ {u}) BY FS_Subset
      <4>5. fold[U \ {u}][U \ {u}] = fold[U][U \ {u}]
        <5>1. PICK V, G, H : V = U \ {u} /\ G = fold[V] /\ H = fold[U] OBVIOUS
        <5>2. IsFold(G, f, V) /\ IsFold(H, f, U) /\ IsFiniteSet(V) /\ V \subseteq U
          BY <4>3, <4>4, <5>1
        <5>3. Folds(G, H, f, V, U) BY <5>2 DEF Folds
        <5>4. \A W \in SUBSET V : G[W] = H[W] BY <5>3, FoldsAgree
        <5>5. QED BY <5>1, <5>4
      <4>6. F[U] = fold[U][U] /\ F[U \ {u}] = fold[U \ {u}][U \ {u}] BY <3>4, <4>1
      <4>7. QED BY <3>4, <4>2, <4>5, <4>6
    <3>5. QED BY <3>1, <3>2, <3>3, <3>4
  <2>3. F = [U \in SUBSET T |-> F[U]] OBVIOUS
  <2> HIDE DEF F
  <2>4. IsFold(F, f, T) BY <2>2, <2>3 DEF IsFold
  <2>5. QED BY <2>4
<1> HIDE DEF good
<1>2. SUBSET S \subseteq good BY <1>1, SubsetInduction
<1>3. S \in good BY <1>2
<1>4. QED BY <1>3 DEF good

\* Taking any element away takes its summand away.
LEMMA FoldRemoves ==
  ASSUME NEW S, IsFiniteSet(S), NEW f, \A x \in S : f[x] \in Int, NEW F, IsFold(F, f, S)
  PROVE  \A T \in SUBSET S :
           /\ F[T] \in Int
           /\ \A x \in T : F[T] = f[x] + F[T \ {x}]
<1> DEFINE good == {T \in SUBSET S :
                      F[T] \in Int /\ \A x \in T : F[T] = f[x] + F[T \ {x}]}
<1>1. ASSUME NEW T \in SUBSET S, \A U \in SUBSET T : U # T => U \in good
      PROVE  T \in good
  <2>1. CASE T = {} BY <2>1 DEF IsFold
  <2>2. CASE T # {}
    <3> DEFINE c == One(T)
    <3>1. c \in T BY <2>2, OneOf
    <3>2. F[T] = f[c] + F[T \ {c}] BY <2>2 DEF IsFold
    <3>3. F[T \ {c}] \in Int BY <1>1, <3>1
    <3>4. F[T] \in Int BY <3>1, <3>2, <3>3
    <3>5. ASSUME NEW x \in T, x # c PROVE F[T] = f[x] + F[T \ {x}]
      <4>1. F[T \ {c}] = f[x] + F[(T \ {c}) \ {x}] BY <1>1, <3>1, <3>5
      <4>2. F[T \ {x}] = f[c] + F[(T \ {x}) \ {c}] BY <1>1, <3>1, <3>5
      <4>3. (T \ {c}) \ {x} = (T \ {x}) \ {c} OBVIOUS
      <4>4. F[(T \ {c}) \ {x}] \in Int BY <1>1, <3>1, <3>5
      <4>5. f[x] \in Int /\ f[c] \in Int BY <3>1
      <4>6. PICK r \in Int : r = F[(T \ {c}) \ {x}] BY <4>4
      <4>7. F[T] = f[c] + (f[x] + r) BY <3>2, <4>1, <4>6
      <4>8. F[T \ {x}] = f[c] + r BY <4>2, <4>3, <4>6
      <4>9. QED BY <4>5, <4>7, <4>8
    <3>6. QED BY <3>2, <3>4, <3>5
  <2>3. QED BY <2>1, <2>2
<1> HIDE DEF good
<1>2. SUBSET S \subseteq good BY <1>1, SubsetInduction
<1>3. QED BY <1>2 DEF good
--------------------------------------------------------------------------------
(* Sums over sets, as PayrollReads takes them.                                  *)

Sum(f, S) == MapThenSumSet(LAMBDA x : f[x], S)

LEMMA SumIsFold ==
  ASSUME NEW S, IsFiniteSet(S), NEW f
  PROVE  \E F : IsFold(F, f, S) /\ Sum(f, S) = F[S]
<1> DEFINE iter == CHOOSE F : IsFold(F, f, S)
<1>1. Sum(f, S) = iter[S] BY DEF Sum, MapThenSumSet, MapThenFoldSet, IsFold, One
<1>2. \E F : IsFold(F, f, S) BY FoldExists
<1>3. IsFold(iter, f, S) BY <1>2
<1>4. QED BY <1>1, <1>3

LEMMA SumOfSame ==
  ASSUME NEW S, IsFiniteSet(S), NEW f, NEW g, \A x \in S : f[x] = g[x]
  PROVE  Sum(f, S) = Sum(g, S)
<1>1. PICK F : IsFold(F, f, S) /\ Sum(f, S) = F[S] BY SumIsFold
<1>2. PICK G : IsFold(G, g, S) /\ Sum(g, S) = G[S] BY SumIsFold
<1>3. IsFold(F, g, S) BY <1>1, FoldOfSame
<1>4. F[S] = G[S] BY <1>2, <1>3, FoldUnique
<1>5. QED BY <1>1, <1>2, <1>4

LEMMA SumStep ==
  ASSUME NEW S, IsFiniteSet(S), NEW f, \A x \in S : f[x] \in Int
  PROVE  /\ Sum(f, S) \in Int
         /\ S = {} => Sum(f, S) = 0
         /\ \A x \in S : Sum(f, S) = f[x] + Sum(f, S \ {x})
<1>1. PICK F : IsFold(F, f, S) /\ Sum(f, S) = F[S] BY SumIsFold
<1>2. F[S] \in Int /\ \A x \in S : F[S] = f[x] + F[S \ {x}]
  <2>1. \A T \in SUBSET S : F[T] \in Int /\ \A x \in T : F[T] = f[x] + F[T \ {x}]
    BY <1>1, FoldRemoves
  <2>2. QED BY <2>1
<1>3. S = {} => F[S] = 0 BY <1>1 DEF IsFold
<1>4. ASSUME NEW x \in S PROVE Sum(f, S \ {x}) = F[S \ {x}]
  <2>1. PICK T : T = S \ {x} OBVIOUS
  <2>2. IsFiniteSet(T) /\ T \subseteq S BY <2>1, FS_Subset
  <2>3. PICK G : IsFold(G, f, T) /\ Sum(f, T) = G[T] BY <2>2, SumIsFold
  <2>4. Folds(G, F, f, T, S) BY <1>1, <2>2, <2>3 DEF Folds
  <2>5. \A U \in SUBSET T : G[U] = F[U] BY <2>4, FoldsAgree
  <2>6. QED BY <2>1, <2>3, <2>5
<1>5. QED BY <1>1, <1>2, <1>3, <1>4

\* Disjoint sets add up.
LEMMA SumSplits ==
  ASSUME NEW A, NEW B, IsFiniteSet(A), IsFiniteSet(B), A \cap B = {},
         NEW f, \A x \in A \cup B : f[x] \in Int
  PROVE  Sum(f, A \cup B) = Sum(f, A) + Sum(f, B)
<1> DEFINE good == {T \in SUBSET B : Sum(f, A \cup T) = Sum(f, A) + Sum(f, T)}
<1>1. ASSUME NEW T \in SUBSET B, \A U \in SUBSET T : U # T => U \in good
      PROVE  T \in good
  <2>1. IsFiniteSet(T) /\ IsFiniteSet(A \cup T) BY FS_Subset, FS_Union
  <2>2. Sum(f, A) \in Int BY SumStep
  <2>3. CASE T = {}
    <3>1. Sum(f, T) = 0 BY <2>1, <2>3, SumStep
    <3>2. A \cup T = A BY <2>3
    <3>3. QED BY <2>2, <3>1, <3>2
  <2>4. CASE T # {}
    <3>1. PICK x \in T : TRUE BY <2>4
    <3>2. PICK U : U = T \ {x} OBVIOUS
    <3>3. (A \cup T) \ {x} = A \cup U BY <3>1, <3>2
    <3>4. Sum(f, A \cup T) = f[x] + Sum(f, A \cup U) BY <2>1, <3>1, <3>3, SumStep
    <3>5. Sum(f, T) = f[x] + Sum(f, U) BY <2>1, <3>1, <3>2, SumStep
    <3>6. Sum(f, A \cup U) = Sum(f, A) + Sum(f, U) BY <1>1, <3>1, <3>2
    <3>7. f[x] \in Int /\ Sum(f, U) \in Int
      <4>1. IsFiniteSet(U) /\ \A y \in U : f[y] \in Int BY <2>1, <3>2, FS_Subset
      <4>2. QED BY <3>1, <4>1, SumStep
    <3>8. Sum(f, A \cup T) = Sum(f, A) + Sum(f, T) BY <2>2, <3>4, <3>5, <3>6, <3>7
    <3>9. QED BY <3>8
  <2>5. QED BY <2>3, <2>4
<1> HIDE DEF good
<1>2. SUBSET B \subseteq good BY <1>1, SubsetInduction
<1>3. B \in good BY <1>2
<1>4. QED BY <1>3 DEF good

LEMMA SumOfZeroes ==
  ASSUME NEW S, IsFiniteSet(S), NEW f, \A x \in S : f[x] = 0
  PROVE  Sum(f, S) = 0
<1> DEFINE good == {T \in SUBSET S : Sum(f, T) = 0}
<1>1. ASSUME NEW T \in SUBSET S, \A U \in SUBSET T : U # T => U \in good
      PROVE  T \in good
  <2>1. IsFiniteSet(T) /\ \A x \in T : f[x] \in Int BY FS_Subset
  <2>2. CASE T = {} BY <2>1, <2>2, SumStep
  <2>3. CASE T # {}
    <3>1. PICK x \in T : TRUE BY <2>3
    <3>2. Sum(f, T) = f[x] + Sum(f, T \ {x}) BY <2>1, <3>1, SumStep
    <3>3. Sum(f, T \ {x}) = 0 BY <1>1, <3>1
    <3>4. QED BY <3>1, <3>2, <3>3
  <2>4. QED BY <2>2, <2>3
<1> HIDE DEF good
<1>2. SUBSET S \subseteq good BY <1>1, SubsetInduction
<1>3. S \in good BY <1>2
<1>4. QED BY <1>3 DEF good

\* A linear bound on every summand is one on the sum.
LEMMA SumBound ==
  ASSUME NEW S, IsFiniteSet(S), NEW f, NEW g,
         \A x \in S : f[x] \in Int /\ g[x] \in Int,
         NEW a \in Int, NEW b \in Int, NEW m \in Int,
         \A x \in S : a * f[x] <= b * g[x] + m
  PROVE  a * Sum(f, S) <= b * Sum(g, S) + m * Cardinality(S)
<1> DEFINE good == {T \in SUBSET S : a * Sum(f, T) <= b * Sum(g, T) + m * Cardinality(T)}
<1>1. ASSUME NEW T \in SUBSET S, \A U \in SUBSET T : U # T => U \in good
      PROVE  T \in good
  <2>1. IsFiniteSet(T) /\ \A x \in T : f[x] \in Int /\ g[x] \in Int BY FS_Subset
  <2>2. CASE T = {}
    <3>1. Sum(f, T) = 0 /\ Sum(g, T) = 0 BY <2>1, <2>2, SumStep
    <3>2. Cardinality(T) = 0 BY <2>2, FS_EmptySet
    <3>3. QED BY <3>1, <3>2
  <2>3. CASE T # {}
    <3>1. PICK x \in T : TRUE BY <2>3
    <3>2. PICK U : U = T \ {x} OBVIOUS
    <3>3. IsFiniteSet(U) /\ U \subseteq T /\ U # T BY <2>1, <3>1, <3>2, FS_Subset
    <3>4. PICK p \in Int, q \in Int, n \in Nat :
            p = Sum(f, U) /\ q = Sum(g, U) /\ n = Cardinality(U)
      <4>1. Sum(f, U) \in Int /\ Sum(g, U) \in Int BY <2>1, <3>3, SumStep
      <4>2. Cardinality(U) \in Nat BY <3>3, FS_CardinalityType
      <4>3. QED BY <4>1, <4>2
    <3>5. Sum(f, T) = f[x] + p /\ Sum(g, T) = g[x] + q
      BY <2>1, <3>1, <3>2, <3>4, SumStep
    <3>6. Cardinality(T) = n + 1
      <4>1. Cardinality(U) = Cardinality(T) - 1 BY <2>1, <3>1, <3>2, FS_RemoveElement
      <4>2. Cardinality(T) \in Nat BY <2>1, FS_CardinalityType
      <4>3. QED BY <3>4, <4>1, <4>2
    <3>7. a * p <= b * q + m * n BY <1>1, <3>3, <3>4
    <3>8. PICK y \in Int, z \in Int : y = f[x] /\ z = g[x] BY <2>1, <3>1
    <3>9. a * y <= b * z + m BY <3>1, <3>8
    <3>10. /\ a * (y + p) = a * y + a * p /\ b * (z + q) = b * z + b * q
           /\ m * (n + 1) = m * n + m
      OBVIOUS
    <3>11. a * (y + p) <= b * (z + q) + m * (n + 1) BY <3>7, <3>9, <3>10
    <3>12. QED BY <3>5, <3>6, <3>8, <3>11
  <2>4. QED BY <2>2, <2>3
<1> HIDE DEF good
<1>2. SUBSET S \subseteq good BY <1>1, SubsetInduction
<1>3. S \in good BY <1>2
<1>4. QED BY <1>3 DEF good
--------------------------------------------------------------------------------
(* Lists in date order.                                                         *)

\* How many days of a set are not after a day.
Rank(S, d) == Cardinality({x \in S : x <= d})

LEMMA RankType ==
  ASSUME NEW S \in SUBSET Int, IsFiniteSet(S), NEW d \in Int
  PROVE  /\ Cardinality(S) \in Nat
         /\ Rank(S, d) \in 0..Cardinality(S)
         /\ d \in S => Rank(S, d) # 0
<1> DEFINE upto == {x \in S : x <= d}
<1>1. IsFiniteSet(upto) /\ Cardinality(upto) <= Cardinality(S) BY FS_Subset
<1>2. Cardinality(upto) \in Nat /\ Cardinality(S) \in Nat BY <1>1, FS_CardinalityType
<1>3. d \in S => upto # {} BY DEF upto
<1>4. Cardinality(upto) = 0 <=> upto = {} BY <1>1, FS_EmptySet
<1> HIDE DEF upto
<1>5. Rank(S, d) = Cardinality(upto) BY DEF Rank, upto
<1>6. QED BY <1>1, <1>2, <1>3, <1>4, <1>5

LEMMA RankGrows ==
  ASSUME NEW S \in SUBSET Int, IsFiniteSet(S), NEW c \in S, NEW d \in S, c < d
  PROVE  Rank(S, c) < Rank(S, d)
<1>1. PICK C, D : C = {x \in S : x <= c} /\ D = {x \in S : x <= d} OBVIOUS
<1>2. IsFiniteSet(D) /\ C \subseteq D /\ C # D
  <2>1. IsFiniteSet(D) BY <1>1, FS_Subset
  <2>2. d \in D /\ d \notin C BY <1>1
  <2>3. \A x \in S : x <= c => x <= d OBVIOUS
  <2>4. QED BY <1>1, <2>1, <2>2, <2>3
<1>3. IsFiniteSet(C) /\ Cardinality(C) <= Cardinality(D) /\ Cardinality(C) # Cardinality(D)
  BY <1>2, FS_Subset
<1>4. Cardinality(C) \in Nat /\ Cardinality(D) \in Nat BY <1>2, <1>3, FS_CardinalityType
<1>5. Rank(S, c) = Cardinality(C) /\ Rank(S, d) = Cardinality(D) BY <1>1 DEF Rank
<1>6. QED BY <1>3, <1>4, <1>5

\* Every position of the list is the rank of one day.
LEMMA RankOnto ==
  ASSUME NEW S \in SUBSET Int, IsFiniteSet(S)
  PROVE  \A i \in 1..Cardinality(S) : \E d \in S : Rank(S, d) = i
<1> DEFINE n    == Cardinality(S)
           rank == [d \in S |-> Rank(S, d)]
<1>1. n \in Nat BY FS_CardinalityType
<1>2. rank \in [S -> 1..n]
  <2>1. \A d \in S : Rank(S, d) \in 1..n BY RankType
  <2>2. QED BY <2>1
<1>3. \A c, d \in S : rank[c] = rank[d] => c = d
  <2>1. ASSUME NEW c \in S, NEW d \in S, c # d PROVE Rank(S, c) # Rank(S, d)
    <3>1. c < d \/ d < c BY <2>1
    <3>2. Rank(S, c) \in Int /\ Rank(S, d) \in Int BY RankType
    <3>3. QED BY <3>1, <3>2, RankGrows
  <2>2. QED BY <2>1
<1>4. rank \in Injection(S, 1..n) BY <1>2, <1>3 DEF Injection, IsInjective
<1>5. IsFiniteSet(1..n) /\ Cardinality(1..n) = n BY <1>1, FS_Interval
<1>6. rank \in Surjection(S, 1..n) BY <1>4, <1>5, FS_Injection
<1>7. \A i \in 1..n : \E d \in S : rank[d] = i BY <1>6 DEF Surjection
<1>8. QED BY <1>7

\* A list that has every day of a set at its rank.
IsList(list, S) ==
  /\ list \in Seq(Int) /\ DOMAIN list = 1..Cardinality(S)
  /\ \A i \in DOMAIN list : list[i] \in S /\ Rank(S, list[i]) = i
  /\ \A d \in S : Rank(S, d) \in DOMAIN list /\ list[Rank(S, d)] = d

LEMMA DateOrder ==
  ASSUME NEW S \in SUBSET Int, IsFiniteSet(S)
  PROVE  IsList(InDateOrder(S), S)
<1>1. PICK list, n : list = InDateOrder(S) /\ n = Cardinality(S) OBVIOUS
<1>2. n \in Nat BY <1>1, FS_CardinalityType
<1>3. list = [i \in 1..n |-> CHOOSE d \in S : Rank(S, d) = i]
  BY <1>1 DEF InDateOrder, Rank
<1>4. \A i \in 1..n : list[i] \in S /\ Rank(S, list[i]) = i
  BY <1>1, <1>3, RankOnto
<1>5. list \in Seq(Int)
  <2>1. list \in [1..n -> Int] BY <1>3, <1>4
  <2>2. QED BY <1>2, <2>1
<1>6. ASSUME NEW d \in S
      PROVE  Rank(S, d) \in 1..n /\ list[Rank(S, d)] = d
  <2>1. Rank(S, d) \in 1..n BY <1>1, RankType
  <2>2. PICK c \in S : c = list[Rank(S, d)] /\ Rank(S, c) = Rank(S, d) BY <1>4, <2>1
  <2>3. ~(c < d) /\ ~(d < c) BY <2>1, <2>2, RankGrows
  <2>4. c = d BY <2>3
  <2>5. QED BY <2>1, <2>2, <2>4
<1>7. QED BY <1>1, <1>3, <1>4, <1>5, <1>6 DEF IsList

\* The list has the days of the set, each once and in order.
LEMMA InOrder ==
  ASSUME NEW S \in SUBSET Int, IsFiniteSet(S), NEW list, IsList(list, S)
  PROVE  /\ Range(list) = S
         /\ \A i, j \in DOMAIN list : i < j => list[i] < list[j]
<1>1. Range(list) = S
  <2>1. Range(list) \subseteq S BY DEF Range, IsList
  <2>2. ASSUME NEW d \in S PROVE d \in Range(list)
    <3>1. Rank(S, d) \in DOMAIN list /\ list[Rank(S, d)] = d BY DEF IsList
    <3>2. QED BY <3>1 DEF Range
  <2>3. QED BY <2>1, <2>2
<1>2. ASSUME NEW i \in DOMAIN list, NEW j \in DOMAIN list, i < j
      PROVE  list[i] < list[j]
  <2>1. /\ list[i] \in S /\ Rank(S, list[i]) = i
        /\ list[j] \in S /\ Rank(S, list[j]) = j
    BY DEF IsList
  <2>2. i \in Int /\ j \in Int
    <3>1. Cardinality(S) \in Nat BY FS_CardinalityType
    <3>2. QED BY <3>1 DEF IsList
  <2>3. PICK c \in S, d \in S : c = list[i] /\ d = list[j] BY <2>1
  <2>4. ~(d < c)
    <3>1. ASSUME d < c PROVE FALSE
      <4>1. Rank(S, d) < Rank(S, c) BY <3>1, RankGrows
      <4>2. QED BY <1>2, <2>1, <2>2, <2>3, <4>1
    <3>2. QED BY <3>1
  <2>5. c # d BY <1>2, <2>1, <2>2, <2>3
  <2>6. QED BY <2>3, <2>4, <2>5
<1>3. QED BY <1>1, <1>2

\* The list of two sets, one before the other, is one list after the other.
LEMMA ListsJoin ==
  ASSUME NEW A \in SUBSET Int, IsFiniteSet(A), NEW B \in SUBSET Int, IsFiniteSet(B),
         \A a \in A, b \in B : a < b
  PROVE  InDateOrder(A \cup B) = InDateOrder(A) \o InDateOrder(B)
<1>1. PICK C, p, q, r : /\ C = A \cup B /\ r = InDateOrder(C)
                        /\ p = InDateOrder(A) /\ q = InDateOrder(B)
  OBVIOUS
<1>2. C \in SUBSET Int /\ IsFiniteSet(C) BY <1>1, FS_Union
<1>3. IsList(p, A) /\ IsList(q, B) /\ IsList(r, C) BY <1>1, <1>2, DateOrder
<1>4. PICK m \in Nat, n \in Nat : m = Cardinality(A) /\ n = Cardinality(B)
  BY FS_CardinalityType
<1>5. Cardinality(C) = m + n
  <2>1. A \cap B = {}
    <3>1. \A x \in A : ~(x < x) OBVIOUS
    <3>2. QED BY <3>1
  <2>2. Cardinality(A \cap B) = 0 BY <2>1, FS_EmptySet
  <2>3. Cardinality(A \cup B) = Cardinality(A) + Cardinality(B) - Cardinality(A \cap B)
    BY FS_Union
  <2>4. QED BY <1>1, <1>4, <2>2, <2>3
<1>6. /\ p \in Seq(Int) /\ DOMAIN p = 1..m /\ q \in Seq(Int) /\ DOMAIN q = 1..n
      /\ r \in Seq(Int) /\ DOMAIN r = 1..(m + n)
  BY <1>3, <1>4, <1>5 DEF IsList
<1>7. ASSUME NEW i \in 1..m PROVE r[i] = p[i]
  <2>1. PICK a \in A : a = p[i] /\ Rank(A, a) = i BY <1>3, <1>6 DEF IsList
  <2>2. {x \in C : x <= a} = {x \in A : x <= a}
    <3>1. \A b \in B : ~(b <= a)
      <4>1. ASSUME NEW b \in B PROVE ~(b <= a)
        <5>1. a < b /\ a \in Int /\ b \in Int OBVIOUS
        <5>2. QED BY <5>1
      <4>2. QED BY <4>1
    <3>2. QED BY <1>1, <3>1
  <2>3. Rank(C, a) = i BY <2>1, <2>2 DEF Rank
  <2>4. r[Rank(C, a)] = a
    <3>1. a \in C BY <1>1
    <3>2. QED BY <1>3, <3>1 DEF IsList
  <2>5. QED BY <2>1, <2>3, <2>4
<1>8. ASSUME NEW i \in 1..n PROVE r[m + i] = q[i]
  <2>1. PICK b \in B : b = q[i] /\ Rank(B, b) = i BY <1>3, <1>6 DEF IsList
  <2>2. PICK D : D = {x \in B : x <= b} OBVIOUS
  <2>3. {x \in C : x <= b} = A \cup D
    <3>1. \A a \in A : a <= b
      <4>1. ASSUME NEW a \in A PROVE a <= b
        <5>1. a < b /\ a \in Int /\ b \in Int OBVIOUS
        <5>2. QED BY <5>1
      <4>2. QED BY <4>1
    <3>2. QED BY <1>1, <2>2, <3>1
  <2>4. Cardinality(A \cup D) = m + i
    <3>1. IsFiniteSet(D) /\ Cardinality(D) = i
      <4>1. IsFiniteSet(D) BY <2>2, FS_Subset
      <4>2. QED BY <2>1, <2>2, <4>1 DEF Rank
    <3>2. A \cap D = {}
      <4>1. \A x \in A : ~(x < x) OBVIOUS
      <4>2. QED BY <2>2, <4>1
    <3>3. Cardinality(A \cap D) = 0 BY <3>2, FS_EmptySet
    <3>4. Cardinality(A \cup D) = Cardinality(A) + Cardinality(D) - Cardinality(A \cap D)
      BY <3>1, FS_Union
    <3>5. QED BY <1>4, <3>1, <3>3, <3>4
  <2>5. Rank(C, b) = m + i BY <2>3, <2>4 DEF Rank
  <2>6. r[Rank(C, b)] = b
    <3>1. b \in C BY <1>1
    <3>2. QED BY <1>3, <3>1 DEF IsList
  <2>7. QED BY <2>1, <2>5, <2>6
<1>9. r = p \o q
  <2>1. Len(p) = m /\ Len(q) = n /\ Len(r) = m + n BY <1>6
  <2>2. PICK s \in Seq(Int) : s = p \o q
    <3>1. p \in Seq(Int) /\ q \in Seq(Int) BY <1>6
    <3>2. p \o q \in Seq(Int) BY <3>1
    <3>3. QED BY <3>2
  <2>3. /\ Len(s) = m + n
        /\ \A i \in 1..(m + n) : s[i] = IF i <= m THEN p[i] ELSE q[i - m]
    BY <1>6, <2>1, <2>2
  <2>4. ASSUME NEW i \in 1..(m + n) PROVE r[i] = s[i]
    <3>1. CASE i <= m
      <4>1. i \in 1..m BY <3>1
      <4>2. QED BY <1>7, <2>3, <3>1, <4>1
    <3>2. CASE i > m
      <4>1. PICK k \in 1..n : i = m + k
        <5>1. i - m \in 1..n /\ i = m + (i - m) BY <3>2
        <5>2. QED BY <5>1
      <4>2. r[i] = q[k] BY <1>8, <4>1
      <4>3. ~(i <= m) /\ i - m = k BY <3>2, <4>1
      <4>4. s[i] = q[i - m] BY <2>3, <4>3
      <4>5. QED BY <4>2, <4>3, <4>4
    <3>3. QED BY <3>1, <3>2
  <2>5. DOMAIN s = 1..(m + n) BY <2>2, <2>3
  <2>6. r = s
    <3>1. r = [i \in 1..(m + n) |-> r[i]] BY <1>6
    <3>2. s = [i \in 1..(m + n) |-> s[i]]
      <4>1. s \in Seq(Int) OBVIOUS
      <4>2. QED BY <2>5, <4>1
    <3>3. QED BY <2>4, <3>1, <3>2
  <2>7. QED BY <2>2, <2>6
<1>10. QED BY <1>1, <1>9
--------------------------------------------------------------------------------
(* Hours.                                                                       *)

\* Hours are the minutes, rounded to the nearest unit and cut off at zero.
LEMMA HoursRound ==
  ASSUME NEW x \in Int
  PROVE  /\ Hours(x) \in Nat
         /\ x <= 0 => Hours(x) = 0
         /\ x > 0 => /\ 2 * MinutesPerHour * Hours(x) <= 2 * HourScale * x + MinutesPerHour
                     /\ 2 * HourScale * x <= 2 * MinutesPerHour * Hours(x) + MinutesPerHour
<1> USE PayrollAssumption
<1>1. CASE x <= 0 BY <1>1 DEF Hours
<1>2. CASE x > 0
  <2>1. x * HourScale \in Nat BY <1>2
  <2>2. 2 * x * HourScale = 2 * HourScale * x OBVIOUS
  <2>3. PICK a \in Nat, b \in Nat \ {0} :
          a = 2 * x * HourScale + MinutesPerHour /\ b = 2 * MinutesPerHour
    BY <2>1
  <2>4. PICK q \in Int : q = a \div b OBVIOUS
  <2>5. b * q <= a /\ a < b * q + b BY <2>4
  <2>6. q >= 0
    <3>1. CASE q < 0
      <4>1. b * q <= -b BY <3>1
      <4>2. QED BY <2>5, <4>1
    <3>2. QED BY <3>1
  <2>7. Hours(x) = q BY <1>2, <2>3, <2>4 DEF Hours
  <2>8. QED BY <1>2, <2>2, <2>3, <2>5, <2>6, <2>7
<1>3. QED BY <1>1, <1>2
--------------------------------------------------------------------------------
(* What payroll reads.                                                          *)

\* A session is dated on a day the rollup is kept for.
DatesKept ==
  /\ \A s \in Live : sessions[s].date \in Days
  /\ \A r \in Requests : pc[r] = "commit" => pending[r].row.date \in Days

LEMMA DatesKeptStep ==
  ASSUME Inv, DatesKept, [Next]_vars
  PROVE  DatesKept'
<1>1. ASSUME NEW r \in Requests, pc'[r] = "commit" PROVE pending'[r].row.date \in Days
  <2>1. CASE UpdateSession(r)
    <3>1. call[r] \in Calls /\ call[r].verb = "correct"
      BY <2>1 DEF UpdateSession, Inv, HandlerState, HandlerStateOf, Busy
    <3>2. call[r].in \in Instants BY <3>1 DEF Calls
    <3>3. Zone \in Zones BY DEF Inv, TypeOK, Zone, Zones
    <3>4. CorrectedRow(r).date \in Days BY <3>2, <3>3 DEF CorrectedRow, Days
    <3>5. pending'[r].row = CorrectedRow(r) BY <2>1, RewriteType DEF Inv, TypeOK
    <3>6. QED BY <3>4, <3>5
  <2>2. CASE pc[r] = "commit" /\ pending'[r] = pending[r] BY <2>2 DEF DatesKept
  <2>3. QED BY <1>1, <2>1, <2>2, PendingKept
<1>2. \A s \in Live' : sessions'[s].date \in Days
  <2>1. sessions \in SessionTable BY DEF Inv, TypeOK, SessionTable
  <2>2. ASSUME NEW r \in Requests, OpenSession(r)
        PROVE  \A s \in Live' : sessions'[s].date \in Days
    <3>1. PICK s \in SessionIds :
            /\ sessions' = [sessions EXCEPT ![s] = NewRow(r)]
            /\ call[r] \in Calls /\ call[r].verb \in {"punch", "kiosk"}
      BY <2>2, OpenSessionWrites
    <3>2. NewRow(r).date \in Days BY <3>1, NewRowDay DEF Inv
    <3>3. QED BY <2>1, <3>1, <3>2 DEF Live, DatesKept, SessionTable
  <2>3. ASSUME NEW r \in Requests, CloseSession(r)
        PROVE  \A s \in Live' : sessions'[s].date \in Days
    <3> DEFINE s   == found[r].id
               row == [sessions[s] EXCEPT !.out = call[r].at]
    <3>1. /\ s \in Live /\ sessions[s] \in SessionRow
          /\ sessions' = [sessions EXCEPT ![s] = row]
      BY <2>3, CloseSessionWrites
    <3>2. row.date = sessions[s].date BY <3>1 DEF SessionRow
    <3> HIDE DEF row, s
    <3>3. QED BY <2>1, <3>1, <3>2 DEF Live, DatesKept, SessionTable
  <2>4. ASSUME NEW r \in Requests, CommitCorrection(r)
        PROVE  \A s \in Live' : sessions'[s].date \in Days
    <3>1. /\ sessions' = [sessions EXCEPT ![call[r].session] = pending[r].row]
          /\ pc[r] = "commit"
      BY <2>4, CommitCorrectionWrites
    <3>2. QED BY <2>1, <3>1 DEF Live, DatesKept, SessionTable
  <2>5. CASE UNCHANGED sessions BY <2>5 DEF Live, DatesKept
  <2>6. QED
    BY <2>2, <2>3, <2>4, <2>5, RecordBreakWrites, QuietStep DEF Writes, tables
<1>3. QED BY <1>1, <1>2 DEF DatesKept

LEMMA DaysType == Days \subseteq Int
<1>1. \A z \in Zones : z \in Int BY ZoneType DEF Zones
<1>2. \A t \in Instants, z \in Zones : BusinessDate(t, z) \in Int
  BY <1>1, InstantsType, BusinessDayType
<1>3. QED BY <1>2 DEF Days

\* A period has finitely many rows.
LEMMA RowsFinite ==
  ASSUME NEW e, NEW from \in Int, NEW to \in Int
  PROVE  /\ RowsBetween(e, from, to) \in SUBSET Int
         /\ IsFiniteSet(RowsBetween(e, from, to))
<1>1. \A d \in RowsBetween(e, from, to) : d \in Int /\ from <= d /\ d <= to
  BY DaysType DEF RowsBetween
<1>2. RowsBetween(e, from, to) \subseteq from .. to BY <1>1
<1>3. QED BY <1>2, FS_Interval, FS_Subset

\* Where presence holds, the rows of a period are the session days in it.
LEMMA RowsAreSessionDays ==
  ASSUME Inv, DatesKept, PresenceMatchesSessions,
         NEW e \in Employees, NEW from \in Days, NEW to \in Days
  PROVE  RowsBetween(e, from, to) = SessionDays(e) \cap (from .. to)
<1>1. \A d \in Days : rollup[e][d] # None <=> d \in SessionDays(e)
  BY DEF PresenceMatchesSessions, SessionDays
<1>2. SessionDays(e) \subseteq Days BY DEF SessionDays, DatesKept
<1>3. \A d \in Days : d \in from .. to <=> from <= d /\ d <= to BY DaysType
<1>4. QED BY <1>1, <1>2, <1>3 DEF RowsBetween

\* Overtime is stamped on a row, and goes away with it.
DebtOnRows ==
  /\ debt \in [Employees -> [Days -> Optional(Stamps)]]
  /\ \A e \in Employees, d \in Days : debt[e][d] # None => rollup[e][d] # None

PayrollInv == PresenceInv /\ DatesKept /\ DebtOnRows

LEMMA InitPayrollInv == PayrollInit => PayrollInv
<1> SUFFICES ASSUME PayrollInit PROVE PayrollInv OBVIOUS
<1>1. Init BY DEF PayrollInit
<1>2. DatesKept BY <1>1 DEF Init, DatesKept, Live
<1>3. DebtOnRows BY DEF PayrollInit, DebtOnRows, Optional
<1>4. QED BY <1>1, <1>2, <1>3, InitPresenceInv DEF PayrollInv

LEMMA PayrollInvStep ==
  ASSUME PayrollInv, CorrectionsUndisturbed, CorrectionsUndisturbed', [PayrollNext]_payrollVars
  PROVE  PayrollInv'
<1>1. [Next]_vars BY DEF PayrollNext, PunchOrCorrect, StampOvertime, payrollVars
<1>2. PresenceInv' BY <1>1, PresenceInvStep DEF PayrollInv
<1>3. DatesKept' BY <1>1, DatesKeptStep DEF PayrollInv, PresenceInv
<1>4. DebtOnRows'
  <2>1. CASE PunchOrCorrect
    BY <2>1 DEF PunchOrCorrect, DebtKept, PayrollInv, DebtOnRows, Optional
  <2>2. ASSUME NEW e \in Employees, NEW d \in Days, StampOvertime(e, d) PROVE DebtOnRows'
    <3>1. rollup' = rollup /\ rollup[e][d] # None BY <2>2 DEF StampOvertime, vars, tables
    <3>2. PICK m \in Stamps : debt' = [debt EXCEPT ![e][d] = m] BY <2>2 DEF StampOvertime
    <3>3. debt' \in [Employees -> [Days -> Optional(Stamps)]]
      BY <3>2 DEF PayrollInv, DebtOnRows, Optional
    <3>4. \A f \in Employees, x \in Days :
            (f = e /\ x = d) \/ debt'[f][x] = debt[f][x]
      BY <3>2 DEF PayrollInv, DebtOnRows
    <3>5. QED BY <3>1, <3>3, <3>4 DEF PayrollInv, DebtOnRows
  <2>3. CASE UNCHANGED payrollVars
    BY <2>3 DEF payrollVars, vars, tables, PayrollInv, DebtOnRows
  <2>4. QED BY <2>1, <2>2, <2>3 DEF PayrollNext
<1>5. QED BY <1>2, <1>3, <1>4 DEF PayrollInv

\* present_days of any period is the list of the employee's session days in it, under
\* the same hypothesis on corrections, whatever the overlay stamps in between.
THEOREM PresentDaysUndisturbed ==
  PayrollSpec /\ []CorrectionsUndisturbed => []PresentDaysAreSessionDays
<1>1. PayrollInv => PresentDaysAreSessionDays
  <2> SUFFICES ASSUME PayrollInv, NEW e \in Employees, NEW from \in Days, NEW to \in Days,
                      NEW days, days = PresentDays(e, from, to)
               PROVE  /\ Range(days) = SessionDays(e) \cap (from .. to)
                      /\ \A i, j \in DOMAIN days : i < j => days[i] < days[j]
    BY DEF PresentDaysAreSessionDays
  <2>1. RowsBetween(e, from, to) = SessionDays(e) \cap (from .. to)
    BY RowsAreSessionDays DEF PayrollInv, PresenceInv
  <2>2. RowsBetween(e, from, to) \in SUBSET Int /\ IsFiniteSet(RowsBetween(e, from, to))
    BY DaysType, RowsFinite
  <2>3. IsList(days, RowsBetween(e, from, to)) BY <2>2, DateOrder DEF PresentDays
  <2>4. QED BY <2>1, <2>2, <2>3, InOrder
<1>2. QED BY <1>1, InitPayrollInv, PayrollInvStep, PTL DEF PayrollSpec

\* A day that still has a session keeps its row and the overtime stamped on it.
THEOREM PresenceAndOvertimeUndisturbed ==
  PayrollSpec /\ []CorrectionsUndisturbed => PresenceAndOvertimeStand
<1> DEFINE Stands ==
      \A e \in Employees, d \in Days :
        d \in SessionDays(e)' =>
          /\ rollup[e][d] # None => rollup'[e][d] # None
          /\ debt[e][d] # None => debt'[e][d] # None
<1>1. ASSUME PayrollInv, PayrollInv', [PayrollNext]_payrollVars PROVE Stands
  <2> SUFFICES ASSUME NEW e \in Employees, NEW d \in Days, d \in SessionDays(e)'
               PROVE  /\ rollup[e][d] # None => rollup'[e][d] # None
                      /\ debt[e][d] # None => debt'[e][d] # None
    OBVIOUS
  <2>1. rollup'[e][d] # None
    BY <1>1 DEF PayrollInv, PresenceInv, PresenceMatchesSessions, SessionDays
  <2>2. debt[e][d] # None => rollup[e][d] # None BY <1>1 DEF PayrollInv, DebtOnRows
  <2>3. CASE PunchOrCorrect BY <2>1, <2>2, <2>3 DEF PunchOrCorrect, DebtKept
  <2>4. CASE UNCHANGED debt BY <2>1, <2>4
  <2>5. ASSUME NEW f \in Employees, NEW x \in Days, StampOvertime(f, x)
        PROVE  debt[e][d] # None => debt'[e][d] # None
    <3>1. PICK m \in Stamps : debt' = [debt EXCEPT ![f][x] = m] BY <2>5 DEF StampOvertime
    <3>2. debt'[e][d] = m \/ debt'[e][d] = debt[e][d]
      BY <1>1, <3>1 DEF PayrollInv, DebtOnRows
    <3>3. m # None BY PayrollAssumption, NoneAssumption
    <3>4. QED BY <3>2, <3>3
  <2>6. QED BY <1>1, <2>1, <2>3, <2>4, <2>5 DEF PayrollNext, payrollVars
<1>2. PayrollInv /\ PayrollInv' /\ [PayrollNext]_payrollVars => [Stands]_payrollVars
  BY <1>1
<1> HIDE DEF Stands
<1>3. PayrollSpec /\ []CorrectionsUndisturbed => [][Stands]_payrollVars
  BY <1>2, InitPayrollInv, PayrollInvStep, PTL DEF PayrollSpec
<1>4. QED BY <1>3 DEF Stands, PresenceAndOvertimeStand
--------------------------------------------------------------------------------
(* Two consumers of one period, and periods that meet.                          *)

\* Every overtime figure is a number, whatever races on the rollup.
DebtType == debt \in [Employees -> [Days -> Optional(Int)]]

THEOREM DebtAlwaysTyped == PayrollSpec => []DebtType
<1>1. PayrollInit => DebtType BY DEF PayrollInit, DebtType, Optional
<1>2. DebtType /\ [PayrollNext]_payrollVars => DebtType'
  <2> SUFFICES ASSUME DebtType, [PayrollNext]_payrollVars PROVE DebtType' OBVIOUS
  <2>1. CASE PunchOrCorrect
    <3>1. \A e \in Employees, d \in Days : debt[e][d] \in Optional(Int) BY DEF DebtType
    <3>2. QED BY <2>1, <3>1 DEF PunchOrCorrect, DebtKept, DebtType, Optional
  <2>2. ASSUME NEW e \in Employees, NEW d \in Days, StampOvertime(e, d) PROVE DebtType'
    BY <2>2, PayrollAssumption DEF StampOvertime, DebtType, Optional
  <2>3. CASE UNCHANGED payrollVars BY <2>3 DEF payrollVars, DebtType
  <2>4. QED BY <2>1, <2>2, <2>3 DEF PayrollNext
<1>3. QED BY <1>1, <1>2, PTL DEF PayrollSpec

LEMMA MinutesType ==
  ASSUME DebtType, NEW e \in Employees, NEW d \in Days PROVE Minutes(e, d) \in Int
  BY DEF DebtType, Minutes, Optional

\* The function SumOfMinutes is computed by.
IsMinutes(F, e, S) ==
  F = [T \in SUBSET S |-> IF T = {} THEN 0 ELSE Minutes(e, One(T)) + F[T \ {One(T)}]]

\* A period: its rows, and what each day has in minutes and in hours.
IsPeriod(e, from, to, rows, mins, hrs) ==
  /\ rows = RowsBetween(e, from, to)
  /\ mins = [d \in Days |-> Minutes(e, d)]
  /\ hrs = [d \in Days |-> Hours(Minutes(e, d))]

\* The sum of a period's minutes and the total of its stretches, as sums over its rows.
LEMMA PeriodSums ==
  ASSUME DebtType, NEW e \in Employees, NEW from \in Int, NEW to \in Int,
         NEW rows, NEW mins, NEW hrs, IsPeriod(e, from, to, rows, mins, hrs)
  PROVE  /\ IsFiniteSet(rows) /\ rows \subseteq Days
         /\ \A d \in rows : mins[d] \in Int /\ hrs[d] \in Int
         /\ SumOfMinutes(e, rows) = Sum(mins, rows)
         /\ Total(OvertimeStretches(e, from, to)) = Sum(hrs, rows)
<1> USE DEF IsPeriod
<1>1. IsFiniteSet(rows) /\ rows \subseteq Days BY RowsFinite DEF RowsBetween
<1>2. \A d \in Days : mins[d] = Minutes(e, d) /\ hrs[d] = Hours(Minutes(e, d)) OBVIOUS
<1>3. \A d \in Days : mins[d] \in Int /\ hrs[d] \in Int
  BY <1>2, MinutesType, HoursRound
<1>4. SumOfMinutes(e, rows) = Sum(mins, rows)
  <2> DEFINE iter == CHOOSE F : IsMinutes(F, e, rows)
  <2>1. PICK F : IsFold(F, mins, rows) /\ Sum(mins, rows) = F[rows] BY <1>1, SumIsFold
  <2>2. SumOfMinutes(e, rows) = iter[rows]
    BY DEF SumOfMinutes, MapThenSumSet, MapThenFoldSet, IsMinutes, One
  <2>3. \A G : IsMinutes(G, e, rows) <=> IsFold(G, mins, rows)
    <3>1. \A T \in SUBSET rows : T # {} => mins[One(T)] = Minutes(e, One(T))
      BY <1>1, <1>2, OneOf
    <3>2. QED BY <3>1 DEF IsMinutes, IsFold
  <2>4. IsMinutes(iter, e, rows) BY <2>1, <2>3
  <2>5. IsFold(iter, mins, rows) BY <2>3, <2>4
  <2> HIDE DEF iter
  <2>6. iter[rows] = F[rows] BY <1>1, <2>1, <2>5, FoldUnique
  <2>7. QED BY <2>1, <2>2, <2>6
<1>5. Total(OvertimeStretches(e, from, to)) = Sum(hrs, rows)
  <2>1. PICK s : s = OvertimeStretches(e, from, to) OBVIOUS
  <2>2. PICK some, none : /\ some = {d \in rows : Hours(Minutes(e, d)) > 0}
                          /\ none = rows \ some
    OBVIOUS
  <2>3. DOMAIN s = some /\ \A d \in some : s[d] = hrs[d]
    BY <1>1, <1>2, <2>1, <2>2 DEF OvertimeStretches
  <2>4. IsFiniteSet(some) /\ IsFiniteSet(none) BY <1>1, <2>2, FS_Subset
  <2>5. Total(s) = Sum(s, some) BY <2>3 DEF Total, Sum
  <2>6. Sum(s, some) = Sum(hrs, some) BY <2>3, <2>4, SumOfSame
  <2>7. Sum(hrs, none) = 0
    <3>1. \A d \in none : hrs[d] = 0
      <4>1. ASSUME NEW d \in none PROVE hrs[d] = 0
        <5>1. d \in Days /\ ~(hrs[d] > 0) BY <1>1, <1>2, <2>2
        <5>2. hrs[d] \in Nat BY <1>2, <5>1, MinutesType, HoursRound
        <5>3. QED BY <5>1, <5>2
      <4>2. QED BY <4>1
    <3>2. QED BY <2>4, <3>1, SumOfZeroes
  <2>8. Sum(hrs, some \cup none) = Sum(hrs, some) + Sum(hrs, none)
    <3>1. some \cap none = {} /\ \A d \in some \cup none : hrs[d] \in Int
      BY <1>1, <1>3, <2>2
    <3>2. QED BY <2>4, <3>1, SumSplits
  <2>9. some \cup none = rows BY <2>2
  <2>10. Sum(hrs, some) \in Int
    <3>1. \A d \in some : hrs[d] \in Int BY <1>1, <1>3, <2>2
    <3>2. QED BY <2>4, <3>1, SumStep
  <2>11. Sum(hrs, rows) = Sum(hrs, some)
    <3>1. Sum(hrs, rows) = Sum(hrs, some \cup none) BY <2>9, Zenon
    <3>2. QED BY <2>7, <2>8, <2>10, <3>1
  <2>12. QED BY <2>1, <2>5, <2>6, <2>11
<1>6. QED BY <1>1, <1>3, <1>4, <1>5

OvertimeAddsUpFor(e, from, to) ==
  LET rows     == RowsBetween(e, from, to)
      daily    == OvertimeStretches(e, from, to)
      rounding == Cardinality(rows) + 1
  IN  /\ \A d \in DOMAIN daily : daily[d] > 0
      /\ OvertimeHours(e, from, to) >= 0
      /\ OvertimeHours(e, from, to) <= Total(daily) + rounding
      /\ (\A d \in rows : Minutes(e, d) >= 0) =>
           Total(daily) <= OvertimeHours(e, from, to) + rounding

LEMMA OvertimeAgrees ==
  ASSUME DebtType, NEW e \in Employees, NEW from \in Int, NEW to \in Int
  PROVE  OvertimeAddsUpFor(e, from, to)
<1>1. PICK rows, mins, hrs : IsPeriod(e, from, to, rows, mins, hrs) BY DEF IsPeriod
<1>2. /\ IsFiniteSet(rows) /\ rows \subseteq Days
      /\ \A d \in rows : mins[d] \in Int /\ hrs[d] \in Int
      /\ SumOfMinutes(e, rows) = Sum(mins, rows)
      /\ Total(OvertimeStretches(e, from, to)) = Sum(hrs, rows)
  BY <1>1, PeriodSums
<1>3. PICK n \in Nat, x \in Int, t \in Int :
        n = Cardinality(rows) /\ x = Sum(mins, rows) /\ t = Sum(hrs, rows)
  <2>1. Cardinality(rows) \in Nat BY <1>2, FS_CardinalityType
  <2>2. Sum(mins, rows) \in Int /\ Sum(hrs, rows) \in Int BY <1>2, SumStep
  <2>3. QED BY <2>1, <2>2
<1>4. PICK h \in Nat : h = Hours(x) BY <1>3, HoursRound
<1>5. OvertimeHours(e, from, to) = h BY <1>1, <1>2, <1>3, <1>4 DEF OvertimeHours, IsPeriod
<1>6. PICK m \in Nat \ {0}, k \in Nat : m = MinutesPerHour /\ k = HourScale
  BY PayrollAssumption
<1>7. ASSUME NEW d \in rows
      PROVE  /\ (2 * k) * mins[d] <= (2 * m) * hrs[d] + m
             /\ mins[d] >= 0 => (2 * m) * hrs[d] <= (2 * k) * mins[d] + m
  <2>1. PICK y \in Int, z \in Nat : y = mins[d] /\ z = hrs[d] /\ z = Hours(y)
    <3>1. d \in Days /\ mins[d] = Minutes(e, d) /\ hrs[d] = Hours(Minutes(e, d))
      BY <1>1, <1>2 DEF IsPeriod
    <3>2. QED BY <3>1, MinutesType, HoursRound
  <2>2. CASE y > 0
    <3>1. 2 * m * z <= 2 * k * y + m /\ 2 * k * y <= 2 * m * z + m
      BY <1>6, <2>1, <2>2, HoursRound
    <3>2. QED BY <2>1, <3>1
  <2>3. CASE y <= 0
    <3>1. z = 0 BY <2>1, <2>3, HoursRound
    <3>2. k * y <= 0 BY <2>3
    <3>3. y >= 0 => y = 0 BY <2>3
    <3>4. (2 * k) * y <= (2 * m) * z + m BY <3>1, <3>2
    <3>5. y >= 0 => (2 * m) * z <= (2 * k) * y + m BY <3>1, <3>3
    <3>6. QED BY <2>1, <3>4, <3>5
  <2>4. QED BY <2>2, <2>3
<1>8. h <= t + (n + 1)
  <2>1. (2 * k) * x <= (2 * m) * t + m * n
    <3>1. 2 * k \in Int /\ 2 * m \in Int /\ m \in Int OBVIOUS
    <3>2. (2 * k) * Sum(mins, rows) <= (2 * m) * Sum(hrs, rows) + m * Cardinality(rows)
      BY <1>2, <1>7, <3>1, SumBound
    <3>3. QED BY <1>3, <3>2
  <2>2. t >= 0
    <3>1. \A d \in rows : hrs[d] \in Nat
      BY <1>1, <1>2, MinutesType, HoursRound DEF IsPeriod
    <3>2. PICK a \in Int, b \in Int : a = -1 /\ b = 0 OBVIOUS
    <3>3. \A d \in rows : a * hrs[d] <= b * hrs[d] + b BY <3>1, <3>2
    <3>4. a * Sum(hrs, rows) <= b * Sum(hrs, rows) + b * Cardinality(rows)
      BY <1>2, <3>3, SumBound
    <3>5. QED BY <1>3, <3>2, <3>4
  <2>3. CASE x <= 0 BY <1>3, <1>4, <2>2, <2>3, HoursRound
  <2>4. CASE x > 0
    <3>1. 2 * m * h <= 2 * k * x + m BY <1>4, <1>6, <2>4, HoursRound
    <3>2. m * (2 * h) <= m * (2 * t + n + 1) BY <2>1, <3>1
    <3>3. 2 * h <= 2 * t + n + 1 BY <3>2
    <3>4. QED BY <3>3
  <2>5. QED BY <2>3, <2>4
<1>9. (\A d \in rows : Minutes(e, d) >= 0) => t <= h + (n + 1)
  <2> SUFFICES ASSUME \A d \in rows : Minutes(e, d) >= 0 PROVE t <= h + (n + 1) OBVIOUS
  <2>1. \A d \in rows : mins[d] >= 0 BY <1>1, <1>2 DEF IsPeriod
  <2>2. (2 * m) * t <= (2 * k) * x + m * n
    <3>1. 2 * k \in Int /\ 2 * m \in Int /\ m \in Int OBVIOUS
    <3>2. (2 * m) * Sum(hrs, rows) <= (2 * k) * Sum(mins, rows) + m * Cardinality(rows)
      BY <1>2, <1>7, <2>1, <3>1, SumBound
    <3>3. QED BY <1>3, <3>2
  <2>3. CASE x <= 0
    <3>1. k * x <= 0 BY <2>3
    <3>2. m * (2 * t) <= m * n BY <2>2, <3>1
    <3>3. 2 * t <= n BY <3>2
    <3>4. QED BY <3>3
  <2>4. CASE x > 0
    <3>1. 2 * k * x <= 2 * m * h + m BY <1>4, <1>6, <2>4, HoursRound
    <3>2. m * (2 * t) <= m * (2 * h + n + 1) BY <2>2, <3>1
    <3>3. 2 * t <= 2 * h + n + 1 BY <3>2
    <3>4. QED BY <3>3
  <2>5. QED BY <2>3, <2>4
<1>10. QED BY <1>1, <1>2, <1>3, <1>5, <1>8, <1>9 DEF OvertimeAddsUpFor, OvertimeStretches, IsPeriod

\* The two readings of a period's overtime agree but for the rounding, in any period,
\* and whatever punches and corrections race on the rows.
THEOREM OvertimeAlwaysAddsUp == PayrollSpec => []OvertimeAddsUp
<1>1. DebtType => OvertimeAddsUp
  <2> SUFFICES ASSUME DebtType, NEW e \in Employees, NEW from \in Days, NEW to \in Days
               PROVE  OvertimeAddsUpFor(e, from, to)
    BY DEF OvertimeAddsUp, OvertimeAddsUpFor
  <2>1. from \in Int /\ to \in Int BY DaysType
  <2>2. QED BY <2>1, OvertimeAgrees
<1>2. QED BY <1>1, DebtAlwaysTyped, PTL

LEMMA PeriodsJoin ==
  ASSUME DebtType, NEW e \in Employees, NEW from \in Int, NEW mid \in Int, NEW to \in Int,
         from <= mid, mid <= to
  PROVE  /\ PresentDays(e, from, to) =
              PresentDays(e, from, mid) \o PresentDays(e, mid + 1, to)
         /\ Total(OvertimeStretches(e, from, to)) =
              Total(OvertimeStretches(e, from, mid)) + Total(OvertimeStretches(e, mid + 1, to))
<1>1. PICK rows, fst, snd, mins, hrs :
        /\ IsPeriod(e, from, to, rows, mins, hrs)
        /\ IsPeriod(e, from, mid, fst, mins, hrs)
        /\ IsPeriod(e, mid + 1, to, snd, mins, hrs)
  BY DEF IsPeriod
<1>2. \A d \in Days : d \in Int BY DaysType
<1>3. /\ rows = fst \cup snd /\ \A a \in fst, b \in snd : a < b
      /\ fst \cap snd = {}
  BY <1>1, <1>2 DEF IsPeriod, RowsBetween
<1>4. mid + 1 \in Int OBVIOUS
<1>5. /\ fst \in SUBSET Int /\ IsFiniteSet(fst) /\ snd \in SUBSET Int /\ IsFiniteSet(snd)
  BY <1>1, <1>4, RowsFinite DEF IsPeriod
<1>6. InDateOrder(fst \cup snd) = InDateOrder(fst) \o InDateOrder(snd)
  BY <1>3, <1>5, ListsJoin
<1>7. /\ \A d \in fst \cup snd : hrs[d] \in Int
      /\ Total(OvertimeStretches(e, from, to)) = Sum(hrs, rows)
      /\ Total(OvertimeStretches(e, from, mid)) = Sum(hrs, fst)
      /\ Total(OvertimeStretches(e, mid + 1, to)) = Sum(hrs, snd)
  BY <1>1, <1>3, <1>4, PeriodSums
<1>8. Sum(hrs, fst \cup snd) = Sum(hrs, fst) + Sum(hrs, snd)
  <2>1. /\ IsFiniteSet(fst) /\ IsFiniteSet(snd) /\ fst \cap snd = {}
        /\ \A d \in fst \cup snd : hrs[d] \in Int
    BY <1>3, <1>5, <1>7
  <2>2. QED BY <2>1, SumSplits
<1>9. /\ InDateOrder(rows) = InDateOrder(fst \cup snd)
      /\ Sum(hrs, rows) = Sum(hrs, fst \cup snd)
  BY <1>3, Zenon
<1>10. PresentDays(e, from, to) = PresentDays(e, from, mid) \o PresentDays(e, mid + 1, to)
  BY <1>1, <1>6, <1>9, Zenon DEF PresentDays, IsPeriod
<1>11. QED BY <1>7, <1>8, <1>9, <1>10

\* Consecutive pay periods lose no day and count none twice, in days and in hours.
THEOREM PayPeriodsAlwaysPartition == PayrollSpec => []PayPeriodsPartition
<1>1. DebtType => PayPeriodsPartition
  BY DaysType, PeriodsJoin DEF PayPeriodsPartition
<1>2. QED BY <1>1, DebtAlwaysTyped, PTL
================================================================================
