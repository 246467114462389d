---------------------------- MODULE NumberSets ------------------------------
(***************************************************************************)
(* Least and greatest numbers of a set, as FiniteSetsExt chooses them.     *)
(* Both exist because the sets of the numbers below, or above, are finite  *)
(* and inclusion of finite sets is well-founded.  In the same way: what a  *)
(* fold over a finite set of records adds up to.  And which rows of a      *)
(* table Only selects.                                                     *)
(***************************************************************************)
EXTENDS Integers, FiniteSets, FiniteSetsExt, Sequences, SequencesExt, Rows, FiniteSetTheorems,
        WellFoundedInduction, TLAPS

Below(T, x) == {y \in T : y < x}
Initials(T) == {Below(T, x) : x \in T}

\* A set of natural numbers has a least element.
LEMMA LeastExists ==
  ASSUME NEW T \in SUBSET Nat, T # {}
  PROVE  \E x \in T : \A y \in T : x <= y
  <1>1. ASSUME NEW x \in T PROVE Below(T, x) \in FiniteSubsetsOf(Nat)
    <2>1. x \in Nat /\ Below(T, x) \in SUBSET Nat /\ \A y \in Below(T, x) : y <= x
      <3>1. x \in Nat /\ \A y \in T : y \in Nat
        OBVIOUS
      <3>2. \A y \in Nat : y < x => y <= x
        BY <3>1
      <3> QED BY <3>1, <3>2 DEF Below
    <2>2. IsFiniteSet(Below(T, x))
      BY <2>1, FS_BoundedSetOfNaturals
    <2> QED BY <2>1, <2>2 DEF FiniteSubsetsOf
  <1>2. Initials(T) \subseteq FiniteSubsetsOf(Nat) /\ Initials(T) # {}
    BY <1>1 DEF Initials
  <1>3. PICK U \in Initials(T) :
          \A V \in Initials(T) : ~ (<<V, U>> \in StrictSubsetOrdering(Nat))
    BY <1>2, FS_StrictSubsetOrderingWellFounded, WFMin
  <1>4. PICK x \in T : U = Below(T, x)
    BY DEF Initials
  <1>5. ASSUME NEW y \in T, y < x PROVE FALSE
    <2>1. x \in Nat /\ y \in Nat /\ \A z \in T : z \in Nat
      OBVIOUS
    <2>2. Below(T, y) \subseteq Below(T, x)
      <3>1. \A z \in Nat : z < y => z < x
        BY <1>5, <2>1
      <3> QED BY <2>1, <3>1 DEF Below
    <2>3. y \in Below(T, x) /\ y \notin Below(T, y)
      BY <1>5, <2>1 DEF Below
    <2>4. Below(T, x) \in SUBSET Nat /\ Below(T, y) \in SUBSET Nat
      BY DEF Below
    <2>5. <<Below(T, y), U>> \in StrictSubsetOrdering(Nat)
      BY <1>4, <2>2, <2>3, <2>4 DEF StrictSubsetOrdering
    <2>6. Below(T, y) \in Initials(T)
      BY DEF Initials
    <2> QED BY <1>3, <2>5, <2>6
  <1>6. x \in Nat /\ \A z \in T : z \in Nat
    OBVIOUS
  <1> QED BY <1>5, <1>6

Above(T, x) == {y \in T : y > x}
Finals(T) == {Above(T, x) : x \in T}

\* So has a finite one.
LEMMA GreatestOfFinite ==
  ASSUME NEW T \in SUBSET Nat, T # {}, IsFiniteSet(T)
  PROVE  Max(T) \in T /\ \A y \in T : Max(T) >= y
  <1>1. \A x \in T : Above(T, x) \in FiniteSubsetsOf(Nat)
    BY FS_Subset DEF Above, FiniteSubsetsOf
  <1>2. Finals(T) \subseteq FiniteSubsetsOf(Nat) /\ Finals(T) # {}
    BY <1>1 DEF Finals
  <1>3. PICK U \in Finals(T) :
          \A V \in Finals(T) : ~ (<<V, U>> \in StrictSubsetOrdering(Nat))
    BY <1>2, FS_StrictSubsetOrderingWellFounded, WFMin
  <1>4. PICK x \in T : U = Above(T, x)
    BY DEF Finals
  <1>5. ASSUME NEW y \in T, y > x PROVE FALSE
    <2>1. x \in Nat /\ y \in Nat /\ \A z \in T : z \in Nat
      OBVIOUS
    <2>2. Above(T, y) \subseteq Above(T, x)
      <3>1. \A z \in Nat : z > y => z > x
        BY <1>5, <2>1
      <3> QED BY <2>1, <3>1 DEF Above
    <2>3. y \in Above(T, x) /\ y \notin Above(T, y)
      BY <1>5, <2>1 DEF Above
    <2>4. Above(T, x) \in SUBSET Nat /\ Above(T, y) \in SUBSET Nat
      BY DEF Above
    <2>5. <<Above(T, y), U>> \in StrictSubsetOrdering(Nat)
      BY <1>4, <2>2, <2>3, <2>4 DEF StrictSubsetOrdering
    <2>6. Above(T, y) \in Finals(T)
      BY DEF Finals
    <2> QED BY <1>3, <2>5, <2>6
  <1>6. x \in Nat /\ \A z \in T : z \in Nat
    OBVIOUS
  <1>7. \A y \in T : x >= y
    BY <1>5, <1>6
  <1> QED BY <1>7 DEF Max

\* Min and Max of the community modules are what their names say.
LEMMA MinIsLeast ==
  ASSUME NEW T \in SUBSET Nat, T # {}
  PROVE  Min(T) \in T /\ \A y \in T : Min(T) <= y
  BY LeastExists DEF Min

-----------------------------------------------------------------------------
(* The rows of a table.                                                    *)

Upto(I, i) == {j \in I : j <= i}
Rank(I, i) == Cardinality(Upto(I, i))

\* The places of a table are ranked one after the other.
LEMMA RanksAreApart ==
  ASSUME NEW n \in Nat, NEW I \in SUBSET (1..n)
  PROVE  /\ IsFiniteSet(I) /\ Cardinality(I) \in Nat
         /\ \A i \in I : Rank(I, i) \in 1..Cardinality(I)
         /\ \A i, j \in I : i < j => Rank(I, i) < Rank(I, j)
  <1>1. IsFiniteSet(I) /\ Cardinality(I) \in Nat
    <2>1. IsFiniteSet(1..n)
      BY FS_Interval
    <2> QED BY <2>1, FS_Subset, FS_CardinalityType
  <1>2. ASSUME NEW i \in I
        PROVE  /\ IsFiniteSet(Upto(I, i)) /\ Rank(I, i) \in Nat
               /\ Rank(I, i) <= Cardinality(I) /\ Rank(I, i) # 0
    <2>1. Upto(I, i) \in SUBSET I /\ i \in Upto(I, i)
      BY DEF Upto
    <2>2. IsFiniteSet(Upto(I, i)) /\ Rank(I, i) <= Cardinality(I)
      BY <1>1, <2>1, FS_Subset DEF Rank
    <2> QED BY <2>1, <2>2, FS_CardinalityType, FS_EmptySet DEF Rank
  <1>3. ASSUME NEW i \in I, NEW j \in I, i < j PROVE Rank(I, i) < Rank(I, j)
    <2>0. \A x \in I : x \in Int
      OBVIOUS
    <2>1. Upto(I, i) \in SUBSET Upto(I, j) /\ j \in Upto(I, j) /\ j \notin Upto(I, i)
      <3>1. \A x \in Int : x <= i => x <= j
        BY <1>3, <2>0
      <3>2. i \in Int /\ j \in Int
        BY <2>0
      <3>3. j <= j /\ ~ (j <= i)
        BY <1>3, <3>2
      <3>4. \A x \in Upto(I, i) : x \in I /\ x \in Int /\ x <= i
        BY <2>0 DEF Upto
      <3>5. \A x \in Upto(I, i) : x \in Upto(I, j)
        BY <3>1, <3>4 DEF Upto
      <3> QED BY <3>3, <3>5 DEF Upto
    <2>2. /\ Rank(I, i) <= Rank(I, j)
          /\ Rank(I, j) = Rank(I, i) => Upto(I, j) = Upto(I, i)
      BY <1>2, <2>1, FS_Subset DEF Rank
    <2> QED BY <1>2, <2>1, <2>2
  <1> QED BY <1>1, <1>2, <1>3

\* So Nth is the inverse of Rank.
LEMMA NthHasRank ==
  ASSUME NEW n \in Nat, NEW I \in SUBSET (1..n)
  PROVE  /\ \A k \in 1..Cardinality(I) : Nth(I, k) \in I /\ Rank(I, Nth(I, k)) = k
         /\ \A i \in I : Nth(I, Rank(I, i)) = i
  <1> DEFINE f == [i \in I |-> Rank(I, i)]
             K == 1..Cardinality(I)
  <1>1. \A i, j \in I : i \in Int /\ j \in Int /\ (Rank(I, i) = Rank(I, j) => i = j)
    <2> SUFFICES ASSUME NEW i \in I, NEW j \in I, Rank(I, i) = Rank(I, j) PROVE i = j
      OBVIOUS
    <2>1. /\ Rank(I, i) \in 1..Cardinality(I)
          /\ i < j => Rank(I, i) < Rank(I, j)
          /\ j < i => Rank(I, j) < Rank(I, i)
      BY RanksAreApart
    <2>2. i \in Int /\ j \in Int /\ Cardinality(I) \in Nat
      <3>1. Cardinality(I) \in Nat
        BY RanksAreApart
      <3> QED BY <3>1
    <2>3. ~ (i < j) /\ ~ (j < i)
      <3> HIDE DEF Rank
      <3> QED BY <2>1, <2>2
    <2> QED BY <2>2, <2>3
  <1>2. IsFiniteSet(I) /\ Cardinality(I) \in Nat /\ f \in [I -> K]
    BY RanksAreApart
  <1>3. f \in Injection(I, K)
    BY <1>1, <1>2 DEF Injection, IsInjective
  <1>4. IsFiniteSet(K) /\ Cardinality(K) = Cardinality(I)
    BY <1>2, FS_Interval
  <1>5. f \in Surjection(I, K)
    BY <1>3, <1>4, FS_Injection
  <1>6. \A k \in K : \E i \in I : Rank(I, i) = k
    BY <1>5 DEF Surjection
  <1>7. \A k : Nth(I, k) = CHOOSE i \in I : Rank(I, i) = k
    BY DEF Nth, Rank, Upto
  <1>8. ASSUME NEW k \in K PROVE Nth(I, k) \in I /\ Rank(I, Nth(I, k)) = k
    BY <1>6, <1>7
  <1>9. ASSUME NEW i \in I PROVE Nth(I, Rank(I, i)) = i
    <2>1. Rank(I, i) \in K
      BY RanksAreApart
    <2> QED BY <1>1, <1>8, <2>1
  <1> QED BY <1>8, <1>9

\* Where the k-th row of Only(seq, S) is in seq.
PlaceOf(seq, S, k) == Nth({i \in DOMAIN seq : seq[i] \in S}, k)

\* A selection of rows has just those rows, in the order they had.
LEMMA OnlyThose ==
  ASSUME NEW R, NEW seq \in Seq(R), NEW S
  PROVE  /\ Only(seq, S) \in Seq(R)
         /\ ToSet(Only(seq, S)) = ToSet(seq) \cap S
         /\ \A k \in DOMAIN Only(seq, S) :
              PlaceOf(seq, S, k) \in DOMAIN seq /\ Only(seq, S)[k] = seq[PlaceOf(seq, S, k)]
         /\ \A k, m \in DOMAIN Only(seq, S) :
              PlaceOf(seq, S, k) = PlaceOf(seq, S, m) => k = m
  <1> DEFINE I == {i \in DOMAIN seq : seq[i] \in S}
             out == Only(seq, S)
  <1>1. Len(seq) \in Nat /\ I \in SUBSET (1..Len(seq)) /\ DOMAIN seq = 1..Len(seq)
    OBVIOUS
  <1>2. Cardinality(I) \in Nat
    BY <1>1, RanksAreApart
  <1>3. out = [k \in 1..Cardinality(I) |-> seq[Nth(I, k)]]
    BY DEF Only
  <1>4. DOMAIN out = 1..Cardinality(I) /\ \A k \in DOMAIN out : out[k] = seq[Nth(I, k)]
    BY <1>3
  <1>5. \A k \in 1..Cardinality(I) : Nth(I, k) \in I /\ Rank(I, Nth(I, k)) = k
    BY <1>1, NthHasRank
  <1>6. \A i \in I : Rank(I, i) \in 1..Cardinality(I) /\ Nth(I, Rank(I, i)) = i
    BY <1>1, NthHasRank, RanksAreApart
  <1>7. out \in Seq(R)
    <2>1. \A k \in 1..Cardinality(I) : seq[Nth(I, k)] \in R
      BY <1>5
    <2> HIDE DEF I
    <2> QED BY <1>2, <1>3, <2>1
  <1>8. ToSet(out) = ToSet(seq) \cap S
    <2>1. ASSUME NEW x \in ToSet(out) PROVE x \in ToSet(seq) \cap S
      BY <1>4, <1>5, <2>1 DEF ToSet
    <2>2. ASSUME NEW x \in ToSet(seq) \cap S PROVE x \in ToSet(out)
      <3>1. PICK i \in I : x = seq[i]
        BY <2>2 DEF ToSet
      <3> QED BY <1>4, <1>6, <3>1 DEF ToSet
    <2> QED BY <2>1, <2>2
  <1>9. \A k \in DOMAIN out : PlaceOf(seq, S, k) = Nth(I, k)
    BY DEF PlaceOf
  <1>10. \A k \in DOMAIN out : PlaceOf(seq, S, k) \in DOMAIN seq /\ out[k] = seq[PlaceOf(seq, S, k)]
    BY <1>4, <1>5, <1>9
  <1>11. \A k, m \in DOMAIN out : PlaceOf(seq, S, k) = PlaceOf(seq, S, m) => k = m
    BY <1>4, <1>5, <1>9
  <1> QED BY <1>7, <1>8, <1>10, <1>11

-----------------------------------------------------------------------------
(* Sums of points.                                                         *)

SumOfPoints(S) == FoldSet(LAMBDA e, sum : sum + e.points, 0, S)

SomeOf(T) == CHOOSE x \in T : TRUE
\* What a fold of points computes, on all subsets of S.
PointSums(S) == CHOOSE g : g = [T \in SUBSET S |->
                  IF T = {} THEN 0 ELSE g[T \ {SomeOf(T)}] + SomeOf(T).points]
HasPoints(S) == \A e \in S : e.points \in Int
\* g sums points, in whatever order the elements are taken.
Sums(g, S) == /\ g \in [SUBSET S -> Int] /\ g[{}] = 0
              /\ \A T \in SUBSET S : \A x \in T : g[T] = g[T \ {x}] + x.points

LEMMA SumWithOneMore ==
  ASSUME NEW S, NEW x \in S, HasPoints(S), NEW g, Sums(g, S \ {x})
  PROVE  Sums([T \in SUBSET S |-> IF x \in T THEN g[T \ {x}] + x.points ELSE g[T]], S)
  <1> DEFINE h == [T \in SUBSET S |-> IF x \in T THEN g[T \ {x}] + x.points ELSE g[T]]
  <1>1. \A T \in SUBSET S : /\ T \ {x} \in SUBSET (S \ {x}) /\ g[T \ {x}] \in Int
                            /\ x \notin T => T \in SUBSET (S \ {x}) /\ g[T] \in Int
    BY DEF Sums
  <1>2. x.points \in Int
    BY DEF HasPoints
  <1>3. h \in [SUBSET S -> Int] /\ h[{}] = 0
    BY <1>1, <1>2 DEF Sums
  <1>4. ASSUME NEW T \in SUBSET S, NEW y \in T PROVE h[T] = h[T \ {y}] + y.points
    <2>1. T \ {y} \in SUBSET S /\ y.points \in Int
      BY DEF HasPoints
    <2>2. CASE x \notin T
      <3>1. h[T] = g[T] /\ h[T \ {y}] = g[T \ {y}] /\ T \in SUBSET (S \ {x})
        BY <2>1, <2>2
      <3> QED BY <3>1 DEF Sums
    <2>3. CASE y = x
      BY <2>1, <2>3
    <2>4. CASE x \in T /\ y # x
      <3>1. h[T] = g[T \ {x}] + x.points /\ h[T \ {y}] = g[(T \ {y}) \ {x}] + x.points
        BY <2>1, <2>4
      <3>2. (T \ {y}) \ {x} = (T \ {x}) \ {y} /\ y \in T \ {x}
        BY <2>4
      <3>3. g[T \ {x}] = g[(T \ {x}) \ {y}] + y.points
        BY <1>1, <3>2 DEF Sums
      <3>4. g[(T \ {x}) \ {y}] \in Int
        BY <1>1, <2>1, <3>2
      <3>5. h[T \ {y}] = g[(T \ {x}) \ {y}] + x.points
        BY <3>1, <3>2
      <3>6. \A a, b, c \in Int : (a + b) + c = (a + c) + b
        OBVIOUS
      <3>7. h[T] = (g[(T \ {x}) \ {y}] + y.points) + x.points
        BY <3>1, <3>3
      <3> HIDE DEF h
      <3> QED BY <1>2, <2>1, <3>4, <3>5, <3>6, <3>7
    <2> QED BY <2>2, <2>3, <2>4
  <1> HIDE DEF h
  <1>5. Sums(h, S)
    BY <1>3, <1>4 DEF Sums
  <1> QED BY <1>5 DEF h

\* Every finite set can be summed: a smallest one that cannot would be without
\* elements, or have one more than a set that can.
LEMMA SumsExist ==
  ASSUME NEW S, IsFiniteSet(S), HasPoints(S)
  PROVE  \E g : Sums(g, S)
  <1> DEFINE Bad == {T \in SUBSET S : ~ \E g : Sums(g, T)}
  <1>1. SUFFICES ASSUME ~ \E g : Sums(g, S) PROVE FALSE
    OBVIOUS
  <1>2. Bad # {} /\ Bad \subseteq FiniteSubsetsOf(S)
    BY <1>1, FS_Subset DEF FiniteSubsetsOf
  <1>3. PICK T \in Bad : \A U \in Bad : ~ (<<U, T>> \in StrictSubsetOrdering(S))
    <2> HIDE DEF Bad
    <2> QED BY <1>2, FS_StrictSubsetOrderingWellFounded, WFMin
  <1>4. CASE T = {}
    <2>1. Sums([U \in SUBSET {} |-> 0], {})
      BY DEF Sums
    <2> QED BY <1>3, <1>4, <2>1
  <1>5. CASE T # {}
    <2>1. PICK x \in T : TRUE
      BY <1>5
    <2>2. T \in SUBSET S /\ T \ {x} \in SUBSET S /\ HasPoints(T)
      BY <1>3 DEF HasPoints
    <2>3. <<T \ {x}, T>> \in StrictSubsetOrdering(S)
      BY <2>1, <2>2 DEF StrictSubsetOrdering
    <2>4. T \ {x} \notin Bad
      BY <1>3, <2>3
    <2>5. PICK g : Sums(g, T \ {x})
      BY <2>2, <2>4
    <2>6. \E h : Sums(h, T)
      BY <2>1, <2>2, <2>5, SumWithOneMore
    <2> QED BY <1>3, <2>6
  <1> QED BY <1>4, <1>5

\* So the fold is such a sum.
LEMMA FoldIsSum ==
  ASSUME NEW S, IsFiniteSet(S), HasPoints(S), NEW g, Sums(g, S)
  PROVE  SumOfPoints(S) = g[S]
  <1> DEFINE Unfold(f) == [T \in SUBSET S |->
               IF T = {} THEN 0 ELSE f[T \ {SomeOf(T)}] + SomeOf(T).points]
             Steps(f) == f = Unfold(f)
  <1>2. Steps(g)
    <2>1. \A T \in SUBSET S : T # {} => SomeOf(T) \in T
      BY DEF SomeOf
    <2>2. \A T \in SUBSET S : g[T] = IF T = {} THEN 0 ELSE g[T \ {SomeOf(T)}] + SomeOf(T).points
      BY <2>1 DEF Sums
    <2>3. g = [T \in SUBSET S |-> g[T]]
      BY DEF Sums
    <2> QED BY <2>2, <2>3
  <1> DEFINE f == PointSums(S)
  <1>3. Steps(f)
    BY <1>2 DEF PointSums
  <1>4. \A T \in SUBSET S : f[T] = g[T]
    <2> DEFINE Bad == {T \in SUBSET S : f[T] # g[T]}
    <2> SUFFICES ASSUME Bad # {} PROVE FALSE
      OBVIOUS
    <2>1. Bad \subseteq FiniteSubsetsOf(S)
      BY FS_Subset DEF FiniteSubsetsOf
    <2>2. PICK T \in Bad : \A U \in Bad : ~ (<<U, T>> \in StrictSubsetOrdering(S))
      <3> HIDE DEF Bad
      <3> QED BY <2>1, FS_StrictSubsetOrderingWellFounded, WFMin
    <2>3. T \in SUBSET S /\ f[T] # g[T]
      OBVIOUS
    <2> HIDE DEF f
    <2>4. f[T] = Unfold(f)[T] /\ g[T] = Unfold(g)[T]
      BY <1>2, <1>3
    <2>5. T # {}
      BY <2>3, <2>4
    <2>6. SomeOf(T) \in T
      BY <2>5 DEF SomeOf
    <2>7. f[T] = f[T \ {SomeOf(T)}] + SomeOf(T).points /\ g[T] = g[T \ {SomeOf(T)}] + SomeOf(T).points
      BY <2>3, <2>4, <2>5
    <2>8. <<T \ {SomeOf(T)}, T>> \in StrictSubsetOrdering(S) /\ T \ {SomeOf(T)} \in SUBSET S
      BY <2>3, <2>6 DEF StrictSubsetOrdering
    <2>9. f[T \ {SomeOf(T)}] = g[T \ {SomeOf(T)}]
      BY <2>2, <2>8
    <2> QED BY <2>3, <2>7, <2>9
  <1>5. SumOfPoints(S) = PointSums(S)[S]
    BY Zenon DEF SumOfPoints, FoldSet, MapThenFoldSet, PointSums, SomeOf
  <1> QED BY <1>4, <1>5

\* Sums of points: of nothing, and of a set with or without one of its elements.
LEMMA PointsAddUp ==
  ASSUME NEW S, IsFiniteSet(S), HasPoints(S)
  PROVE  /\ SumOfPoints(S) \in Int
         /\ S = {} => SumOfPoints(S) = 0
         /\ \A x \in S : SumOfPoints(S) = SumOfPoints(S \ {x}) + x.points
         /\ \A x : x \notin S /\ x.points \in Int =>
              SumOfPoints(S \cup {x}) = SumOfPoints(S) + x.points
  <1>1. ASSUME NEW U, IsFiniteSet(U), HasPoints(U)
        PROVE  /\ SumOfPoints(U) \in Int
               /\ U = {} => SumOfPoints(U) = 0
               /\ \A x \in U : SumOfPoints(U) = SumOfPoints(U \ {x}) + x.points
    <2>1. PICK g : Sums(g, U)
      BY <1>1, SumsExist
    <2>2. SumOfPoints(U) = g[U]
      BY <1>1, <2>1, FoldIsSum
    <2>3. ASSUME NEW x \in U PROVE g[U \ {x}] = SumOfPoints(U \ {x})
      <3> DEFINE h == [T \in SUBSET (U \ {x}) |-> g[T]]
      <3>1. IsFiniteSet(U \ {x}) /\ HasPoints(U \ {x})
        BY <1>1, FS_RemoveElement DEF HasPoints
      <3>2. \A T \in SUBSET (U \ {x}) : T \in SUBSET U /\ h[T] = g[T]
        OBVIOUS
      <3>3. h \in [SUBSET (U \ {x}) -> Int] /\ h[{}] = 0
        BY <2>1 DEF Sums
      <3>4. \A T \in SUBSET (U \ {x}) : \A y \in T : h[T] = h[T \ {y}] + y.points
        <4>1. \A T \in SUBSET (U \ {x}) : \A y : T \ {y} \in SUBSET (U \ {x})
          OBVIOUS
        <4> HIDE DEF h
        <4> QED BY <2>1, <3>2, <4>1 DEF Sums
      <3> HIDE DEF h
      <3>5. Sums(h, U \ {x})
        BY <3>3, <3>4 DEF Sums
      <3>6. SumOfPoints(U \ {x}) = h[U \ {x}]
        BY <3>1, <3>5, FoldIsSum
      <3> QED BY <3>2, <3>6
    <2>4. g[U] \in Int /\ (U = {} => g[U] = 0) /\ \A x \in U : g[U] = g[U \ {x}] + x.points
      BY <2>1 DEF Sums
    <2> QED BY <2>2, <2>3, <2>4
  <1>2. ASSUME NEW x, x \notin S, x.points \in Int
        PROVE  SumOfPoints(S \cup {x}) = SumOfPoints(S) + x.points
    <2>1. IsFiniteSet(S \cup {x}) /\ HasPoints(S \cup {x})
      BY <1>2, FS_AddElement DEF HasPoints
    <2>2. (S \cup {x}) \ {x} = S /\ x \in S \cup {x}
      BY <1>2
    <2> QED BY <1>1, <2>1, <2>2
  <1> QED BY <1>1, <1>2

\* Of a set in two parts.
LEMMA SumOfUnion ==
  ASSUME NEW S, IsFiniteSet(S), HasPoints(S), NEW T, IsFiniteSet(T), HasPoints(T), S \cap T = {}
  PROVE  SumOfPoints(S \cup T) = SumOfPoints(S) + SumOfPoints(T)
  <1> DEFINE Bad == {U \in SUBSET T : SumOfPoints(S \cup U) # SumOfPoints(S) + SumOfPoints(U)}
  <1> SUFFICES ASSUME Bad # {} PROVE FALSE
    OBVIOUS
  <1>1. Bad \subseteq FiniteSubsetsOf(T)
    BY FS_Subset DEF FiniteSubsetsOf
  <1>2. PICK U \in Bad : \A V \in Bad : ~ (<<V, U>> \in StrictSubsetOrdering(T))
    <2> HIDE DEF Bad
    <2> QED BY <1>1, FS_StrictSubsetOrderingWellFounded, WFMin
  <1>3. U \in SUBSET T /\ IsFiniteSet(U) /\ HasPoints(U)
    BY FS_Subset DEF HasPoints
  <1>4. SumOfPoints(S) \in Int
    BY PointsAddUp
  <1>5. CASE U = {}
    <2>1. SumOfPoints(U) = 0
      BY <1>3, <1>5, PointsAddUp
    <2>2. SumOfPoints(S \cup U) = SumOfPoints(S)
      <3>1. S \cup U = S
        BY <1>5
      <3> QED BY <3>1
    <2>3. SumOfPoints(S \cup U) # SumOfPoints(S) + SumOfPoints(U)
      BY <1>2
    <2> HIDE DEF Bad
    <2> QED BY <1>4, <2>1, <2>2, <2>3
  <1>6. CASE U # {}
    <2>1. PICK x \in U : TRUE
      BY <1>6
    <2> DEFINE V == U \ {x}
    <2>2. V \in SUBSET T /\ <<V, U>> \in StrictSubsetOrdering(T) /\ x.points \in Int
      BY <1>3, <2>1 DEF StrictSubsetOrdering, HasPoints
    <2>3. SumOfPoints(S \cup V) = SumOfPoints(S) + SumOfPoints(V)
      BY <1>2, <2>2
    <2>4. IsFiniteSet(V) /\ HasPoints(V) /\ IsFiniteSet(S \cup U) /\ HasPoints(S \cup U)
      BY <1>3, FS_Subset, FS_Union DEF HasPoints
    <2>5. (S \cup U) \ {x} = S \cup V /\ x \in S \cup U
      BY <1>3, <2>1
    <2>6. SumOfPoints(S \cup U) = SumOfPoints(S \cup V) + x.points
      BY <2>4, <2>5, PointsAddUp
    <2>7. SumOfPoints(U) = SumOfPoints(V) + x.points /\ SumOfPoints(V) \in Int
      BY <1>3, <2>1, <2>4, PointsAddUp
    <2>8. SumOfPoints(S \cup U) # SumOfPoints(S) + SumOfPoints(U)
      BY <1>2
    <2> HIDE DEF V
    <2> QED BY <1>4, <2>2, <2>3, <2>6, <2>7, <2>8
  <1> QED BY <1>5, <1>6
=============================================================================
