-------------------------------- MODULE Extremes --------------------------------
(***************************************************************************)
(* What the proofs need of the least and the greatest element of a finite  *)
(* set of integers, Min and Max of the community modules; induction over   *)
(* the numbers, which follows from there being a least; and the sum of a   *)
(* weight over a finite set.                                               *)
(***************************************************************************)
EXTENDS Integers, FiniteSets, FiniteSetsExt, FiniteSetTheorems, TLAPS

\* A finite set of integers that is not empty has a least element: were there
\* none, every element would have one below it, and the numbers of elements
\* below would be one too few for all to differ.
LEMMA MinIsIn ==
    ASSUME NEW S, S \subseteq Int, IsFiniteSet(S), S # {}
    PROVE  Min(S) \in S /\ \A y \in S : Min(S) <= y
<1> DEFINE Below(x) == {y \in S : y < x}
           f == [x \in S |-> Cardinality(Below(x))]
           N == 1..Cardinality(S) - 1
<1>1. SUFFICES ASSUME \A x \in S : \E y \in S : y < x
               PROVE  FALSE
  <2>1. SUFFICES ASSUME ~\A x \in S : \E y \in S : y < x
                 PROVE  \E x \in S : \A y \in S : x <= y
    BY DEF Min
  <2>2. QED
    BY <2>1
<1>2. \A x \in S : IsFiniteSet(Below(x)) /\ Cardinality(Below(x)) \in Nat
  BY FS_Subset, FS_CardinalityType
<1>3. \A x \in S : Cardinality(Below(x)) < Cardinality(S)
  <2>1. \A x \in S : Below(x) \subseteq S /\ x \notin Below(x)
    OBVIOUS
  <2>2. QED
    BY <2>1, FS_Subset, FS_CardinalityType
<1>4. \A x \in S : Cardinality(Below(x)) # 0
  <2>1. \A x \in S : Below(x) # {}
    BY <1>1
  <2>2. QED
    BY <2>1, <1>2, FS_EmptySet
<1>5. \A x, y \in S : x < y => Cardinality(Below(x)) < Cardinality(Below(y))
  <2>1. SUFFICES ASSUME NEW x \in S, NEW y \in S, x < y
                 PROVE  Cardinality(Below(x)) < Cardinality(Below(y))
    OBVIOUS
  <2>2. Below(x) \subseteq Below(y) /\ x \in Below(y) /\ x \notin Below(x)
    <3>1. x \in Int /\ y \in Int /\ ~(x < x)
      OBVIOUS
    <3>2. \A z \in S : z < x => z < y
      BY <2>1, <3>1
    <3>3. QED
      BY <2>1, <3>1, <3>2
  <2>3. QED
    BY <2>2, <1>2, FS_Subset
<1>6. IsFiniteSet(N) /\ Cardinality(N) < Cardinality(S)
  <2>1. Cardinality(S) \in Nat /\ Cardinality(S) # 0
    BY FS_CardinalityType, FS_EmptySet
  <2>2. \A n \in Nat \ {0} : IsFiniteSet(1..n - 1) /\ Cardinality(1..n - 1) = n - 1
    <3>1. SUFFICES ASSUME NEW n \in Nat \ {0}
                   PROVE  IsFiniteSet(1..n - 1) /\ Cardinality(1..n - 1) = n - 1
      OBVIOUS
    <3>2. 1 \in Int /\ n - 1 \in Int /\ (IF 1 > n - 1 THEN 0 ELSE (n - 1) - 1 + 1) = n - 1
      OBVIOUS
    <3>3. QED
      BY <3>2, FS_Interval
  <2>3. QED
    BY <2>1, <2>2
<1>7. f \in [S -> N]
  BY <1>2, <1>3, <1>4, FS_CardinalityType
<1>8. \A x, y \in S : x # y => f[x] # f[y]
  <2>1. SUFFICES ASSUME NEW x \in S, NEW y \in S, x # y PROVE f[x] # f[y]
    OBVIOUS
  <2>2. x < y \/ y < x
    BY <2>1
  <2>3. QED
    BY <2>2, <1>5, <1>2
<1> HIDE DEF f, N
<1>9. QED
  BY <1>6, <1>7, <1>8, FS_PigeonHole, Zenon

\* And a greatest one: the least of the opposites.
LEMMA MaxIsIn ==
    ASSUME NEW S, S \subseteq Int, IsFiniteSet(S), S # {}
    PROVE  Max(S) \in S /\ \A y \in S : Max(S) >= y
<1> DEFINE T == {0 - x : x \in S}
           f == [x \in S |-> 0 - x]
<1>1. f \in Surjection(S, T)
  BY DEF Surjection
<1>2. IsFiniteSet(T)
  BY <1>1, FS_Surjection
<1>3. T \subseteq Int /\ T # {}
  <2>1. \A x \in S : 0 - x \in Int /\ 0 - x \in T
    OBVIOUS
  <2>2. QED
    BY <2>1
<1>4. Min(T) \in T /\ \A y \in T : Min(T) <= y
  <2> HIDE DEF T
  <2>1. QED
    BY <1>2, <1>3, MinIsIn
<1>5. PICK x \in S : \A y \in S : x >= y
  <2>1. PICK x \in S : Min(T) = 0 - x
    BY <1>4
  <2>2. \A y \in S : 0 - x <= 0 - y
    BY <1>4, <2>1
  <2>3. QED
    BY <2>2
<1>6. QED
  BY <1>5 DEF Max

\* Of two numbers.
LEMMA LesserOf ==
    ASSUME NEW a \in Int, NEW b \in Int
    PROVE  Min({a, b}) = IF a <= b THEN a ELSE b
<1>1. IsFiniteSet({a, b}) /\ {a, b} \subseteq Int /\ {a, b} # {}
  <2>1. IsFiniteSet({a}) /\ IsFiniteSet({a} \cup {b})
    BY FS_EmptySet, FS_AddElement, FS_Singleton
  <2>2. {a} \cup {b} = {a, b}
    OBVIOUS
  <2>3. QED
    BY <2>1, <2>2
<1>2. Min({a, b}) \in {a, b} /\ \A y \in {a, b} : Min({a, b}) <= y
  BY <1>1, MinIsIn
<1>3. QED
  BY <1>2

LEMMA GreaterOf ==
    ASSUME NEW a \in Int, NEW b \in Int
    PROVE  Max({a, b}) = IF a >= b THEN a ELSE b
<1>1. IsFiniteSet({a, b}) /\ {a, b} \subseteq Int /\ {a, b} # {}
  <2>1. IsFiniteSet({a}) /\ IsFiniteSet({a} \cup {b})
    BY FS_EmptySet, FS_AddElement, FS_Singleton
  <2>2. {a} \cup {b} = {a, b}
    OBVIOUS
  <2>3. QED
    BY <2>1, <2>2
<1>2. Max({a, b}) \in {a, b} /\ \A y \in {a, b} : Max({a, b}) >= y
  BY <1>1, MaxIsIn
<1>3. QED
  BY <1>2

LEMMA ImageIsFinite ==
    ASSUME NEW S, IsFiniteSet(S), NEW f, DOMAIN f = S
    PROVE  IsFiniteSet({f[x] : x \in S})
<1> DEFINE g == [x \in S |-> f[x]]
           T == {f[x] : x \in S}
<1>1. g \in Surjection(S, T)
  BY DEF Surjection
<1>2. QED
  BY <1>1, FS_Surjection

-----------------------------------------------------------------------------
(* Induction, and sums                                                       *)

\* A property of numbers that holds of 0, and of each from the one before, holds
\* of all: were there one it does not hold of, there would be a least.
LEMMA Inductively ==
    ASSUME NEW S, 0 \in S, \A n \in Nat : n \in S => n + 1 \in S
    PROVE  Nat \subseteq S
<1>1. SUFFICES ASSUME NEW n \in Nat, n \notin S PROVE FALSE
  OBVIOUS
<1> DEFINE B == {k \in 0..n : k \notin S}
<1>2. IsFiniteSet(0..n) /\ B \subseteq 0..n /\ n \in B
  BY <1>1, FS_Interval
<1>3. IsFiniteSet(B) /\ B \subseteq Int /\ B # {}
  BY <1>2, FS_Subset
<1>4. Min(B) \in B /\ \A y \in B : Min(B) <= y
  BY <1>3, MinIsIn
<1>5. Min(B) \in 1..n /\ Min(B) \notin S
  BY <1>4
<1>6. PICK m \in 1..n : m = Min(B)
  BY <1>5
<1>7. m - 1 \in 0..n /\ m - 1 \notin B
  BY <1>4, <1>6
<1>8. m - 1 \in S /\ m - 1 \in Nat
  BY <1>7
<1>9. QED
  BY <1>8, <1>6, <1>5

LEMMA OneFewer ==
    ASSUME NEW S, IsFiniteSet(S), NEW n \in Nat, Cardinality(S) = n + 1, NEW a \in S
    PROVE  Cardinality(S \ {a}) = n
<1>1. Cardinality(S \ {a}) = Cardinality(S) - 1
  BY FS_RemoveElement
<1>2. QED
  BY <1>1

-----------------------------------------------------------------------------
(* Sums of a weight over the subsets of a finite set                         *)

IsSum(g, S, w) ==
    /\ g \in [SUBSET S -> Nat] /\ g[{}] = 0
    /\ \A s \in SUBSET S : \A x \in s : g[s] = w[x] + g[s \ {x}]

LEMMA SumOfOneMore ==
    ASSUME NEW S, NEW a, a \notin S, NEW w \in [S \cup {a} -> Nat], NEW g, IsSum(g, S, w)
    PROVE  \E h : IsSum(h, S \cup {a}, w)
<1> DEFINE h == [s \in SUBSET (S \cup {a}) |-> IF a \in s THEN w[a] + g[s \ {a}] ELSE g[s]]
<1> USE DEF IsSum
<1>1. \A s \in SUBSET (S \cup {a}) : s \ {a} \in SUBSET S /\ (a \notin s => s \in SUBSET S)
  OBVIOUS
<1>2. h \in [SUBSET (S \cup {a}) -> Nat]
  BY <1>1
<1>3. h[{}] = 0
  OBVIOUS
<1>4. ASSUME NEW s \in SUBSET (S \cup {a}), NEW x \in s
      PROVE  h[s] = w[x] + h[s \ {x}]
  <2>1. CASE a \notin s
    BY <2>1, <1>1
  <2>2. CASE x = a
    <3>1. s \ {x} \in SUBSET (S \cup {a}) /\ a \notin s \ {x}
      BY <2>2
    <3>2. QED
      BY <3>1, <2>2
  <2>3. CASE a \in s /\ x # a
    <3>1. s \ {x} \in SUBSET (S \cup {a}) /\ a \in s \ {x} /\ x \in s \ {a} /\ s \ {a} \in SUBSET S
      BY <2>3
    <3>2. (s \ {a}) \ {x} = (s \ {x}) \ {a} /\ (s \ {x}) \ {a} \in SUBSET S
      BY <3>1
    <3>3. g[s \ {a}] = w[x] + g[(s \ {x}) \ {a}]
      BY <3>1, <3>2
    <3>4. h[s] = w[a] + g[s \ {a}] /\ h[s \ {x}] = w[a] + g[(s \ {x}) \ {a}]
      BY <3>1
    <3>5. w[a] \in Nat /\ w[x] \in Nat /\ g[(s \ {x}) \ {a}] \in Nat
      BY <3>2
    <3>6. QED
      BY <3>3, <3>4, <3>5
  <2>4. QED
    BY <2>1, <2>2, <2>3
<1> HIDE DEF h
<1>5. QED
  BY <1>2, <1>3, <1>4

LEMMA SumExists ==
    ASSUME NEW S, IsFiniteSet(S), NEW w \in [S -> Nat]
    PROVE  \E g : IsSum(g, S, w)
<1> DEFINE N == {n \in Nat : \A T \in SUBSET S : Cardinality(T) = n =>
                     \E g : IsSum(g, T, [x \in T |-> w[x]])}
<1>1. 0 \in N
  <2>1. SUFFICES ASSUME NEW T \in SUBSET S, Cardinality(T) = 0
                 PROVE  \E g : IsSum(g, T, [x \in T |-> w[x]])
    OBVIOUS
  <2>2. T = {}
    BY <2>1, FS_EmptySet, FS_Subset
  <2>3. IsSum([s \in SUBSET T |-> 0], T, [x \in T |-> w[x]])
    BY <2>2 DEF IsSum
  <2>4. QED
    BY <2>3
<1>2. ASSUME NEW n \in Nat, n \in N PROVE n + 1 \in N
  <2>1. SUFFICES ASSUME NEW T \in SUBSET S, Cardinality(T) = n + 1
                 PROVE  \E g : IsSum(g, T, [x \in T |-> w[x]])
    BY <1>2
  <2>2. IsFiniteSet(T) /\ T # {}
    BY <2>1, FS_Subset, FS_EmptySet
  <2>3. PICK a \in T : TRUE
    BY <2>2
  <2>4. Cardinality(T \ {a}) = n /\ T \ {a} \in SUBSET S /\ a \notin T \ {a}
    BY <2>1, <2>2, <2>3, OneFewer
  <2>5. PICK g : IsSum(g, T \ {a}, [x \in T \ {a} |-> w[x]])
    BY <1>2, <2>4
  <2>6. (T \ {a}) \cup {a} = T
    BY <2>3
  <2>7. [x \in T |-> w[x]] \in [(T \ {a}) \cup {a} -> Nat]
    BY <2>6
  <2>8. IsSum(g, T \ {a}, [x \in T |-> w[x]])
    BY <2>5 DEF IsSum
  <2> DEFINE v == [x \in T |-> w[x]]
             U == T \ {a}
  <2> HIDE DEF v, U
  <2>9. a \notin U /\ v \in [U \cup {a} -> Nat] /\ IsSum(g, U, v)
    BY <2>4, <2>7, <2>8 DEF v, U
  <2>10. \E h : IsSum(h, U \cup {a}, v)
    BY <2>9, SumOfOneMore
  <2>11. QED
    BY <2>10, <2>6 DEF v, U
<1>3. Nat \subseteq N
  <2> HIDE DEF N
  <2>1. QED
    BY <1>1, <1>2, Inductively
<1>4. Cardinality(S) \in N
  BY <1>3, FS_CardinalityType
<1>5. [x \in S |-> w[x]] = w
  OBVIOUS
<1>6. QED
  BY <1>4, <1>5

\* The sum of w over S, and over each subset of it
SumsOf(S, w) == CHOOSE g : IsSum(g, S, w)
SumOf(S, w) == SumsOf(S, w)[S]

LEMMA SumsAreSums ==
    ASSUME NEW S, IsFiniteSet(S), NEW w \in [S -> Nat]
    PROVE  IsSum(SumsOf(S, w), S, w)
  BY SumExists DEF SumsOf

\* A smaller set has a smaller sum.
LEMMA SumIsMonotone ==
    ASSUME NEW S, IsFiniteSet(S), NEW w \in [S -> Nat], NEW g, IsSum(g, S, w),
           NEW T \in SUBSET S, NEW U \in SUBSET T
    PROVE  g[U] <= g[T] /\ g[U] \in Nat /\ g[T] \in Nat
<1> USE DEF IsSum
<1>0. T \in SUBSET S /\ U \in SUBSET S
  OBVIOUS
<1> DEFINE N == {n \in Nat : \A V \in SUBSET T : U \subseteq V /\ Cardinality(V \ U) = n => g[U] <= g[V]}
<1>1. 0 \in N
  <2>1. SUFFICES ASSUME NEW V \in SUBSET T, U \subseteq V, Cardinality(V \ U) = 0
                 PROVE  g[U] <= g[V]
    OBVIOUS
  <2>2. V \ U = {}
    BY <2>1, FS_EmptySet, FS_Subset
  <2>3. U = V
    BY <2>2, <2>1
  <2>4. QED
    BY <2>3, <1>0
<1>2. ASSUME NEW n \in Nat, n \in N PROVE n + 1 \in N
  <2>1. SUFFICES ASSUME NEW V \in SUBSET T, U \subseteq V, Cardinality(V \ U) = n + 1
                 PROVE  g[U] <= g[V]
    BY <1>2
  <2>2. IsFiniteSet(V \ U) /\ V \ U # {}
    BY <2>1, FS_Subset, FS_EmptySet
  <2>3. PICK a \in V \ U : TRUE
    BY <2>2
  <2>4. Cardinality((V \ U) \ {a}) = n
    BY <2>1, <2>2, <2>3, OneFewer
  <2>5. (V \ U) \ {a} = (V \ {a}) \ U /\ V \ {a} \in SUBSET T /\ U \subseteq V \ {a}
    BY <2>1, <2>3
  <2>6. g[U] <= g[V \ {a}]
    BY <1>2, <2>4, <2>5
  <2>7. g[V] = w[a] + g[V \ {a}] /\ w[a] \in Nat /\ g[V \ {a}] \in Nat /\ g[U] \in Nat
    BY <2>3, <2>5, <1>0
  <2>8. QED
    BY <2>6, <2>7
<1>3. Nat \subseteq N
  <2> HIDE DEF N
  <2>1. QED
    BY <1>1, <1>2, Inductively
<1>4. Cardinality(T \ U) \in N
  <2>1. IsFiniteSet(T \ U)
    BY FS_Subset
  <2>2. QED
    BY <2>1, <1>3, FS_CardinalityType
<1>5. QED
  BY <1>4, <1>0

\* There is one sum of a weight: of two, one over a smaller set agrees with
\* the other.
LEMMA SumIsUnique ==
    \A S, T, v, w, g, h :
        IsSum(g, S, v) /\ IsSum(h, T, w) /\ T \subseteq S /\ IsFiniteSet(T)
        /\ (\A x \in T : v[x] = w[x])
            => \A U \in SUBSET T : g[U] = h[U]
<1> SUFFICES ASSUME NEW S, NEW T, NEW v, NEW w, NEW g, NEW h,
                    IsSum(g, S, v), IsSum(h, T, w), T \subseteq S, IsFiniteSet(T),
                    \A x \in T : v[x] = w[x]
             PROVE  \A U \in SUBSET T : g[U] = h[U]
  OBVIOUS
<1> USE DEF IsSum
<1> DEFINE N == {n \in Nat : \A U \in SUBSET T : Cardinality(U) = n => g[U] = h[U]}
<1>1. 0 \in N
  <2>1. SUFFICES ASSUME NEW U \in SUBSET T, Cardinality(U) = 0 PROVE g[U] = h[U]
    OBVIOUS
  <2>2. U = {}
    BY <2>1, FS_EmptySet, FS_Subset
  <2>3. QED
    BY <2>2
<1>2. ASSUME NEW n \in Nat, n \in N PROVE n + 1 \in N
  <2>1. SUFFICES ASSUME NEW U \in SUBSET T, Cardinality(U) = n + 1 PROVE g[U] = h[U]
    BY <1>2
  <2>2. IsFiniteSet(U) /\ U # {}
    BY <2>1, FS_Subset, FS_EmptySet
  <2>3. PICK a \in U : TRUE
    BY <2>2
  <2>4. Cardinality(U \ {a}) = n /\ U \ {a} \in SUBSET T
    BY <2>1, <2>2, <2>3, OneFewer
  <2>5. g[U \ {a}] = h[U \ {a}]
    BY <1>2, <2>4
  <2>6. g[U] = v[a] + g[U \ {a}]
    BY <2>3
  <2>7. h[U] = w[a] + h[U \ {a}]
    BY <2>3
  <2>8. v[a] = w[a]
    BY <2>3
  <2>9. QED
    BY <2>5, <2>6, <2>7, <2>8
<1>3. Nat \subseteq N
  <2> HIDE DEF N
  <2>1. QED
    BY <1>1, <1>2, Inductively
<1>4. QED
  <2>1. SUFFICES ASSUME NEW U \in SUBSET T PROVE g[U] = h[U]
    OBVIOUS
  <2>2. Cardinality(U) \in Nat
    BY FS_Subset, FS_CardinalityType
  <2>3. QED
    BY <2>2, <1>3

=================================================================================
