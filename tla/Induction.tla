----------------------------- MODULE Induction -----------------------------
(***************************************************************************)
(* Induction over numbers and over folds, stated with sets and functions   *)
(* instead of operators: a set of numbers that is closed under successor,  *)
(* and a fold as a function on the subsets of a finite set.                *)
(***************************************************************************)
EXTENDS Integers, FiniteSets, FiniteSetsExt, FiniteSetTheorems, TLAPS

-----------------------------------------------------------------------------
(* Numbers.                                                                *)

\* A set of naturals that holds 0 and every successor holds all of them.
LEMMA NatSetInduction ==
    ASSUME NEW T \in SUBSET Nat, 0 \in T, \A n \in T : n + 1 \in T
    PROVE  T = Nat
<1> DEFINE R == OpToRel(<, Nat)
           U == Nat \ T
<1>1. IsWellFoundedOn(R, Nat)
  BY NatLessThanWellFounded
<1>2. SUFFICES ASSUME U # {} PROVE FALSE
  OBVIOUS
<1>3. PICK x \in U : \A y \in U : ~ (<<y, x>> \in R)
  <2> HIDE DEF R
  <2>1. U \subseteq Nat
    OBVIOUS
  <2> HIDE DEF U
  <2> QED BY <1>1, <1>2, <2>1, WFMin
<1>4. x # 0 /\ x \in Nat /\ x - 1 \in Nat
  OBVIOUS
<1>5. x - 1 \in U
  <2>1. x - 1 \in T => x \in T
    BY <1>4
  <2> QED BY <1>4, <2>1
<1>6. <<x - 1, x>> \in R
  <2>1. x - 1 < x
    BY <1>4
  <2> QED BY <1>4, <2>1 DEF OpToRel
<1> QED BY <1>3, <1>5, <1>6

\* The same for the numbers up to n.
LEMMA RangeInduction ==
    ASSUME NEW n \in Nat, NEW T \in SUBSET (0 .. n),
           0 \in T, \A k \in T : k < n => k + 1 \in T
    PROVE  T = 0 .. n
<1> DEFINE U == {k \in Nat : k <= n => k \in T}
<1>1. U \subseteq Nat /\ 0 \in U
  OBVIOUS
<1>2. \A k \in U : k + 1 \in U
  OBVIOUS
<1>3. U = Nat
  <2> HIDE DEF U
  <2> QED BY <1>1, <1>2, NatSetInduction
<1>4. ASSUME NEW k \in 0 .. n PROVE k \in T
  <2>1. k \in U /\ k <= n
    BY <1>3
  <2> QED BY <2>1
<1> QED BY <1>4

\* The largest element of a set of numbers up to n.
LEMMA MaxExists ==
    ASSUME NEW n \in Nat, NEW s \in SUBSET (1 .. n), s # {}
    PROVE  Max(s) \in s /\ \A x \in s : x <= Max(s)
<1> DEFINE T == {k \in 0 .. n : \A x \in SUBSET (1 .. k) :
                    x # {} => \E m \in x : \A y \in x : m >= y}
<1>1. 0 \in T
  <2>1. 1 .. 0 = {} /\ 0 \in 0 .. n
    OBVIOUS
  <2> QED BY <2>1
<1>2. ASSUME NEW k \in T, k < n PROVE k + 1 \in T
  <2> SUFFICES ASSUME NEW x \in SUBSET (1 .. k + 1), x # {}
               PROVE  \E m \in x : \A y \in x : m >= y
    BY <1>2
  <2>1. CASE k + 1 \in x
    BY <2>1
  <2>2. CASE k + 1 \notin x
    <3>1. x \in SUBSET (1 .. k)
      BY <2>2
    <3> QED BY <3>1, <1>2
  <2> QED BY <2>1, <2>2
<1>3. T = 0 .. n
  <2>1. T \subseteq 0 .. n
    OBVIOUS
  <2> HIDE DEF T
  <2> QED BY <1>1, <1>2, <2>1, RangeInduction
<1>4. \E m \in s : \A y \in s : m >= y
  BY <1>3
<1>5. Max(s) \in s /\ \A y \in s : Max(s) >= y
  BY <1>4 DEF Max
<1> QED BY <1>5

\* The smallest element of a set of naturals.
LEMMA MinExists ==
    ASSUME NEW s \in SUBSET Nat, s # {}
    PROVE  Min(s) \in s /\ \A x \in s : Min(s) <= x
<1> DEFINE T == {n \in Nat : \A x \in s : n <= x}
<1>1. 0 \in T
  OBVIOUS
<1>2. PICK m \in s : m \in T
  <2>1. SUFFICES ASSUME \A m \in s : m \notin T PROVE FALSE
    OBVIOUS
  <2>2. ASSUME NEW n \in T PROVE n + 1 \in T
    <3>1. \A x \in s : n <= x /\ n # x
      BY <2>1
    <3> QED BY <3>1
  <2>3. T = Nat
    <3>1. T \subseteq Nat
      OBVIOUS
    <3> HIDE DEF T
    <3> QED BY <1>1, <2>2, <3>1, NatSetInduction
  <2>4. PICK x \in s : TRUE
    OBVIOUS
  <2>5. x \in Nat /\ x + 1 \in Nat
    OBVIOUS
  <2>6. x + 1 \in T
    <3> HIDE DEF T
    <3> QED BY <2>3, <2>5
  <2> QED BY <2>5, <2>6
<1> QED BY <1>2 DEF Min

\* A set of numbers 1 .. k without its largest element.
LEMMA MaxOfRange ==
    ASSUME NEW k \in Nat, k > 0
    PROVE  /\ Max(1 .. k) = k
           /\ (1 .. k) \ {k} = 1 .. k - 1
           /\ 1 .. k # {}
<1>1. 1 .. k \in SUBSET (1 .. k) /\ k \in 1 .. k
  OBVIOUS
<1>2. Max(1 .. k) \in 1 .. k /\ k <= Max(1 .. k)
  BY <1>1, MaxExists
<1> QED BY <1>2

-----------------------------------------------------------------------------
(* Folds take the elements of a finite set one by one: pick names the one  *)
(* that is taken first from what is left.                                  *)

\* A function that names an element of every non-empty subset of S.
IsPick(pick, S) == \A s \in SUBSET S : s # {} => pick[s] \in s

\* The number of elements goes down by one.
LEMMA PickedOne ==
    ASSUME NEW S, IsFiniteSet(S), NEW pick, IsPick(pick, S),
           NEW s \in SUBSET S, s # {}
    PROVE  /\ pick[s] \in s /\ pick[s] \in S
           /\ s \ {pick[s]} \in SUBSET S
           /\ Cardinality(s) \in Nat /\ Cardinality(s) > 0
           /\ Cardinality(s \ {pick[s]}) = Cardinality(s) - 1
<1>1. pick[s] \in s
  BY DEF IsPick
<1>2. IsFiniteSet(s) /\ Cardinality(s) \in Nat
  BY FS_Subset, FS_CardinalityType
<1>3. Cardinality(s) # 0
  BY <1>2, FS_EmptySet
<1>4. Cardinality(s \ {pick[s]}) = Cardinality(s) - 1
  BY <1>1, <1>2, FS_RemoveElement
<1> QED BY <1>1, <1>2, <1>3, <1>4

\* What holds of the empty set, and of a set when it holds without the element
\* that is picked, holds of every subset of S.
LEMMA PickInduction ==
    ASSUME NEW S, IsFiniteSet(S), NEW pick, IsPick(pick, S), NEW T,
           {} \in T,
           \A s \in SUBSET S : s # {} /\ s \ {pick[s]} \in T => s \in T
    PROVE  \A s \in SUBSET S : s \in T
<1> DEFINE U == {k \in Nat : \A s \in SUBSET S : Cardinality(s) = k => s \in T}
<1>1. 0 \in U
  <2>1. ASSUME NEW s \in SUBSET S, Cardinality(s) = 0 PROVE s = {}
    BY <2>1, FS_Subset, FS_EmptySet
  <2> QED BY <2>1
<1>2. ASSUME NEW k \in U PROVE k + 1 \in U
  <2> SUFFICES ASSUME NEW s \in SUBSET S, Cardinality(s) = k + 1 PROVE s \in T
    OBVIOUS
  <2>1. k \in Nat
    OBVIOUS
  <2>2. s # {}
    <3>1. Cardinality({}) = 0
      BY FS_EmptySet
    <3>2. k + 1 # 0
      BY <2>1
    <3> QED BY <3>1, <3>2
  <2>3. s \ {pick[s]} \in SUBSET S /\ Cardinality(s \ {pick[s]}) = k
    BY <2>1, <2>2, PickedOne
  <2>4. s \ {pick[s]} \in T
    BY <2>3
  <2> QED BY <2>2, <2>4
<1>3. U = Nat
  <2>1. U \subseteq Nat
    OBVIOUS
  <2> HIDE DEF U
  <2> QED BY <1>1, <1>2, <2>1, NatSetInduction
<1>4. ASSUME NEW s \in SUBSET S PROVE s \in T
  <2>1. Cardinality(s) \in Nat
    BY FS_Subset, FS_CardinalityType
  <2>2. Cardinality(s) \in U
    BY <2>1, <1>3
  <2> QED BY <2>2
<1> QED BY <1>4

\* g folds the subsets of S, from base, with step.
Folds(g, S, pick, base, step) ==
    \A s \in SUBSET S :
        g[s] = IF s = {} THEN base ELSE step[<<g[s \ {pick[s]}], pick[s]>>]

\* The function by which a fold is defined exists: a step that keeps to a set of
\* states can be taken for every element of a finite set.
LEMMA FoldExists ==
    ASSUME NEW S, IsFiniteSet(S), NEW pick, IsPick(pick, S),
           NEW States, NEW base \in States,
           NEW step \in [States \X S -> States]
    PROVE  \E g \in [SUBSET S -> States] : Folds(g, S, pick, base, step)
<1> DEFINE D(k) == {s \in SUBSET S : Cardinality(s) <= k}
           Next(g, s) == IF s = {} THEN base ELSE step[<<g[s \ {pick[s]}], pick[s]>>]
           T == {k \in Nat : \E g \in [D(k) -> States] : \A s \in D(k) : g[s] = Next(g, s)}
<1>0. ASSUME NEW k \in Nat, NEW s \in D(k + 1), s # {}
      PROVE  s \ {pick[s]} \in D(k)
  <2>1. Cardinality(s) <= k + 1 /\ s \in SUBSET S
    OBVIOUS
  <2>2. /\ s \ {pick[s]} \in SUBSET S
        /\ Cardinality(s) \in Nat /\ Cardinality(s \ {pick[s]}) = Cardinality(s) - 1
    BY <1>0, <2>1, PickedOne
  <2> QED BY <2>1, <2>2
<1>1. 0 \in T
  <2> DEFINE g == [s \in D(0) |-> base]
  <2>1. ASSUME NEW s \in D(0) PROVE s = {}
    <3>1. Cardinality(s) <= 0 /\ Cardinality(s) \in Nat /\ IsFiniteSet(s)
      BY FS_Subset, FS_CardinalityType
    <3> QED BY <3>1, FS_EmptySet
  <2>2. g \in [D(0) -> States] /\ \A s \in D(0) : g[s] = Next(g, s)
    BY <2>1
  <2> HIDE DEF g, Next, D
  <2> QED BY <2>2
<1>2. ASSUME NEW k \in T PROVE k + 1 \in T
  <2>0. k \in Nat
    OBVIOUS
  <2>1. PICK g \in [D(k) -> States] : \A s \in D(k) : g[s] = Next(g, s)
    BY <1>2
  <2> DEFINE h == [s \in D(k + 1) |-> Next(g, s)]
  <2>2. ASSUME NEW s \in D(k) PROVE s \in D(k + 1) /\ h[s] = g[s]
    <3>1. s \in D(k + 1)
      <4>1. Cardinality(s) \in Nat /\ Cardinality(s) <= k /\ s \in SUBSET S
        BY FS_Subset, FS_CardinalityType
      <4> QED BY <4>1, <2>0
    <3> HIDE DEF D, Next
    <3> QED BY <3>1, <2>1
  <2>3. ASSUME NEW s \in D(k + 1) PROVE h[s] \in States /\ h[s] = Next(h, s)
    <3>1. h[s] = Next(g, s)
      <4> HIDE DEF D, Next
      <4> QED OBVIOUS
    <3>2. CASE s = {}
      <4> HIDE DEF h
      <4> QED BY <3>1, <3>2
    <3>3. CASE s # {}
      <4>1. s \in SUBSET S
        OBVIOUS
      <4>2. s \ {pick[s]} \in D(k)
        BY <2>0, <3>3, <1>0
      <4>3. pick[s] \in S
        BY <4>1, <3>3, PickedOne
      <4> HIDE DEF h, D
      <4>4. h[s \ {pick[s]}] = g[s \ {pick[s]}] /\ g[s \ {pick[s]}] \in States
        BY <4>2, <2>2
      <4> QED BY <3>1, <3>3, <4>3, <4>4
    <3> QED BY <3>2, <3>3
  <2>4. h \in [D(k + 1) -> States]
    <3>1. h = [s \in D(k + 1) |-> h[s]]
      <4> HIDE DEF D, Next
      <4> QED OBVIOUS
    <3> HIDE DEF h, D, Next
    <3> QED BY <2>3, <3>1
  <2>5. k + 1 \in Nat
    BY <2>0
  <2> HIDE DEF h, D, Next
  <2> QED BY <2>3, <2>4, <2>5
<1>3. T = Nat
  <2>1. T \subseteq Nat
    OBVIOUS
  <2> HIDE DEF T
  <2> QED BY <1>1, <1>2, <2>1, NatSetInduction
<1>4. Cardinality(S) \in Nat
  BY FS_CardinalityType
<1>5. D(Cardinality(S)) = SUBSET S
  BY FS_Subset
<1>6. Cardinality(S) \in T
  <2> HIDE DEF T
  <2> QED BY <1>3, <1>4
<1>7. \E g \in [D(Cardinality(S)) -> States] :
         \A s \in D(Cardinality(S)) : g[s] = Next(g, s)
  <2> HIDE DEF D, Next
  <2> QED BY <1>6
<1> HIDE DEF D
<1> QED BY <1>5, <1>7 DEF Folds

\* FoldLeft takes the largest index first, and then folds what comes before it.
LEMMA LargestIsPick ==
    ASSUME NEW n \in Nat
    PROVE  /\ IsFiniteSet(1 .. n)
           /\ IsPick([s \in SUBSET (1 .. n) |-> Max(s)], 1 .. n)
<1>1. IsFiniteSet(1 .. n)
  BY FS_Interval
<1>2. \A s \in SUBSET (1 .. n) : s # {} => Max(s) \in s
  BY MaxExists
<1> QED BY <1>1, <1>2 DEF IsPick

\* FoldSet takes any element.
LEMMA AnyIsPick ==
    ASSUME NEW S
    PROVE  IsPick([s \in SUBSET S |-> CHOOSE x \in s : TRUE], S)
BY DEF IsPick

\* The sum of f over the subsets of S, the way the folds over sets compute it.
SumFold(f, S) ==
    CHOOSE g : g = [s \in SUBSET S |->
        IF s = {} THEN 0 ELSE f[CHOOSE x \in s : TRUE] + g[s \ {CHOOSE x \in s : TRUE}]]

IsSum(sum, f, S) ==
    sum = [s \in SUBSET S |->
        IF s = {} THEN 0 ELSE f[CHOOSE x \in s : TRUE] + sum[s \ {CHOOSE x \in s : TRUE}]]

\* A sum of naturals over a finite set is well defined and a natural.
LEMMA SumFoldType ==
    ASSUME NEW S, IsFiniteSet(S), NEW f, \A x \in S : f[x] \in Nat
    PROVE  IsSum(SumFold(f, S), f, S) /\ SumFold(f, S)[S] \in Nat
<1> DEFINE pick == [s \in SUBSET S |-> CHOOSE x \in s : TRUE]
           step == [e \in Nat \X S |-> f[e[2]] + e[1]]
           sum == SumFold(f, S)
<1>1. IsPick(pick, S)
  BY AnyIsPick
<1>2. step \in [Nat \X S -> Nat]
  OBVIOUS
<1>3. PICK g \in [SUBSET S -> Nat] : Folds(g, S, pick, 0, step)
  <2>1. 0 \in Nat
    OBVIOUS
  <2> HIDE DEF pick, step, sum
  <2> QED BY <1>1, <1>2, <2>1, FoldExists
<1>4. ASSUME NEW s \in SUBSET S
      PROVE  g[s] = IF s = {} THEN 0
                    ELSE f[CHOOSE x \in s : TRUE] + g[s \ {CHOOSE x \in s : TRUE}]
  <2>1. pick[s] = CHOOSE x \in s : TRUE
    OBVIOUS
  <2>2. CASE s # {}
    <3>1. pick[s] \in S
      BY <2>2
    <3>2. g[s \ {pick[s]}] \in Nat
      OBVIOUS
    <3> HIDE DEF pick
    <3>3. step[<<g[s \ {pick[s]}], pick[s]>>] = f[pick[s]] + g[s \ {pick[s]}]
      BY <3>1, <3>2
    <3> HIDE DEF step
    <3> QED BY <1>3, <2>1, <2>2, <3>3 DEF Folds
  <2> QED BY <1>3, <2>2 DEF Folds
<1>5. g = [s \in SUBSET S |-> IF s = {} THEN 0
             ELSE f[CHOOSE x \in s : TRUE] + g[s \ {CHOOSE x \in s : TRUE}]]
  BY <1>4
<1>6. sum = [s \in SUBSET S |-> IF s = {} THEN 0
               ELSE f[CHOOSE x \in s : TRUE] + sum[s \ {CHOOSE x \in s : TRUE}]]
  BY <1>5 DEF SumFold
<1> HIDE DEF sum
<1> DEFINE T == {u \in SUBSET S : sum[u] \in Nat}
<1>7. {} \in T
  BY <1>6
<1>8. ASSUME NEW s \in SUBSET S, s # {}, s \ {pick[s]} \in T PROVE s \in T
  <2>1. pick[s] = (CHOOSE x \in s : TRUE) /\ pick[s] \in S
    BY <1>8
  <2> HIDE DEF pick
  <2>2. sum[s] = f[pick[s]] + sum[s \ {pick[s]}]
    BY <1>6, <1>8, <2>1
  <2> QED BY <1>8, <2>1, <2>2
<1>9. S \in T
  <2> HIDE DEF T, pick
  <2> QED BY <1>1, <1>7, <1>8, PickInduction
<1> QED BY <1>6, <1>9 DEF sum, IsSum

\* Such a function adds up naturals.
LEMMA SumType ==
    ASSUME NEW S, IsFiniteSet(S), NEW f, \A x \in S : f[x] \in Nat, NEW sum, IsSum(sum, f, S)
    PROVE  sum \in [SUBSET S -> Nat] /\ sum[{}] = 0
<1> DEFINE pick == [s \in SUBSET S |-> CHOOSE x \in s : TRUE]
           T == {u \in SUBSET S : sum[u] \in Nat}
<1>1. IsPick(pick, S)
  BY AnyIsPick
<1>2. \A s \in SUBSET S : s # {} => /\ pick[s] \in s
                                    /\ sum[s] = f[pick[s]] + sum[s \ {pick[s]}]
  <2>1. ASSUME NEW s \in SUBSET S, s # {} PROVE pick[s] = CHOOSE x \in s : TRUE
    OBVIOUS
  <2> HIDE DEF pick
  <2> QED BY <1>1, <2>1 DEF IsSum, IsPick
<1>3. sum = [s \in SUBSET S |-> sum[s]] /\ sum[{}] = 0
  BY DEF IsSum
<1> HIDE DEF pick
<1>4. {} \in T
  BY <1>3
<1>5. ASSUME NEW s \in SUBSET S, s # {}, s \ {pick[s]} \in T PROVE s \in T
  BY <1>2, <1>5
<1>6. \A s \in SUBSET S : s \in T
  <2> HIDE DEF T
  <2> QED BY <1>1, <1>4, <1>5, PickInduction
<1> QED BY <1>3, <1>6

TakesAny(sum, f, S) == \A s \in SUBSET S : \A x \in s : sum[s] = f[x] + sum[s \ {x}]

\* Any element may be taken out first.
LEMMA SumTakeAny ==
    ASSUME NEW S, IsFiniteSet(S), NEW f, \A x \in S : f[x] \in Nat, NEW sum, IsSum(sum, f, S)
    PROVE  TakesAny(sum, f, S)
<1> DEFINE pick == [s \in SUBSET S |-> CHOOSE x \in s : TRUE]
           T == {k \in Nat : \A s \in SUBSET S : Cardinality(s) = k =>
                               \A x \in s : sum[s] = f[x] + sum[s \ {x}]}
<1>1. IsPick(pick, S)
  BY AnyIsPick
<1>2. sum \in [SUBSET S -> Nat]
  BY SumType
<1>3. \A s \in SUBSET S : s # {} => /\ pick[s] \in s
                                    /\ sum[s] = f[pick[s]] + sum[s \ {pick[s]}]
  <2>1. ASSUME NEW s \in SUBSET S, s # {} PROVE pick[s] = CHOOSE x \in s : TRUE
    OBVIOUS
  <2> HIDE DEF pick
  <2> QED BY <1>1, <2>1 DEF IsSum, IsPick
<1> HIDE DEF pick
<1>4. \A s \in SUBSET S : Cardinality(s) \in Nat /\ \A x \in s : Cardinality(s \ {x}) = Cardinality(s) - 1
  <2> SUFFICES ASSUME NEW s \in SUBSET S
               PROVE  Cardinality(s) \in Nat /\ \A x \in s : Cardinality(s \ {x}) = Cardinality(s) - 1
    OBVIOUS
  <2>1. IsFiniteSet(s)
    BY FS_Subset
  <2> QED BY <2>1, FS_CardinalityType, FS_RemoveElement
<1>5. 0 \in T
  <2> SUFFICES ASSUME NEW s \in SUBSET S, Cardinality(s) = 0, NEW x \in s PROVE FALSE
    OBVIOUS
  <2>1. IsFiniteSet(s)
    BY FS_Subset
  <2> QED BY <2>1, FS_EmptySet
<1>6. ASSUME NEW k \in T PROVE k + 1 \in T
  <2> SUFFICES ASSUME NEW s \in SUBSET S, Cardinality(s) = k + 1, NEW x \in s
               PROVE  sum[s] = f[x] + sum[s \ {x}]
    OBVIOUS
  <2> DEFINE p == pick[s]
             a == s \ {p}
             b == s \ {x}
             r == s \ {p, x}
  <2>1. p \in s /\ sum[s] = f[p] + sum[a]
    BY <1>3
  <2>2. CASE p = x
    BY <2>1, <2>2
  <2>3. CASE p # x
    <3>1. /\ a \in SUBSET S /\ b \in SUBSET S /\ r \in SUBSET S
          /\ x \in a /\ a \ {x} = r /\ p \in b /\ b \ {p} = r
      BY <2>1, <2>3
    <3>2. Cardinality(a) = k /\ Cardinality(b) = k
      BY <1>4, <2>1
    <3> HIDE DEF a, b, r, p
    <3>3. sum[a] = f[x] + sum[r] /\ sum[b] = f[p] + sum[r]
      BY <1>6, <3>1, <3>2
    <3>4. f[x] \in Nat /\ f[p] \in Nat /\ sum[r] \in Nat
      BY <1>2, <2>1, <3>1
    <3>5. sum[s] = f[x] + sum[b]
      BY <2>1, <3>3, <3>4
    <3> QED BY <3>5 DEF b
  <2> QED BY <2>2, <2>3
<1>7. T = Nat
  <2> HIDE DEF T
  <2>1. T \in SUBSET Nat
    BY DEF T
  <2> QED BY <1>5, <1>6, <2>1, NatSetInduction
<1> QED BY <1>4, <1>7 DEF TakesAny

\* The sum over a set is the same whatever larger set it is computed in.
LEMMA SumFoldWithin ==
    ASSUME NEW S, IsFiniteSet(S), NEW f, \A x \in S : f[x] \in Nat, NEW R \in SUBSET S
    PROVE  SumFold(f, R)[R] = SumFold(f, S)[R]
<1> DEFINE pick == [s \in SUBSET R |-> CHOOSE x \in s : TRUE]
           small == SumFold(f, R)
           large == SumFold(f, S)
           T == {s \in SUBSET R : small[s] = large[s]}
<1>1. IsFiniteSet(R) /\ IsPick(pick, R)
  BY FS_Subset, AnyIsPick
<1>2. IsSum(small, f, R) /\ IsSum(large, f, S)
  BY <1>1, SumFoldType
<1> HIDE DEF small, large
<1>3. small \in [SUBSET R -> Nat] /\ small[{}] = 0 /\ large[{}] = 0
  BY <1>1, <1>2, SumType
<1>4. \A s \in SUBSET R : \A x \in s : /\ small[s] = f[x] + small[s \ {x}]
                                       /\ large[s] = f[x] + large[s \ {x}]
  <2>1. TakesAny(small, f, R)
    <3>1. \A x \in R : f[x] \in Nat
      OBVIOUS
    <3> QED BY <1>1, <1>2, <3>1, SumTakeAny
  <2>2. TakesAny(large, f, S)
    BY <1>2, SumTakeAny
  <2> QED BY <2>1, <2>2 DEF TakesAny
<1> HIDE DEF pick
<1>5. {} \in T
  BY <1>3
<1>6. ASSUME NEW s \in SUBSET R, s # {}, s \ {pick[s]} \in T PROVE s \in T
  <2>1. pick[s] \in s
    BY <1>1, <1>6 DEF IsPick
  <2> QED BY <1>4, <1>6, <2>1
<1>7. R \in T
  <2> HIDE DEF T
  <2> QED BY <1>1, <1>5, <1>6, PickInduction
<1> QED BY <1>7 DEF small, large

\* The sum of a union is at most the sum of the sums, and no less than either.
LEMMA SumUnion ==
    ASSUME NEW S, IsFiniteSet(S), NEW f, \A x \in S : f[x] \in Nat, NEW sum, IsSum(sum, f, S),
           NEW A \in SUBSET S, NEW B \in SUBSET S
    PROVE  /\ sum[A \cup B] \in Nat /\ sum[A] \in Nat /\ sum[B] \in Nat
           /\ sum[A] <= sum[A \cup B] /\ sum[A \cup B] <= sum[A] + sum[B]
<1> DEFINE pick == [s \in SUBSET S |-> CHOOSE x \in s : TRUE]
           T == {s \in SUBSET S : sum[A] <= sum[A \cup s] /\ sum[A \cup s] <= sum[A] + sum[s]}
<1>1. IsPick(pick, S)
  BY AnyIsPick
<1>2. sum \in [SUBSET S -> Nat] /\ sum[{}] = 0
  BY SumType
<1>3. \A s \in SUBSET S : \A x \in s : sum[s] = f[x] + sum[s \ {x}]
  <2>1. TakesAny(sum, f, S)
    BY SumTakeAny
  <2> QED BY <2>1 DEF TakesAny
<1> HIDE DEF pick
<1>4. {} \in T
  <2>1. A \cup {} = A /\ {} \in SUBSET S
    OBVIOUS
  <2> QED BY <1>2, <2>1
<1>5. ASSUME NEW s \in SUBSET S, s # {}, s \ {pick[s]} \in T PROVE s \in T
  <2> DEFINE p == pick[s]
             r == s \ {p}
             ar == A \cup r
             as == A \cup s
  <2>1. p \in s /\ p \in S
    BY <1>1, <1>5 DEF IsPick
  <2>2. r \in SUBSET S /\ ar \in SUBSET S /\ as \in SUBSET S
    OBVIOUS
  <2>3. f[p] \in Nat /\ sum[s] = f[p] + sum[r]
    BY <1>3, <2>1
  <2>4. sum[A] \in Nat /\ sum[r] \in Nat /\ sum[ar] \in Nat
    BY <1>2, <2>2
  <2>5. sum[A] <= sum[ar] /\ sum[ar] <= sum[A] + sum[r]
    BY <1>5
  <2>6. sum[as] = sum[ar] \/ sum[as] = f[p] + sum[ar]
    <3>1. CASE p \in A
      <4>1. as = ar
        BY <2>1, <3>1
      <4> QED BY <4>1
    <3>2. CASE p \notin A
      <4>1. as \ {p} = ar /\ p \in as
        BY <2>1, <3>2
      <4> HIDE DEF ar, as, p
      <4> QED BY <1>3, <2>2, <4>1
    <3> QED BY <3>1, <3>2
  <2>7. ASSUME NEW fp \in Nat, NEW sa \in Nat, NEW sr \in Nat, NEW sar \in Nat,
               NEW ss, ss = fp + sr, NEW sas, sas = sar \/ sas = fp + sar,
               sa <= sar, sar <= sa + sr
        PROVE  sa <= sas /\ sas <= sa + ss
    BY <2>7
  <2>8. sum[A] <= sum[as] /\ sum[as] <= sum[A] + sum[s]
    <3> HIDE DEF ar, as, r, p
    <3> QED BY <2>3, <2>4, <2>5, <2>6, <2>7
  <2> QED BY <2>8
<1>6. B \in T
  <2> HIDE DEF T
  <2> QED BY <1>1, <1>4, <1>5, PickInduction
<1> QED BY <1>2, <1>6

-----------------------------------------------------------------------------
(* Functions that are recursive along a relation to a predecessor.         *)

\* f is base on Stop, and elsewhere what step makes of the predecessor's value.
Recursive(f, D, Stop, prev, base, step) ==
    \A x \in D : f[x] = IF x \in Stop THEN base ELSE step[<<f[prev[x]], x>>]

\* Outside Stop, the predecessor is in D and has a lower rank.
Descends(D, Stop, prev, rank) ==
    \A x \in D \ Stop : prev[x] \in D /\ rank[prev[x]] < rank[x]

\* What holds on Stop, and of an element when it holds of its predecessor,
\* holds everywhere.
LEMMA DescentInduction ==
    ASSUME NEW D, NEW Stop, NEW prev, NEW max \in Nat, NEW rank \in [D -> 0 .. max],
           Descends(D, Stop, prev, rank), NEW T,
           \A x \in D \cap Stop : x \in T,
           \A x \in D \ Stop : prev[x] \in T => x \in T
    PROVE  \A x \in D : x \in T
<1> DEFINE U == {k \in 0 .. max : \A x \in D : rank[x] <= k => x \in T}
<1>1. 0 \in U
  <2>1. ASSUME NEW x \in D, rank[x] <= 0 PROVE x \in T
    BY <2>1 DEF Descends
  <2> QED BY <2>1
<1>2. ASSUME NEW k \in U, k < max PROVE k + 1 \in U
  <2>1. ASSUME NEW x \in D, rank[x] <= k + 1 PROVE x \in T
    <3>1. CASE x \in Stop
      BY <3>1
    <3>2. CASE x \notin Stop
      <4>1. prev[x] \in D /\ rank[prev[x]] < rank[x]
        BY <3>2 DEF Descends
      <4>2. rank[prev[x]] \in 0 .. max /\ rank[x] \in 0 .. max
        BY <4>1
      <4>3. rank[prev[x]] <= k
        BY <2>1, <4>1, <4>2
      <4> QED BY <3>2, <4>1, <4>3
    <3> QED BY <3>1, <3>2
  <2> QED BY <1>2, <2>1
<1>3. U = 0 .. max
  <2>1. U \subseteq 0 .. max
    OBVIOUS
  <2> HIDE DEF U
  <2> QED BY <1>1, <1>2, <2>1, RangeInduction
<1>4. max \in U
  <2> HIDE DEF U
  <2> QED BY <1>3
<1> QED BY <1>4

\* The function exists.
LEMMA RecursionExists ==
    ASSUME NEW D, NEW Stop, NEW prev, NEW max \in Nat, NEW rank \in [D -> 0 .. max],
           Descends(D, Stop, prev, rank),
           NEW States, NEW base \in States, NEW step \in [States \X D -> States]
    PROVE  \E f \in [D -> States] : Recursive(f, D, Stop, prev, base, step)
<1> DEFINE E(k) == {x \in D : rank[x] <= k}
           Value(f, x) == IF x \in Stop THEN base ELSE step[<<f[prev[x]], x>>]
           U == {k \in 0 .. max : \E f \in [E(k) -> States] : \A x \in E(k) : f[x] = Value(f, x)}
<1>0. ASSUME NEW k \in 0 .. max, NEW x \in E(k + 1), x \notin Stop
      PROVE  prev[x] \in E(k)
  <2>1. prev[x] \in D /\ rank[prev[x]] < rank[x]
    BY <1>0 DEF Descends
  <2>2. rank[prev[x]] \in 0 .. max /\ rank[x] \in 0 .. max
    BY <2>1
  <2> QED BY <2>1, <2>2
<1>1. 0 \in U
  <2> DEFINE f == [x \in E(0) |-> base]
  <2>1. ASSUME NEW x \in E(0) PROVE x \in Stop
    <3>1. x \in D /\ rank[x] = 0
      OBVIOUS
    <3>2. CASE x \notin Stop
      <4>1. prev[x] \in D /\ rank[prev[x]] < 0
        BY <3>1, <3>2 DEF Descends
      <4>2. rank[prev[x]] \in 0 .. max
        BY <4>1
      <4> QED BY <4>1, <4>2
    <3> QED BY <3>2
  <2>2. f \in [E(0) -> States] /\ \A x \in E(0) : f[x] = Value(f, x)
    BY <2>1
  <2>3. 0 \in 0 .. max
    OBVIOUS
  <2> HIDE DEF f, Value, E
  <2> QED BY <2>2, <2>3
<1>2. ASSUME NEW k \in U, k < max PROVE k + 1 \in U
  <2>0. k \in 0 .. max /\ k + 1 \in 0 .. max
    BY <1>2
  <2>1. PICK f \in [E(k) -> States] : \A x \in E(k) : f[x] = Value(f, x)
    BY <1>2
  <2> DEFINE h == [x \in E(k + 1) |-> Value(f, x)]
  <2>2. ASSUME NEW x \in E(k) PROVE x \in E(k + 1) /\ h[x] = f[x]
    <3>1. x \in E(k + 1)
      <4>1. rank[x] \in 0 .. max
        OBVIOUS
      <4> QED BY <4>1, <2>0
    <3> HIDE DEF E, Value
    <3> QED BY <3>1, <2>1
  <2>3. ASSUME NEW x \in E(k + 1) PROVE h[x] \in States /\ h[x] = Value(h, x)
    <3>1. h[x] = Value(f, x)
      <4> HIDE DEF E, Value
      <4> QED OBVIOUS
    <3>2. CASE x \in Stop
      <4> HIDE DEF h
      <4> QED BY <3>1, <3>2
    <3>3. CASE x \notin Stop
      <4>1. prev[x] \in E(k)
        BY <2>0, <3>3, <1>0
      <4>2. x \in D
        OBVIOUS
      <4> HIDE DEF h, E
      <4>3. h[prev[x]] = f[prev[x]] /\ f[prev[x]] \in States
        BY <4>1, <2>2
      <4> QED BY <3>1, <3>3, <4>2, <4>3
    <3> QED BY <3>2, <3>3
  <2>4. h \in [E(k + 1) -> States]
    <3>1. h = [x \in E(k + 1) |-> h[x]]
      <4> HIDE DEF E, Value
      <4> QED OBVIOUS
    <3> HIDE DEF h, E, Value
    <3> QED BY <2>3, <3>1
  <2> HIDE DEF h, E, Value
  <2> QED BY <2>0, <2>3, <2>4
<1>3. U = 0 .. max
  <2>1. U \subseteq 0 .. max
    OBVIOUS
  <2> HIDE DEF U
  <2> QED BY <1>1, <1>2, <2>1, RangeInduction
<1>4. max \in U
  <2> HIDE DEF U
  <2> QED BY <1>3
<1>5. \E f \in [E(max) -> States] : \A x \in E(max) : f[x] = Value(f, x)
  <2> HIDE DEF E, Value
  <2> QED BY <1>4
<1>6. E(max) = D
  OBVIOUS
<1> HIDE DEF E
<1> QED BY <1>5, <1>6 DEF Recursive

-----------------------------------------------------------------------------
(* Folds over sequences: the fold of FoldLeft is a function of the sets of  *)
(* positions already seen.                                                 *)

\* g folds step over the positions 1 .. n.
FoldsUp(g, n, base, step) ==
    \A t \in SUBSET (1 .. n) :
        g[t] = IF t = {} THEN base ELSE step[<<g[t \ {Max(t)}], Max(t)>>]

\* There is such a function, if the fold stays within S.
LEMMA FoldWitness ==
    ASSUME NEW n \in Nat, NEW S, NEW base \in S, NEW step \in [S \X (1 .. n) -> S]
    PROVE  \E g \in [SUBSET (1 .. n) -> S] : FoldsUp(g, n, base, step)
<1> DEFINE D == 1 .. n
           pick == [t \in SUBSET D |-> Max(t)]
<1>1. IsFiniteSet(D) /\ IsPick(pick, D)
  BY LargestIsPick
<1>2. PICK g \in [SUBSET D -> S] : Folds(g, D, pick, base, step)
  <2>1. step \in [S \X D -> S] /\ base \in S
    OBVIOUS
  <2> HIDE DEF pick, D
  <2> QED BY <1>1, <2>1, FoldExists
<1>3. ASSUME NEW t \in SUBSET D
      PROVE  g[t] = IF t = {} THEN base ELSE step[<<g[t \ {Max(t)}], Max(t)>>]
  <2>1. pick[t] = Max(t)
    OBVIOUS
  <2> HIDE DEF pick
  <2> QED BY <1>2, <2>1 DEF Folds
<1> QED BY <1>3 DEF FoldsUp

\* What the first k positions give.
LEMMA FirstPositions ==
    ASSUME NEW n \in Nat, NEW k \in 1 .. n
    PROVE  /\ 1 .. k \in SUBSET (1 .. n) /\ 1 .. k # {}
           /\ Max(1 .. k) = k /\ (1 .. k) \ {Max(1 .. k)} = 1 .. k - 1
<1>1. k \in Nat /\ k > 0
  OBVIOUS
<1>2. Max(1 .. k) = k
  BY <1>1, MaxOfRange
<1> QED BY <1>1, <1>2

\* A fold stays within S if every step does.
LEMMA FoldTyped ==
    ASSUME NEW n \in Nat, NEW S, NEW f, f[{}] \in S,
           \A k \in 1 .. n : f[1 .. k - 1] \in S => f[1 .. k] \in S
    PROVE  f[1 .. n] \in S
<1> DEFINE T == {k \in 0 .. n : f[1 .. k] \in S}
<1>1. 0 \in T
  <2>1. 1 .. 0 = {}
    OBVIOUS
  <2> QED BY <2>1
<1>2. ASSUME NEW k \in T, k < n PROVE k + 1 \in T
  <2>1. k + 1 \in 1 .. n /\ (k + 1) - 1 = k
    BY <1>2
  <2>2. f[1 .. (k + 1) - 1] \in S
    BY <2>1
  <2> QED BY <2>1, <2>2
<1>3. T = 0 .. n
  <2>1. T \subseteq 0 .. n
    OBVIOUS
  <2> HIDE DEF T
  <2> QED BY <1>1, <1>2, <2>1, RangeInduction
<1>4. n \in T
  <2> HIDE DEF T
  <2> QED BY <1>3
<1> QED BY <1>4

=============================================================================
