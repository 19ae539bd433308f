----------------------------- MODULE SiteProofs ------------------------------
(***************************************************************************)
(* The operators that Site and the modules above it are built from: sums,  *)
(* sorts, maxima, selections from a sequence, rounding.  Each of them is   *)
(* defined by recursion, and no fact about a recursive definition can be   *)
(* instantiated from the library's induction theorems; so induction and    *)
(* recursion over the subsets of a finite set are stated here for sets and *)
(* functions, and everything else follows from these two.                  *)
(***************************************************************************)
EXTENDS Site, FiniteSetTheorems, FunctionTheorems, SequenceTheorems,
        WellFoundedInduction, TLAPS

-----------------------------------------------------------------------------
(* Induction: a property T of subsets that holds of one when it holds of   *)
(* all its proper subsets holds of all.                                    *)
LEMMA SubsetInduction ==
  ASSUME NEW S, IsFiniteSet(S), NEW T,
         \A s \in SUBSET S : (\A t \in SUBSET s : t # s => t \in T) => s \in T
  PROVE  \A s \in SUBSET S : s \in T
<1>. DEFINE R == StrictSubsetOrdering(S)
            U == (SUBSET S) \ T
<1>. SUFFICES ASSUME U # {} PROVE FALSE
  OBVIOUS
<1>1. IsWellFoundedOn(R, SUBSET S)
  <2>1. IsWellFoundedOn(R, FiniteSubsetsOf(S))
    BY FS_StrictSubsetOrderingWellFounded
  <2>2. FiniteSubsetsOf(S) = SUBSET S
    BY FS_FiniteSubsetsOfFinite
  <2>. QED
    BY <2>1, <2>2
<1>2. PICK s \in U : \A t \in U : <<t, s>> \notin R
  <2>1. U \subseteq SUBSET S
    OBVIOUS
  <2>. HIDE DEF U, R
  <2>. QED
    BY <1>1, <2>1, WFMin
<1>3. ASSUME NEW t \in SUBSET s, t # s
      PROVE  t \in T
  <2>1. t \in SUBSET S /\ s \in SUBSET S
    BY <1>2
  <2>2. <<t, s>> \in R
    BY <2>1, <1>3 DEF StrictSubsetOrdering
  <2>. QED
    BY <2>1, <2>2, <1>2
<1>. QED
  BY <1>2, <1>3

(* The same, one element at a time. *)
LEMMA SetInduction ==
  ASSUME NEW S, IsFiniteSet(S), NEW T, {} \in T,
         \A s \in SUBSET S : \A x \in S \ s : s \in T => s \cup {x} \in T
  PROVE  \A s \in SUBSET S : s \in T
<1>1. ASSUME NEW s \in SUBSET S, \A t \in SUBSET s : t # s => t \in T
      PROVE  s \in T
  <2>1. CASE s = {}
    BY <2>1
  <2>2. CASE s # {}
    <3>1. PICK x : x \in s
      BY <2>2
    <3>2. s \ {x} \in T
      BY <3>1, <1>1
    <3>3. s \ {x} \in SUBSET S /\ x \in S \ (s \ {x}) /\ (s \ {x}) \cup {x} = s
      BY <3>1
    <3>. QED
      BY <3>2, <3>3
  <2>. QED
    BY <2>1, <2>2
<1>. QED
  BY <1>1, SubsetInduction

(* Numbers up to n. *)
LEMMA UpToInduction ==
  ASSUME NEW n \in Nat, NEW T, 0 \in T,
         \A k \in 0..(n - 1) : k \in T => k + 1 \in T
  PROVE  \A k \in 0..n : k \in T
<1>. DEFINE Cards == {s \in SUBSET (1..n) : Cardinality(s) \in T}
<1>1. IsFiniteSet(1..n) /\ \A k \in 0..n : Cardinality(1..k) = k
  <2>1. \A k \in 0..n : Cardinality(1..k) = k
    BY FS_Interval
  <2>. QED
    BY <2>1, FS_Interval
<1>2. {} \in Cards
  BY FS_EmptySet
<1>3. ASSUME NEW s \in SUBSET (1..n), NEW x \in (1..n) \ s, s \in Cards
      PROVE  s \cup {x} \in Cards
  <2>1. IsFiniteSet(s) /\ Cardinality(s) \in Nat
    BY <1>1, FS_Subset, FS_CardinalityType
  <2>2. Cardinality(s \cup {x}) = Cardinality(s) + 1
    BY <2>1, FS_AddElement
  <2>3. Cardinality(s \cup {x}) <= n
    <3>1. s \cup {x} \in SUBSET (1..n)
      OBVIOUS
    <3>2. Cardinality(s \cup {x}) <= Cardinality(1..n)
      BY <3>1, <1>1, FS_Subset
    <3>. QED
      BY <3>2, <1>1
  <2>4. Cardinality(s) \in 0..(n - 1)
    BY <2>1, <2>2, <2>3
  <2>. QED
    BY <1>3, <2>2, <2>4
<1>4. \A s \in SUBSET (1..n) : s \in Cards
  BY <1>1, <1>2, <1>3, SetInduction
<1>. QED
  <2>. SUFFICES ASSUME NEW k \in 0..n PROVE k \in T
    OBVIOUS
  <2>1. 1..k \in SUBSET (1..n)
    OBVIOUS
  <2>. QED
    BY <2>1, <1>1, <1>4

(* Recursion: a function of the subsets of S that picks an element, goes   *)
(* on with the others and combines the two.                                *)
Folds(h, S, pick, combine, base) ==
  \A s \in SUBSET S :
    h[s] = IF s = {} THEN base ELSE combine[<<pick[s], h[s \ {pick[s]}]>>]

LEMMA Recursion ==
  ASSUME NEW S, IsFiniteSet(S), NEW V, NEW base \in V,
         NEW combine \in [S \X V -> V], NEW pick,
         \A s \in SUBSET S : s # {} => pick[s] \in s
  PROVE  \E h \in [SUBSET S -> V] : Folds(h, S, pick, combine, base)
<1>. DEFINE Small(k) == {s \in SUBSET S : Cardinality(s) <= k}
            Step(h, s) == IF s = {} THEN base ELSE combine[<<pick[s], h[s \ {pick[s]}]>>]
            Done(k) == \E h \in [Small(k) -> V] : \A s \in Small(k) : h[s] = Step(h, s)
            n == Cardinality(S)
            T == {k \in 0..n : Done(k)}
<1>1. n \in Nat /\ \A s \in SUBSET S : IsFiniteSet(s) /\ Cardinality(s) \in 0..n
  BY FS_Subset, FS_CardinalityType
<1>2. 0 \in T
  <2>1. Small(0) = {{}}
    BY <1>1, FS_EmptySet
  <2>2. [s \in Small(0) |-> base] \in [Small(0) -> V]
    OBVIOUS
  <2>3. \A s \in Small(0) : [t \in Small(0) |-> base][s] = Step([t \in Small(0) |-> base], s)
    BY <2>1
  <2>4. Done(0)
    BY <2>2, <2>3
  <2>. HIDE DEF Done
  <2>. QED
    BY <2>4, <1>1
<1>3. ASSUME NEW k \in 0..(n - 1), k \in T
      PROVE  k + 1 \in T
  <2>1. PICK h \in [Small(k) -> V] : \A s \in Small(k) : h[s] = Step(h, s)
    BY <1>3
  <2>2. ASSUME NEW s \in Small(k + 1), s # {}
        PROVE  pick[s] \in S /\ s \ {pick[s]} \in Small(k)
    <3>1. s \in SUBSET S /\ IsFiniteSet(s) /\ pick[s] \in s
      BY <1>1, <2>2
    <3>2. Cardinality(s \ {pick[s]}) = Cardinality(s) - 1
      BY <3>1, FS_RemoveElement
    <3>. QED
      BY <3>1, <3>2, <1>1
  <2>. DEFINE g == [s \in Small(k + 1) |-> Step(h, s)]
  <2>3. g \in [Small(k + 1) -> V]
    <3>1. ASSUME NEW s \in Small(k + 1) PROVE Step(h, s) \in V
      <4>1. CASE s = {}
        BY <4>1
      <4>2. CASE s # {}
        <5>1. pick[s] \in S /\ h[s \ {pick[s]}] \in V
          BY <2>2, <4>2
        <5>2. combine[<<pick[s], h[s \ {pick[s]}]>>] \in V
          BY <5>1
        <5>. QED
          BY <5>2, <4>2
      <4>. QED
        BY <4>1, <4>2
    <3>. QED
      BY <3>1
  <2>4. ASSUME NEW s \in Small(k) PROVE s \in Small(k + 1) /\ g[s] = h[s]
    BY <2>1, <1>1, <1>3
  <2>5. ASSUME NEW s \in Small(k + 1) PROVE g[s] = Step(g, s)
    <3>1. CASE s = {}
      BY <3>1
    <3>2. CASE s # {}
      <4>1. g[s \ {pick[s]}] = h[s \ {pick[s]}]
        BY <2>2, <2>4, <3>2
      <4>. QED
        BY <4>1
    <3>. QED
      BY <3>1, <3>2
  <2>6. Done(k + 1)
    BY <2>3, <2>5
  <2>. HIDE DEF Done
  <2>. QED
    BY <2>6, <1>3, <1>1
<1>4. Done(n)
  <2>. HIDE DEF Done
  <2>1. \A k \in 0..n : k \in T
    BY <1>1, <1>2, <1>3, UpToInduction
  <2>. QED
    BY <2>1, <1>1
<1>5. Small(n) = SUBSET S
  BY <1>1
<1>6. PICK h \in [Small(n) -> V] : \A s \in Small(n) : h[s] = Step(h, s)
  BY <1>4
<1>7. h \in [SUBSET S -> V]
  <2>. HIDE DEF Small
  <2>. QED
    BY <1>5, <1>6
<1>8. \A s \in SUBSET S : h[s] = Step(h, s)
  BY <1>5, <1>6
<1>. QED
  BY <1>7, <1>8 DEF Folds

-----------------------------------------------------------------------------
(* Sums.  A sum is the last value of a function that adds the elements of  *)
(* its set one at a time; the order does not matter.                       *)
Numeric(g, S) == \A x \in S : g[x] \in Int
Splits(h, g, s) == \A x \in s : h[s] = g[x] + h[s \ {x}]
Adds(h, g, S) ==
  /\ h \in [SUBSET S -> Int]
  /\ h[{}] = 0
  /\ \A s \in SUBSET S : Splits(h, g, s)

LEMMA SumIs ==
  ASSUME NEW S, IsFiniteSet(S), NEW g, Numeric(g, S)
  PROVE  \E h : Adds(h, g, S) /\ SumFunctionOnSet(g, S) = h[S]
<1>. DEFINE pick == [s \in SUBSET S |-> CHOOSE y \in s : TRUE]
            combine == [q \in S \X Int |-> g[q[1]] + q[2]]
            Step(h, s) == IF s = {} THEN 0
                          ELSE g[CHOOSE y \in s : TRUE] + h[s \ {CHOOSE y \in s : TRUE}]
            f == CHOOSE h : h = [s \in SUBSET S |-> Step(h, s)]
<1>1. SumFunctionOnSet(g, S) = f[S]
  BY DEF SumFunctionOnSet, FoldFunctionOnSet, MapThenFoldSet
<1>2. \A s \in SUBSET S : s # {} => pick[s] \in s
  OBVIOUS
<1>3. combine \in [S \X Int -> Int]
  BY DEF Numeric
<1>4. PICK k \in [SUBSET S -> Int] : Folds(k, S, pick, combine, 0)
  <2>1. 0 \in Int
    OBVIOUS
  <2>. HIDE DEF pick, combine
  <2>. QED
    BY <1>2, <1>3, <2>1, Recursion
<1>5. k = [s \in SUBSET S |-> Step(k, s)]
  <2>1. ASSUME NEW s \in SUBSET S PROVE k[s] = Step(k, s)
    <3>1. CASE s = {}
      BY <1>4, <3>1 DEF Folds
    <3>2. CASE s # {}
      <4>1. k[s] = combine[<<pick[s], k[s \ {pick[s]}]>>]
        BY <1>4, <3>2 DEF Folds
      <4>2. pick[s] \in S /\ k[s \ {pick[s]}] \in Int
        BY <1>2, <1>4, <3>2
      <4>3. \A x \in S, y \in Int : combine[<<x, y>>] = g[x] + y
        OBVIOUS
      <4>4. pick[s] = CHOOSE y \in s : TRUE
        OBVIOUS
      <4>. HIDE DEF pick, combine
      <4>. QED
        BY <4>1, <4>2, <4>3, <4>4, <3>2
    <3>. QED
      BY <3>1, <3>2
  <2>. QED
    BY <1>4, <2>1
<1>6. f = [s \in SUBSET S |-> Step(f, s)]
  BY <1>5
<1>7. f[{}] = 0
  BY <1>6
<1>8. ASSUME NEW s \in SUBSET S, s # {}
      PROVE  pick[s] \in s /\ f[s] = g[pick[s]] + f[s \ {pick[s]}]
  BY <1>6, <1>8
<1>. HIDE DEF f, pick, combine, Step
<1>9. \A s \in SUBSET S : f[s] \in Int
  <2>. DEFINE T == {s \in SUBSET S : f[s] \in Int}
  <2>1. ASSUME NEW s \in SUBSET S, \A t \in SUBSET s : t # s => t \in T
        PROVE  s \in T
    <3>1. CASE s = {}
      BY <3>1, <1>7
    <3>2. CASE s # {}
      <4>1. s \ {pick[s]} \in T
        BY <1>8, <2>1, <3>2
      <4>. QED
        BY <4>1, <1>8, <3>2 DEF Numeric
    <3>. QED
      BY <3>1, <3>2
  <2>2. \A s \in SUBSET S : s \in T
    <3>. HIDE DEF T
    <3>. QED
      BY <2>1, SubsetInduction
  <2>. QED
    BY <2>2
<1>10. \A s \in SUBSET S : Splits(f, g, s)
  <2>. DEFINE T == {s \in SUBSET S : Splits(f, g, s)}
  <2>1. ASSUME NEW s \in SUBSET S, \A t \in SUBSET s : t # s => t \in T, NEW x \in s
        PROVE  f[s] = g[x] + f[s \ {x}]
    <3>0. \A t \in SUBSET s : t # s => \A z \in t : f[t] = g[z] + f[t \ {z}]
      BY <2>1 DEF Splits
    <3>1. PICK y \in s : y = pick[s] /\ f[s] = g[y] + f[s \ {y}]
      BY <1>8
    <3>2. CASE x = y
      BY <3>1, <3>2
    <3>3. CASE x # y
      <4>1. f[s \ {y}] = g[x] + f[(s \ {y}) \ {x}]
        BY <3>0, <3>3
      <4>2. f[s \ {x}] = g[y] + f[(s \ {x}) \ {y}]
        BY <3>0, <3>3
      <4>3. (s \ {y}) \ {x} = (s \ {x}) \ {y}
        OBVIOUS
      <4>4. PICK c \in Int : c = f[(s \ {x}) \ {y}]
        BY <1>9
      <4>5. PICK a \in Int, b \in Int : a = g[x] /\ b = g[y]
        BY DEF Numeric
      <4>6. f[s] = b + (a + c) /\ f[s \ {x}] = b + c
        BY <3>1, <4>1, <4>2, <4>3, <4>4, <4>5
      <4>. QED
        BY <4>5, <4>6
    <3>. QED
      BY <3>2, <3>3
  <2>2. ASSUME NEW s \in SUBSET S, \A t \in SUBSET s : t # s => t \in T
        PROVE  s \in T
    BY <2>1, <2>2 DEF Splits
  <2>3. \A s \in SUBSET S : s \in T
    <3>. HIDE DEF T
    <3>. QED
      BY <2>2, SubsetInduction
  <2>. QED
    BY <2>3
<1>11. f \in [SUBSET S -> Int]
  BY <1>6, <1>9
<1>. QED
  BY <1>1, <1>7, <1>10, <1>11 DEF Adds

LEMMA SumInt ==
  ASSUME NEW S, IsFiniteSet(S), NEW g, Numeric(g, S)
  PROVE  SumFunctionOnSet(g, S) \in Int
<1>1. PICK h : Adds(h, g, S) /\ SumFunctionOnSet(g, S) = h[S]
  BY SumIs
<1>. QED
  BY <1>1 DEF Adds

LEMMA SumEmpty ==
  ASSUME NEW g
  PROVE  SumFunctionOnSet(g, {}) = 0
  BY SumIs, FS_EmptySet DEF Adds, Numeric

(* Term by term: what relates the terms of two sums relates the sums. *)
LEMMA SumLess ==
  ASSUME NEW S, IsFiniteSet(S), NEW f, Numeric(f, S), NEW g, Numeric(g, S),
         \A x \in S : f[x] <= g[x]
  PROVE  SumFunctionOnSet(f, S) <= SumFunctionOnSet(g, S)
<1>1. PICK h : Adds(h, f, S) /\ SumFunctionOnSet(f, S) = h[S]
  BY SumIs
<1>2. PICK k : Adds(k, g, S) /\ SumFunctionOnSet(g, S) = k[S]
  BY SumIs
<1>. DEFINE T == {s \in SUBSET S : h[s] <= k[s]}
<1>3. {} \in T
  BY <1>1, <1>2 DEF Adds
<1>4. ASSUME NEW s \in SUBSET S, NEW x \in S \ s, s \in T
      PROVE  s \cup {x} \in T
  <2>1. s \cup {x} \in SUBSET S /\ x \in s \cup {x} /\ (s \cup {x}) \ {x} = s
    OBVIOUS
  <2>2. h[s \cup {x}] = f[x] + h[s] /\ k[s \cup {x}] = g[x] + k[s]
    BY <1>1, <1>2, <2>1 DEF Adds, Splits
  <2>3. h[s] \in Int /\ k[s] \in Int /\ f[x] \in Int /\ g[x] \in Int
    BY <1>1, <1>2 DEF Adds, Numeric
  <2>. QED
    BY <1>4, <2>1, <2>2, <2>3
<1>5. S \in T
  BY <1>3, <1>4, SetInduction
<1>. QED
  BY <1>1, <1>2, <1>5

LEMMA SumScaled ==
  ASSUME NEW S, IsFiniteSet(S), NEW f, Numeric(f, S), NEW g, NEW c \in Int,
         \A x \in S : g[x] = c * f[x]
  PROVE  SumFunctionOnSet(g, S) = c * SumFunctionOnSet(f, S)
<1>1. PICK h : Adds(h, f, S) /\ SumFunctionOnSet(f, S) = h[S]
  BY SumIs
<1>2. PICK k : Adds(k, g, S) /\ SumFunctionOnSet(g, S) = k[S]
  BY SumIs DEF Numeric
<1>. DEFINE T == {s \in SUBSET S : k[s] = c * h[s]}
<1>3. {} \in T
  BY <1>1, <1>2 DEF Adds
<1>4. ASSUME NEW s \in SUBSET S, NEW x \in S \ s, s \in T
      PROVE  s \cup {x} \in T
  <2>1. s \cup {x} \in SUBSET S /\ x \in s \cup {x} /\ (s \cup {x}) \ {x} = s
    OBVIOUS
  <2>2. h[s \cup {x}] = f[x] + h[s] /\ k[s \cup {x}] = g[x] + k[s]
    BY <1>1, <1>2, <2>1 DEF Adds, Splits
  <2>3. h[s] \in Int /\ f[x] \in Int
    BY <1>1 DEF Adds, Numeric
  <2>4. \A a, b \in Int : c * a + c * b = c * (a + b)
    OBVIOUS
  <2>5. k[s] = c * h[s] /\ g[x] = c * f[x]
    BY <1>4
  <2>. QED
    BY <2>1, <2>2, <2>3, <2>4, <2>5
<1>5. S \in T
  BY <1>3, <1>4, SetInduction
<1>. QED
  BY <1>1, <1>2, <1>5

LEMMA SumConstant ==
  ASSUME NEW S, IsFiniteSet(S), NEW g, NEW c \in Int, \A x \in S : g[x] = c
  PROVE  SumFunctionOnSet(g, S) = c * Cardinality(S)
<1>1. PICK h : Adds(h, g, S) /\ SumFunctionOnSet(g, S) = h[S]
  BY SumIs DEF Numeric
<1>. DEFINE T == {s \in SUBSET S : h[s] = c * Cardinality(s)}
<1>2. {} \in T
  BY <1>1, FS_EmptySet DEF Adds
<1>3. ASSUME NEW s \in SUBSET S, NEW x \in S \ s, s \in T
      PROVE  s \cup {x} \in T
  <2>1. s \cup {x} \in SUBSET S /\ x \in s \cup {x} /\ (s \cup {x}) \ {x} = s
    OBVIOUS
  <2>2. h[s \cup {x}] = g[x] + h[s]
    BY <1>1, <2>1 DEF Adds, Splits
  <2>3. Cardinality(s) \in Nat /\ Cardinality(s \cup {x}) = Cardinality(s) + 1
    BY FS_Subset, FS_CardinalityType, FS_AddElement
  <2>4. \A a \in Int : c + c * a = c * (a + 1)
    OBVIOUS
  <2>5. h[s] = c * Cardinality(s) /\ g[x] = c
    BY <1>3
  <2>. QED
    BY <2>1, <2>2, <2>3, <2>4, <2>5
<1>4. S \in T
  BY <1>2, <1>3, SetInduction
<1>. QED
  BY <1>1, <1>4

(* One term and the others. *)
LEMMA SumSplit ==
  ASSUME NEW S, IsFiniteSet(S), NEW g, Numeric(g, S), NEW x \in S
  PROVE  SumFunctionOnSet(g, S) = g[x] + SumFunctionOnSet(g, S \ {x})
<1>1. PICK h : Adds(h, g, S) /\ SumFunctionOnSet(g, S) = h[S]
  BY SumIs
<1>2. IsFiniteSet(S \ {x}) /\ Numeric(g, S \ {x})
  BY FS_RemoveElement DEF Numeric
<1>3. PICK k : Adds(k, g, S \ {x}) /\ SumFunctionOnSet(g, S \ {x}) = k[S \ {x}]
  BY <1>2, SumIs
<1>. DEFINE T == {s \in SUBSET (S \ {x}) : h[s] = k[s]}
<1>4. {} \in T
  BY <1>1, <1>3 DEF Adds
<1>5. ASSUME NEW s \in SUBSET (S \ {x}), NEW y \in (S \ {x}) \ s, s \in T
      PROVE  s \cup {y} \in T
  <2>1. /\ s \cup {y} \in SUBSET (S \ {x}) /\ s \cup {y} \in SUBSET S
        /\ y \in s \cup {y} /\ (s \cup {y}) \ {y} = s
    OBVIOUS
  <2>2. h[s \cup {y}] = g[y] + h[s] /\ k[s \cup {y}] = g[y] + k[s]
    BY <1>1, <1>3, <2>1 DEF Adds, Splits
  <2>. QED
    BY <1>5, <2>1, <2>2
<1>6. S \ {x} \in T
  <2>. DEFINE U == S \ {x}
  <2>. HIDE DEF T
  <2>1. \A s \in SUBSET U : s \in T
    <3>1. \A s \in SUBSET U : \A y \in U \ s : s \in T => s \cup {y} \in T
      BY <1>5
    <3>2. IsFiniteSet(U)
      BY <1>2
    <3>. HIDE DEF U
    <3>. QED
      BY <1>4, <3>1, <3>2, SetInduction
  <2>. QED
    BY <2>1
<1>7. h[S] = g[x] + h[S \ {x}]
  BY <1>1 DEF Adds, Splits
<1>. QED
  BY <1>1, <1>3, <1>6, <1>7

-----------------------------------------------------------------------------
(* Sorts.  What is put first must exist: below is a strict order.          *)
Orders(below, S) ==
  /\ \A x \in S : <<x, x>> \notin below
  /\ \A x, y, z \in S : <<x, y>> \in below /\ <<y, z>> \in below => <<x, z>> \in below
IsFirst(x, s, below) == x \in s /\ \A y \in s : <<y, x>> \notin below

LEMMA FirstExists ==
  ASSUME NEW S, IsFiniteSet(S), NEW below, Orders(below, S), S # {}
  PROVE  \E x \in S : IsFirst(x, S, below)
<1>. DEFINE T == {s \in SUBSET S : s # {} => \E x \in s : IsFirst(x, s, below)}
<1>1. {} \in T
  OBVIOUS
<1>2. ASSUME NEW s \in SUBSET S, NEW z \in S \ s, s \in T
      PROVE  s \cup {z} \in T
  <2>1. CASE s = {}
    <3>1. IsFirst(z, {z}, below)
      BY DEF IsFirst, Orders
    <3>. QED
      BY <2>1, <3>1
  <2>2. CASE s # {}
    <3>1. PICK x \in s : IsFirst(x, s, below)
      BY <1>2, <2>2
    <3>2. CASE <<z, x>> \in below
      <4>1. IsFirst(z, s \cup {z}, below)
        BY <3>1, <3>2 DEF IsFirst, Orders
      <4>. QED
        BY <4>1
    <3>3. CASE <<z, x>> \notin below
      <4>1. IsFirst(x, s \cup {z}, below)
        BY <3>1, <3>3 DEF IsFirst
      <4>. QED
        BY <4>1
    <3>. QED
      BY <3>2, <3>3
  <2>. QED
    BY <2>1, <2>2
<1>3. S \in T
  <2>. HIDE DEF T
  <2>. QED
    BY <1>1, <1>2, SetInduction
<1>. QED
  BY <1>3

FirstOf(s, below) == CHOOSE x \in s : \A y \in s : <<y, x>> \notin below
Sorts(q, s, below) ==
  /\ q \in Seq(s)
  /\ Len(q) = Cardinality(s)
  /\ \A x \in s : \E i \in 1..Len(q) : q[i] = x
  /\ \A i, j \in 1..Len(q) : i < j => q[i] # q[j] /\ <<q[j], q[i]>> \notin below

(* sorted(): every element once, none before one that is below it. *)
LEMMA SortIs ==
  ASSUME NEW S, IsFiniteSet(S), NEW below, Orders(below, S)
  PROVE  Sorts(SortBy(S, below), S, below)
<1>. DEFINE pick == [s \in SUBSET S |-> FirstOf(s, below)]
            combine == [q \in S \X Seq(S) |-> <<q[1]>> \o q[2]]
            Step(h, s) == IF s = {} THEN << >> ELSE <<FirstOf(s, below)>> \o h[s \ {FirstOf(s, below)}]
            Good(h) == h = [s \in SUBSET S |-> Step(h, s)]
            f == CHOOSE h : Good(h)
<1>1. SortBy(S, below) = f[S]
  BY DEF SortBy, FirstOf
<1>2. ASSUME NEW s \in SUBSET S, s # {}
      PROVE  pick[s] = FirstOf(s, below) /\ IsFirst(FirstOf(s, below), s, below)
  <2>1. Orders(below, s) /\ IsFiniteSet(s)
    BY FS_Subset DEF Orders
  <2>2. \E x \in s : \A y \in s : <<y, x>> \notin below
    BY <1>2, <2>1, FirstExists DEF IsFirst
  <2>. QED
    BY <2>2 DEF IsFirst, FirstOf
<1>3. /\ combine \in [S \X Seq(S) -> Seq(S)] /\ << >> \in Seq(S)
      /\ \A x \in S, q \in Seq(S) : combine[<<x, q>>] = <<x>> \o q
  OBVIOUS
<1>. HIDE DEF combine, pick
<1>4. PICK k \in [SUBSET S -> Seq(S)] : Folds(k, S, pick, combine, << >>)
  <2>1. \A s \in SUBSET S : s # {} => pick[s] \in s
    BY <1>2 DEF IsFirst
  <2>. QED
    BY <1>3, <2>1, Recursion
<1>5. Good(k)
  <2>1. ASSUME NEW s \in SUBSET S PROVE k[s] = Step(k, s)
    <3>1. CASE s = {}
      BY <1>4, <3>1 DEF Folds
    <3>2. CASE s # {}
      <4>1. k[s] = combine[<<pick[s], k[s \ {pick[s]}]>>]
        BY <1>4, <3>2 DEF Folds
      <4>2. pick[s] \in S /\ k[s \ {pick[s]}] \in Seq(S) /\ pick[s] = FirstOf(s, below)
        BY <1>2, <1>4, <3>2 DEF IsFirst
      <4>. QED
        BY <1>3, <4>1, <4>2, <3>2
    <3>. QED
      BY <3>1, <3>2
  <2>. QED
    BY <1>4, <2>1
<1>6. Good(f)
  <2>. HIDE DEF Good
  <2>. QED
    BY <1>5
<1>. HIDE DEF f
<1>7. f[{}] = << >>
  BY <1>6
<1>8. ASSUME NEW s \in SUBSET S, s # {}
      PROVE  f[s] = <<FirstOf(s, below)>> \o f[s \ {FirstOf(s, below)}]
  BY <1>6, <1>8
<1>. HIDE DEF Step
<1>. DEFINE T == {s \in SUBSET S : Sorts(f[s], s, below)}
<1>9. ASSUME NEW s \in SUBSET S, \A t \in SUBSET s : t # s => t \in T
      PROVE  s \in T
  <2>1. CASE s = {}
    <3>1. f[s] = << >> /\ Cardinality(s) = 0
      BY <2>1, <1>7, FS_EmptySet
    <3>2. Sorts(f[s], s, below)
      BY <3>1, <2>1 DEF Sorts
    <3>. QED
      BY <3>2
  <2>2. CASE s # {}
    <3>. DEFINE x == FirstOf(s, below)
                r == s \ {x}
    <3>1. x \in s /\ (\A y \in s : <<y, x>> \notin below) /\ f[s] = <<x>> \o f[r]
      BY <1>2, <1>8, <2>2 DEF IsFirst
    <3>2. Sorts(f[r], r, below)
      <4>1. r \in SUBSET s /\ r # s
        BY <3>1
      <4>. QED
        BY <4>1, <1>9
    <3>3. Cardinality(r) = Cardinality(s) - 1 /\ Cardinality(s) \in Nat
      BY <3>1, FS_Subset, FS_RemoveElement, FS_CardinalityType
    <3>4. s = r \cup {x} /\ x \notin r
      BY <3>1
    <3>. HIDE DEF x, r
    <3>. DEFINE q == f[r]
                p == <<x>> \o q
    <3>5. q \in Seq(s) /\ <<x>> \in Seq(s)
      BY <3>2, <3>4, SeqMonotonic DEF Sorts
    <3>. HIDE DEF q
    <3>6. /\ p \in Seq(s) /\ Len(p) = Len(q) + 1 /\ p[1] = x
          /\ \A i \in 1..Len(q) : p[i + 1] = q[i]
      BY <3>5
    <3>. HIDE DEF p
    <3>7. Sorts(q, r, below) /\ f[s] = p
      BY <3>1, <3>2 DEF p, q
    <3>8. Len(q) \in Nat /\ \A i \in 1..Len(q) : q[i] \in r
      BY <3>7 DEF Sorts
    <3>9. Len(p) = Cardinality(s)
      BY <3>3, <3>6, <3>7 DEF Sorts
    <3>10. ASSUME NEW y \in s PROVE \E i \in 1..Len(p) : p[i] = y
      <4>1. CASE y = x
        BY <4>1, <3>6, <3>8
      <4>2. CASE y # x
        <5>1. PICK i \in 1..Len(q) : q[i] = y
          BY <4>2, <3>4, <3>7 DEF Sorts
        <5>. QED
          BY <5>1, <3>6, <3>8
      <4>. QED
        BY <4>1, <4>2
    <3>11. ASSUME NEW i \in 1..Len(p), NEW j \in 1..Len(p), i < j
           PROVE  p[i] # p[j] /\ <<p[j], p[i]>> \notin below
      <4>1. j - 1 \in 1..Len(q) /\ p[j] = q[j - 1] /\ p[j] \in r
        BY <3>6, <3>8, <3>11
      <4>2. CASE i = 1
        BY <4>1, <4>2, <3>1, <3>4, <3>6
      <4>3. CASE i # 1
        <5>1. i - 1 \in 1..Len(q) /\ p[i] = q[i - 1] /\ i - 1 < j - 1
          BY <3>6, <3>8, <3>11, <4>3
        <5>. QED
          BY <5>1, <4>1, <3>7 DEF Sorts
      <4>. QED
        BY <4>2, <4>3
    <3>. QED
      BY <3>6, <3>7, <3>9, <3>10, <3>11 DEF Sorts
  <2>. QED
    BY <2>1, <2>2
<1>10. S \in T
  <2>. HIDE DEF T
  <2>. QED
    BY <1>9, SubsetInduction
<1>. QED
  BY <1>1, <1>10

-----------------------------------------------------------------------------
(* Finite sets: maxima, images, the elements of a sequence.                *)
LEMMA MaxIs ==
  ASSUME NEW S \in SUBSET Int, IsFiniteSet(S), S # {}
  PROVE  Max(S) \in S /\ \A y \in S : y <= Max(S)
<1>. DEFINE below == {q \in S \X S : q[1] > q[2]}
<1>1. Orders(below, S)
  BY DEF Orders
<1>2. PICK x \in S : IsFirst(x, S, below)
  BY <1>1, FirstExists
<1>3. ASSUME NEW y \in S PROVE x >= y
  <2>1. <<y, x>> \notin below
    BY <1>2 DEF IsFirst
  <2>2. ~ y > x
    BY <2>1
  <2>. QED
    BY <2>2
<1>. QED
  BY <1>3 DEF Max

LEMMA ImageFinite ==
  ASSUME NEW S, IsFiniteSet(S), NEW f
  PROVE  IsFiniteSet({f[x] : x \in S}) /\ Cardinality({f[x] : x \in S}) <= Cardinality(S)
<1>. DEFINE g == [x \in S |-> f[x]]
            T == {f[x] : x \in S}
<1>1. g \in Surjection(S, T)
  BY DEF Surjection
<1>. QED
  BY <1>1, FS_Surjection

LEMMA Places ==
  ASSUME NEW V, NEW s \in Seq(V)
  PROVE  /\ Len(s) \in Nat /\ DOMAIN s = 1..Len(s)
         /\ \A i \in 1..Len(s) : s[i] \in V
         /\ IsFiniteSet(1..Len(s)) /\ Cardinality(1..Len(s)) = Len(s)
         /\ ToSet(s) = {s[i] : i \in 1..Len(s)}
<1>1. Len(s) \in Nat /\ DOMAIN s = 1..Len(s) /\ s \in [1..Len(s) -> V]
  BY LenProperties
<1>. DEFINE n == Len(s)
<1>2. n \in Nat
  BY <1>1
<1>. HIDE DEF n
<1>3. IsFiniteSet(1..n) /\ Cardinality(1..n) = n
  BY <1>2, FS_Interval
<1>. QED
  BY <1>1, <1>3 DEF n, ToSet

LEMMA FunctionIsSeq ==
  ASSUME NEW V, NEW n \in Nat, NEW f \in [1..n -> V]
  PROVE  f \in Seq(V) /\ Len(f) = n
<1>1. f \in Seq(V)
  BY SeqDef
<1>2. DOMAIN f = 1..n /\ DOMAIN f = 1..Len(f) /\ Len(f) \in Nat
  BY <1>1, LenProperties
<1>. QED
  BY <1>1, <1>2

LEMMA ElementsFinite ==
  ASSUME NEW V, NEW s \in Seq(V)
  PROVE  /\ IsFiniteSet(ToSet(s)) /\ ToSet(s) \subseteq V
         /\ Cardinality(ToSet(s)) <= Len(s)
         /\ \A x \in ToSet(s) : \E i \in 1..Len(s) : s[i] = x
         /\ \A i \in 1..Len(s) : s[i] \in ToSet(s)
<1>1. IsFiniteSet(ToSet(s)) /\ Cardinality(ToSet(s)) <= Len(s)
  BY Places, ImageFinite
<1>. QED
  BY <1>1, Places

(* Elements that differ are as many as the places. *)
LEMMA ElementsCounted ==
  ASSUME NEW V, NEW s \in Seq(V),
         \A i, j \in 1..Len(s) : i < j => s[i] # s[j]
  PROVE  Cardinality(ToSet(s)) = Len(s)
<1>. DEFINE T == ToSet(s)
            I == 1..Len(s)
<1>1. /\ I \subseteq Nat /\ DOMAIN s = I /\ T = {s[i] : i \in I}
      /\ IsFiniteSet(I) /\ Cardinality(I) = Len(s)
  BY Places
<1>2. \A i, j \in I : s[i] = s[j] => i = j
  <2>. SUFFICES ASSUME NEW i \in I, NEW j \in I, i # j PROVE s[i] # s[j]
    OBVIOUS
  <2>1. i < j \/ j < i
    BY <1>1
  <2>. QED
    BY <2>1
<1>. HIDE DEF I, T
<1>3. s \in [I -> T]
  <2>1. \E U : s \in [I -> U]
    BY LenProperties DEF I
  <2>. QED
    BY <1>1, <2>1
<1>4. s \in Surjection(I, T)
  BY <1>1, <1>3 DEF Surjection
<1>5. s \in Injection(I, T)
  BY <1>2, <1>3 DEF Injection, IsInjective
<1>. QED
  BY <1>1, <1>4, <1>5, FS_Surjection DEF T

(* A sort holds its set. *)
LEMMA SortHolds ==
  ASSUME NEW S, NEW below, NEW q, Sorts(q, S, below)
  PROVE  q \in Seq(S) /\ ToSet(q) = S
<1>1. q \in Seq(S) /\ \A x \in S : \E i \in 1..Len(q) : q[i] = x
  BY DEF Sorts
<1>2. ToSet(q) \subseteq S /\ \A i \in 1..Len(q) : q[i] \in ToSet(q)
  BY <1>1, ElementsFinite
<1>. QED
  BY <1>1, <1>2

-----------------------------------------------------------------------------
(* Sequences put one after the other, and selections from a sequence.      *)
LEMMA Joined ==
  ASSUME NEW V, NEW a \in Seq(V), NEW b \in Seq(V)
  PROVE  /\ a \o b \in Seq(V) /\ Len(a \o b) = Len(a) + Len(b)
         /\ ToSet(a \o b) = ToSet(a) \cup ToSet(b)
<1>1. /\ a \o b \in Seq(V) /\ Len(a \o b) = Len(a) + Len(b)
      /\ \A i \in 1..(Len(a) + Len(b)) :
           (a \o b)[i] = IF i <= Len(a) THEN a[i] ELSE b[i - Len(a)]
  BY ConcatProperties
<1>2. /\ ToSet(a) = {a[i] : i \in 1..Len(a)} /\ ToSet(b) = {b[i] : i \in 1..Len(b)}
      /\ Len(a) \in Nat /\ Len(b) \in Nat
  BY Places
<1>3. ToSet(a \o b) = {(a \o b)[i] : i \in 1..(Len(a) + Len(b))}
  BY <1>1, Places
<1>. DEFINE m == Len(a)
            n == Len(b)
            c == a \o b
<1>. HIDE DEF m, n, c
<1>4. ASSUME NEW i \in 1..(m + n)
      PROVE  c[i] \in ToSet(a) \cup ToSet(b)
  <2>1. CASE i <= m
    BY <2>1, <1>1, <1>2 DEF m, n, c
  <2>2. CASE i > m
    <3>1. i - m \in 1..n
      BY <2>2, <1>2 DEF m, n
    <3>. QED
      BY <2>2, <3>1, <1>1, <1>2 DEF m, n, c
  <2>. QED
    BY <2>1, <2>2, <1>2 DEF m, n
<1>5. ASSUME NEW i \in 1..m PROVE c[i] = a[i] /\ i \in 1..(m + n)
  BY <1>1, <1>2 DEF m, n, c
<1>6. ASSUME NEW i \in 1..n PROVE c[m + i] = b[i] /\ m + i \in 1..(m + n)
  <2>1. m + i \in 1..(m + n) /\ ~ (m + i <= m) /\ (m + i) - m = i
    BY <1>2 DEF m, n
  <2>. QED
    BY <2>1, <1>1 DEF m, n, c
<1>7. ToSet(c) = {c[i] : i \in 1..(m + n)}
  BY <1>3 DEF m, n, c
<1>8. ToSet(a) = {a[i] : i \in 1..m} /\ ToSet(b) = {b[i] : i \in 1..n}
  BY <1>2 DEF m, n
<1>9. ToSet(c) = ToSet(a) \cup ToSet(b)
  BY <1>4, <1>5, <1>6, <1>7, <1>8
<1>. QED
  BY <1>1, <1>9 DEF c

LEMMA FlattenIs ==
  ASSUME NEW V, NEW ss \in Seq(Seq(V))
  PROVE  /\ FlattenSeq(ss) \in Seq(V)
         /\ ToSet(FlattenSeq(ss)) = UNION {ToSet(ss[i]) : i \in DOMAIN ss}
         /\ (\A i \in DOMAIN ss : Len(ss[i]) <= 1) => Len(FlattenSeq(ss)) <= Len(ss)
<1>. DEFINE n == Len(ss)
            Step(f, i) == IF i = 1 THEN ss[i] ELSE f[i - 1] \o ss[i]
            Good(f) == f = [i \in 1..n |-> Step(f, i)]
            h == CHOOSE f : Good(f)
            Done(k) == \E f \in [1..k -> Seq(V)] : \A i \in 1..k : f[i] = Step(f, i)
            T == {k \in 0..n : Done(k)}
<1>0. n \in Nat /\ DOMAIN ss = 1..n /\ \A i \in 1..n : ss[i] \in Seq(V)
  BY Places
<1>1. CASE n = 0
  <2>1. FlattenSeq(ss) = ss /\ ss = << >> /\ DOMAIN ss = {}
    BY <1>1 DEF FlattenSeq
  <2>2. ToSet(<< >>) = {} /\ << >> \in Seq(V)
    BY DEF ToSet
  <2>. QED
    BY <2>1, <2>2
<1>2. CASE n # 0
  <2>1. FlattenSeq(ss) = h[n]
    BY <1>2 DEF FlattenSeq
  <2>2. 0 \in T
    <3>. DEFINE f == [i \in 1..0 |-> << >>]
    <3>1. f \in [1..0 -> Seq(V)] /\ \A i \in 1..0 : f[i] = Step(f, i)
      OBVIOUS
    <3>. HIDE DEF f
    <3>2. Done(0)
      BY <3>1
    <3>. HIDE DEF Done
    <3>. QED
      BY <3>2, <1>0
  <2>3. ASSUME NEW k \in 0..(n - 1), k \in T
        PROVE  k + 1 \in T
    <3>1. PICK f \in [1..k -> Seq(V)] : \A i \in 1..k : f[i] = Step(f, i)
      BY <2>3
    <3>. DEFINE g == [i \in 1..(k + 1) |-> Step(f, i)]
    <3>2. ASSUME NEW i \in 1..(k + 1) PROVE g[i] \in Seq(V)
      <4>1. CASE i = 1
        BY <4>1, <1>0
      <4>2. CASE i # 1
        <5>1. i - 1 \in 1..k /\ i \in 1..n
          BY <4>2, <2>3, <1>0
        <5>. QED
          BY <5>1, <4>2, <3>1, <1>0
      <4>. QED
        BY <4>1, <4>2
    <3>3. ASSUME NEW i \in 1..k PROVE g[i] = f[i]
      <4>1. i \in 1..(k + 1)
        BY <2>3
      <4>. QED
        BY <4>1, <3>1
    <3>4. ASSUME NEW i \in 1..(k + 1) PROVE g[i] = Step(g, i)
      <4>1. CASE i = 1
        BY <4>1
      <4>2. CASE i # 1
        <5>1. i - 1 \in 1..k
          BY <4>2, <2>3
        <5>2. g[i - 1] = f[i - 1]
          BY <5>1, <3>3
        <5>. QED
          BY <5>2, <4>2
      <4>. QED
        BY <4>1, <4>2
    <3>5. Done(k + 1)
      <4>1. g \in [1..(k + 1) -> Seq(V)]
        BY <3>2
      <4>. QED
        BY <4>1, <3>4
    <3>. HIDE DEF Done
    <3>. QED
      BY <3>5, <2>3, <1>0
  <2>4. Done(n)
    <3>. HIDE DEF Done
    <3>1. \A k \in 0..n : k \in T
      BY <1>0, <2>2, <2>3, UpToInduction
    <3>. QED
      BY <3>1, <1>0
  <2>5. Good(h)
    <3>1. PICK f \in [1..n -> Seq(V)] : \A i \in 1..n : f[i] = Step(f, i)
      BY <2>4
    <3>2. Good(f)
      BY <3>1
    <3>. HIDE DEF Good
    <3>. QED
      BY <3>2
  <2>. HIDE DEF h
  <2>. DEFINE Sum(i) == /\ h[i] \in Seq(V)
                        /\ ToSet(h[i]) = UNION {ToSet(ss[j]) : j \in 1..i}
                        /\ (\A j \in 1..i : Len(ss[j]) <= 1) => Len(h[i]) <= i
              U == {i \in 0..n : i = 0 \/ Sum(i)}
  <2>6. 0 \in U
    BY <1>0
  <2>7. ASSUME NEW k \in 0..(n - 1), k \in U
        PROVE  k + 1 \in U
    <3>0. k \in Nat /\ k + 1 \in 1..n /\ (k + 1) - 1 = k
      BY <1>0
    <3>1. k + 1 \in 1..n /\ h[k + 1] = Step(h, k + 1)
      BY <2>5, <3>0
    <3>2. CASE k = 0
      <4>1. h[1] = ss[1] /\ 1 \in 1..n
        BY <3>1, <3>2
      <4>2. {ToSet(ss[j]) : j \in 1..1} = {ToSet(ss[1])}
        OBVIOUS
      <4>3. Sum(1)
        BY <4>1, <4>2, <1>0
      <4>. HIDE DEF Sum
      <4>. QED
        BY <4>3, <3>2, <1>0
    <3>3. CASE k # 0
      <4>1. h[k + 1] = h[k] \o ss[k + 1]
        <5>1. k + 1 # 1
          BY <3>0, <3>3
        <5>. QED
          BY <3>0, <3>1, <5>1
      <4>2. Sum(k)
        BY <2>7, <3>3
      <4>3. h[k] \in Seq(V) /\ ss[k + 1] \in Seq(V)
        BY <4>2, <3>1, <1>0
      <4>4. /\ h[k + 1] \in Seq(V) /\ Len(h[k + 1]) = Len(h[k]) + Len(ss[k + 1])
            /\ ToSet(h[k + 1]) = ToSet(h[k]) \cup ToSet(ss[k + 1])
        BY <4>1, <4>3, Joined
      <4>5. {ToSet(ss[j]) : j \in 1..(k + 1)} = {ToSet(ss[j]) : j \in 1..k} \cup {ToSet(ss[k + 1])}
        <5>1. 1..(k + 1) = (1..k) \cup {k + 1}
          BY <2>7, <1>0
        <5>. QED
          BY <5>1
      <4>6. (\A j \in 1..(k + 1) : Len(ss[j]) <= 1) => Len(h[k + 1]) <= k + 1
        <5>. SUFFICES ASSUME \A j \in 1..(k + 1) : Len(ss[j]) <= 1
                      PROVE  Len(h[k + 1]) <= k + 1
          OBVIOUS
        <5>1. PICK a \in Nat, b \in Nat : a = Len(h[k]) /\ b = Len(ss[k + 1])
          BY <4>3, Places
        <5>2. a <= k /\ b <= 1
          BY <3>0, <4>2, <5>1
        <5>3. Len(h[k + 1]) = a + b
          BY <4>4, <5>1
        <5>. QED
          BY <3>0, <5>2, <5>3
      <4>7. Sum(k + 1)
        BY <4>2, <4>4, <4>5, <4>6
      <4>. HIDE DEF Sum
      <4>. QED
        BY <4>7, <3>1
    <3>. QED
      BY <3>2, <3>3
  <2>8. Sum(n)
    <3>. HIDE DEF Sum
    <3>1. \A k \in 0..n : k \in U
      BY <1>0, <2>6, <2>7, UpToInduction
    <3>. QED
      BY <3>1, <1>0, <1>2
  <2>. QED
    BY <2>1, <2>8, <1>0
<1>. QED
  BY <1>1, <1>2

(* Where: what the places of X hold, in a sequence that is no longer.      *)
Kept(s, X) == FlattenSeq([i \in DOMAIN s |-> IF i \in X THEN <<s[i]>> ELSE << >>])

LEMMA KeptIs ==
  ASSUME NEW V, NEW s \in Seq(V), NEW X
  PROVE  /\ Kept(s, X) \in Seq(V)
         /\ ToSet(Kept(s, X)) = {s[i] : i \in DOMAIN s \cap X}
         /\ Len(Kept(s, X)) <= Len(s)
<1>. DEFINE ss == [i \in DOMAIN s |-> IF i \in X THEN <<s[i]>> ELSE << >>]
<1>1. ss \in Seq(Seq(V)) /\ DOMAIN ss = DOMAIN s /\ Len(ss) = Len(s)
  <2>1. Len(s) \in Nat /\ DOMAIN s = 1..Len(s) /\ \A i \in 1..Len(s) : s[i] \in V
    BY Places
  <2>2. << >> \in Seq(V) /\ \A x \in V : <<x>> \in Seq(V)
    OBVIOUS
  <2>3. ss \in [1..Len(s) -> Seq(V)]
    BY <2>1, <2>2
  <2>. HIDE DEF ss
  <2>. QED
    BY <2>1, <2>3, FunctionIsSeq
<1>2. ASSUME NEW i \in DOMAIN s
      PROVE  Len(ss[i]) <= 1 /\ ToSet(ss[i]) = IF i \in X THEN {s[i]} ELSE {}
  BY DEF ToSet
<1>. HIDE DEF ss
<1>3. UNION {ToSet(ss[i]) : i \in DOMAIN ss} = {s[i] : i \in DOMAIN s \cap X}
  BY <1>1, <1>2
<1>. QED
  BY <1>1, <1>2, <1>3, FlattenIs DEF Kept, ss

-----------------------------------------------------------------------------
(* round() of a quotient lies between the bounds of the quotient.          *)
LEMMA Quotient ==
  ASSUME NEW a \in Int, NEW b \in Nat \ {0}
  PROVE  a \div b \in Int /\ b * (a \div b) <= a /\ a < b * (a \div b) + b
  BY SMTT(30)

LEMMA RoundDivBetween ==
  ASSUME NEW a \in Int, NEW b \in Nat \ {0}, NEW lo \in Int, NEW hi \in Int,
         lo * b <= a, a <= hi * b
  PROVE  RoundDiv(a, b) \in Int /\ lo <= RoundDiv(a, b) /\ RoundDiv(a, b) <= hi
<1>. DEFINE h == b \div 2
            q == (a + h) \div b
<1>1. h \in Int /\ 0 <= h /\ h < b
  OBVIOUS
<1>. HIDE DEF h
<1>2. q \in Int /\ b * q <= a + h /\ a + h < b * q + b
  BY <1>1, Quotient
<1>. HIDE DEF q
<1>3. ASSUME NEW x \in Int, NEW y \in Int, x < y
      PROVE  b * x + b <= b * y
  <2>1. PICK d \in Nat : y = x + 1 + d
    <3>1. y - x - 1 \in Nat /\ y = x + 1 + (y - x - 1)
      BY <1>3
    <3>. QED
      BY <3>1
  <2>2. b * y = b * x + b + b * d /\ b * d >= 0
    BY <2>1
  <2>. QED
    BY <2>2
<1>4. lo <= q
  <2>1. CASE q < lo
    <3>1. b * q + b <= b * lo
      BY <2>1, <1>2, <1>3
    <3>2. b * lo = lo * b /\ lo * b \in Int /\ b * q \in Int
      BY <1>2
    <3>. QED
      BY <3>1, <3>2, <1>1, <1>2
  <2>. QED
    BY <2>1, <1>2
<1>5. q <= hi
  <2>1. CASE hi < q
    <3>1. b * hi + b <= b * q
      BY <2>1, <1>2, <1>3
    <3>2. b * hi = hi * b /\ hi * b \in Int /\ b * q \in Int
      BY <1>2
    <3>. QED
      BY <3>1, <3>2, <1>1, <1>2
  <2>. QED
    BY <2>1, <1>2
<1>. QED
  BY <1>2, <1>4, <1>5 DEF RoundDiv, q, h

(* A part of a whole. *)
LEMMA PartCounted ==
  ASSUME NEW V, NEW s \in Seq(V), NEW X \in SUBSET DOMAIN s
  PROVE  IsFiniteSet(X) /\ Cardinality(X) \in 0..Len(s)
<1>1. IsFiniteSet(DOMAIN s) /\ Cardinality(DOMAIN s) = Len(s) /\ Len(s) \in Nat
  BY Places
<1>. QED
  BY <1>1, FS_Subset, FS_CardinalityType

(* The mean of numbers of an interval, weighted by positive weights, is in *)
(* the interval.                                                           *)
LEMMA WeightedMeanBetween ==
  ASSUME NEW S, IsFiniteSet(S), NEW w, NEW t, NEW lo \in Int, NEW hi \in Int,
         \A x \in S : w[x] \in Nat,
         \A x \in S : t[x] \in Int /\ lo * w[x] <= t[x] /\ t[x] <= hi * w[x]
  PROVE  /\ SumFunctionOnSet(w, S) \in Nat /\ SumFunctionOnSet(t, S) \in Int
         /\ lo * SumFunctionOnSet(w, S) <= SumFunctionOnSet(t, S)
         /\ SumFunctionOnSet(t, S) <= hi * SumFunctionOnSet(w, S)
<1>. DEFINE low  == [x \in S |-> lo * w[x]]
            high == [x \in S |-> hi * w[x]]
            zero == [x \in S |-> 0]
<1>1. Numeric(w, S) /\ Numeric(t, S) /\ Numeric(low, S) /\ Numeric(high, S) /\ Numeric(zero, S)
  BY DEF Numeric
<1>2. SumFunctionOnSet(low, S) = lo * SumFunctionOnSet(w, S)
  <2>1. \A x \in S : low[x] = lo * w[x]
    OBVIOUS
  <2>. HIDE DEF low
  <2>. QED
    BY <1>1, <2>1, SumScaled
<1>3. SumFunctionOnSet(high, S) = hi * SumFunctionOnSet(w, S)
  <2>1. \A x \in S : high[x] = hi * w[x]
    OBVIOUS
  <2>. HIDE DEF high
  <2>. QED
    BY <1>1, <2>1, SumScaled
<1>4. SumFunctionOnSet(zero, S) = 0
  <2>1. \A x \in S : zero[x] = 0
    OBVIOUS
  <2>. HIDE DEF zero
  <2>2. SumFunctionOnSet(zero, S) = 0 * Cardinality(S)
    BY <2>1, SumConstant
  <2>3. Cardinality(S) \in Nat
    BY FS_CardinalityType
  <2>. QED
    BY <2>2, <2>3
<1>5. /\ \A x \in S : low[x] <= t[x]
      /\ \A x \in S : t[x] <= high[x]
      /\ \A x \in S : zero[x] <= w[x]
  OBVIOUS
<1>. HIDE DEF low, high, zero
<1>6. SumFunctionOnSet(w, S) \in Int /\ SumFunctionOnSet(t, S) \in Int
  BY <1>1, SumInt
<1>7. SumFunctionOnSet(zero, S) <= SumFunctionOnSet(w, S)
  BY <1>1, <1>5, SumLess
<1>8. SumFunctionOnSet(low, S) <= SumFunctionOnSet(t, S)
  BY <1>1, <1>5, SumLess
<1>9. SumFunctionOnSet(t, S) <= SumFunctionOnSet(high, S)
  BY <1>1, <1>5, SumLess
<1>. QED
  BY <1>2, <1>3, <1>4, <1>6, <1>7, <1>8, <1>9

LEMMA MeanBelow ==
  ASSUME NEW S, IsFiniteSet(S), NEW w, NEW t, NEW hi \in Nat,
         \A x \in S : w[x] \in Nat,
         \A x \in S : t[x] \in Nat /\ t[x] <= hi * w[x]
  PROVE  /\ SumFunctionOnSet(w, S) \in Nat /\ SumFunctionOnSet(t, S) \in Nat
         /\ SumFunctionOnSet(t, S) <= hi * SumFunctionOnSet(w, S)
<1>1. PICK lo \in Int : lo = 0
  OBVIOUS
<1>2. \A x \in S : t[x] \in Int /\ lo * w[x] <= t[x] /\ t[x] <= hi * w[x]
  BY <1>1
<1>3. hi \in Int
  OBVIOUS
<1>4. /\ SumFunctionOnSet(w, S) \in Nat /\ SumFunctionOnSet(t, S) \in Int
      /\ lo * SumFunctionOnSet(w, S) <= SumFunctionOnSet(t, S)
      /\ SumFunctionOnSet(t, S) <= hi * SumFunctionOnSet(w, S)
  BY <1>2, <1>3, WeightedMeanBetween, Zenon
<1>5. ASSUME NEW x \in Nat, NEW y \in Int, lo * x <= y PROVE y \in Nat
  BY <1>1, <1>5
<1>. QED
  BY <1>4, <1>5

(* A sum of positive numbers is positive. *)
LEMMA SumPositive ==
  ASSUME NEW S, IsFiniteSet(S), S # {}, NEW w, \A x \in S : w[x] \in Nat \ {0}
  PROVE  SumFunctionOnSet(w, S) \in Nat \ {0}
<1>. DEFINE one == [x \in S |-> 1]
<1>1. \A x \in S : one[x] = 1 /\ one[x] <= w[x]
  OBVIOUS
<1>. HIDE DEF one
<1>2. Numeric(one, S) /\ Numeric(w, S)
  BY <1>1 DEF Numeric
<1>3. SumFunctionOnSet(one, S) = 1 * Cardinality(S)
  BY <1>1, SumConstant
<1>4. Cardinality(S) \in Nat /\ Cardinality(S) # 0
  BY FS_EmptySet, FS_CardinalityType
<1>5. SumFunctionOnSet(one, S) <= SumFunctionOnSet(w, S) /\ SumFunctionOnSet(w, S) \in Int
  BY <1>1, <1>2, SumLess, SumInt
<1>. QED
  BY <1>3, <1>4, <1>5

-----------------------------------------------------------------------------
(* Words, names and their order.                                           *)
LEMMA NamesFinite ==
  /\ IsFiniteSet(Words) /\ IsFiniteSet(Name)
  /\ \A a \in Name : IsFiniteSet(a) /\ Cardinality(a) \in Nat
<1>1. IsFiniteSet(Words)
  BY WordsAssumption, ElementsFinite DEF Words
<1>. QED
  BY <1>1, FS_SUBSET, FS_Subset, FS_CardinalityType DEF Name

LEMMA PlaceIs ==
  ASSUME NEW w \in Words
  PROVE  Place(w) \in Nat /\ Alphabet[Place(w)] = w
<1>1. /\ DOMAIN Alphabet = 1..Len(Alphabet) /\ Len(Alphabet) \in Nat
      /\ Words = {Alphabet[i] : i \in 1..Len(Alphabet)}
  BY WordsAssumption, Places DEF Words
<1>2. \E i \in DOMAIN Alphabet : Alphabet[i] = w
  BY <1>1
<1>. QED
  BY <1>1, <1>2 DEF Place

(* One name is before another: the order of sorted() on names. *)
LEMMA BeforeOrders ==
  ASSUME NEW S \in SUBSET Name
  PROVE  Orders({q \in S \X S : Before(q[1], q[2])}, S)
<1>1. ASSUME NEW a \in Name PROVE ~ Before(a, a)
  BY DEF Before
<1>2. ASSUME NEW a \in Name, NEW b \in Name, NEW c \in Name, Before(a, b), Before(b, c)
      PROVE  Before(a, c)
  <2>1. PICK u \in a \ b : \A v \in b \ a : Place(u) < Place(v)
    BY <1>2 DEF Before
  <2>2. PICK w \in b \ c : \A v \in c \ b : Place(w) < Place(v)
    BY <1>2 DEF Before
  <2>3. \A v \in a \cup b \cup c : Place(v) \in Nat
    BY PlaceIs DEF Name
  <2>4. Place(u) # Place(w)
    BY PlaceIs DEF Name
  <2>5. CASE Place(u) < Place(w)
    <3>1. u \in a \ c
      BY <2>1, <2>2, <2>3, <2>5
    <3>2. ASSUME NEW v \in c \ a PROVE Place(u) < Place(v)
      BY <2>1, <2>2, <2>3, <2>5
    <3>. QED
      BY <3>1, <3>2 DEF Before
  <2>6. CASE Place(w) < Place(u)
    <3>1. w \in a \ c
      BY <2>1, <2>2, <2>3, <2>6
    <3>2. ASSUME NEW v \in c \ a PROVE Place(w) < Place(v)
      BY <2>1, <2>2, <2>3, <2>6
    <3>. QED
      BY <3>1, <3>2 DEF Before
  <2>. QED
    BY <2>3, <2>4, <2>5, <2>6
<1>. DEFINE below == {q \in S \X S : Before(q[1], q[2])}
<1>3. \A x, y \in S : <<x, y>> \in below <=> Before(x, y)
  OBVIOUS
<1>. HIDE DEF below
<1>4. Orders(below, S)
  BY <1>1, <1>2, <1>3 DEF Orders
<1>. QED
  BY <1>4 DEF below

LEMMA SortedIs ==
  ASSUME NEW S \in SUBSET Name
  PROVE  Sorted(S) \in Seq(S) /\ Sorted(S) \in Seq(Name) /\ ToSet(Sorted(S)) = S
<1>1. IsFiniteSet(S)
  BY NamesFinite, FS_Subset
<1>. DEFINE below == {q \in S \X S : Before(q[1], q[2])}
<1>2. Orders(below, S) /\ Sorted(S) = SortBy(S, below)
  BY BeforeOrders DEF Sorted
<1>. HIDE DEF below
<1>3. Sorts(Sorted(S), S, below)
  BY <1>1, <1>2, SortIs
<1>4. Sorted(S) \in Seq(S) /\ ToSet(Sorted(S)) = S
  BY <1>3, SortHolds
<1>. QED
  BY <1>4, SeqMonotonic
=============================================================================
