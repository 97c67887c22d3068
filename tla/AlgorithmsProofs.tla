-------------------------- MODULE AlgorithmsProofs --------------------------
(***************************************************************************)
(* Proofs about the pure algorithms: for inputs of any size, what the run  *)
(* checks of the small ones.                                               *)
(*                                                                         *)
(* The algorithms add up and count over finite sets and repeat themselves  *)
(* over sequences, so the first two sections prove what induction gives:   *)
(* numbers have a least counterexample, a recursion over a sequence has a  *)
(* function that follows it, and a sum can be taken in any order.          *)
(***************************************************************************)
EXTENDS MCAlgorithms, FiniteSetTheorems, SequenceTheorems, WellFoundedInduction,
        TLAPS

-----------------------------------------------------------------------------
(* Induction.                                                               *)

Below == {p \in Nat \X Nat : p[1] < p[2]}

(* A set of numbers that is not empty has a least one.                      *)
LEMMA LeastNumber ==
    ASSUME NEW S \in SUBSET Nat, S # {}
    PROVE  \E n \in S : \A m \in S : n <= m
<1>1. IsWellFoundedOn(Below, Nat)
  BY NatLessThanWellFounded DEF OpToRel, Below
<1>2. PICK n \in S : \A m \in S : <<m, n>> \notin Below
  BY <1>1, WFMin
<1>3. \A m \in S : ~(m < n)
  BY <1>2 DEF Below
<1> QED BY <1>3

(* What holds of 0, and of n + 1 when it holds of n, holds of all.          *)
LEMMA Induction ==
    ASSUME NEW S \in SUBSET Nat, 0 \in S, \A n \in S : n + 1 \in S
    PROVE  S = Nat
<1> SUFFICES ASSUME S # Nat PROVE FALSE
  OBVIOUS
<1>1. PICK n \in Nat \ S : \A m \in Nat \ S : n <= m
  BY LeastNumber
<1>2. n # 0 /\ n - 1 \in S
  BY <1>1
<1> QED BY <1>1, <1>2

(* A function of n and of its value before n can be followed up to any N.   *)
Follows(f, N, first, next) == f[0] = first /\ \A n \in 1..N : f[n] = next[<<n, f[n - 1]>>]

LEMMA Recursion ==
    ASSUME NEW N \in Nat, NEW S, NEW first \in S, NEW next \in [(1..N) \X S -> S]
    PROVE  \E f \in [0..N -> S] : Follows(f, N, first, next)
<1> DEFINE Ks == {k \in Nat : k <= N => \E f \in [0..k -> S] : Follows(f, k, first, next)}
<1>1. 0 \in Ks
  <2>1. [i \in 0..0 |-> first] \in [0..0 -> S] /\ Follows([i \in 0..0 |-> first], 0, first, next)
    BY DEF Follows
  <2> QED BY <2>1
<1>2. ASSUME NEW k \in Ks PROVE k + 1 \in Ks
  <2> SUFFICES ASSUME k + 1 <= N PROVE \E f \in [0..(k + 1) -> S] : Follows(f, k + 1, first, next)
    OBVIOUS
  <2>1. PICK f \in [0..k -> S] : Follows(f, k, first, next)
    OBVIOUS
  <2> DEFINE g == [i \in 0..(k + 1) |-> IF i <= k THEN f[i] ELSE next[<<k + 1, f[k]>>]]
  <2>2. g \in [0..(k + 1) -> S]
    <3>1. f[k] \in S /\ next[<<k + 1, f[k]>>] \in S
      OBVIOUS
    <3> QED BY <3>1
  <2>3. Follows(g, k + 1, first, next)
    <3>1. g[0] = first
      BY <2>1 DEF Follows
    <3>2. ASSUME NEW n \in 1..(k + 1) PROVE g[n] = next[<<n, g[n - 1]>>]
      <4>1. g[n - 1] = f[n - 1]
        OBVIOUS
      <4>2. CASE n = k + 1
        <5>1. n - 1 = k /\ g[n] = next[<<k + 1, f[k]>>]
          BY <4>2
        <5> QED BY <4>1, <4>2, <5>1
      <4>3. CASE n \in 1..k
        BY <2>1, <4>1, <4>3 DEF Follows
      <4> QED BY <4>2, <4>3
    <3> QED BY <3>1, <3>2 DEF Follows
  <2> QED BY <2>2, <2>3
<1> HIDE DEF Ks
<1>3. Ks = Nat
  BY <1>1, <1>2, Induction DEF Ks
<1>4. N \in Ks
  BY <1>3
<1> QED BY <1>4 DEF Ks

(* What holds of the empty set, and with one more element when it held      *)
(* without, holds of every finite set.                                      *)
LEMMA FiniteInduction ==
    ASSUME NEW S, IsFiniteSet(S), NEW G \in SUBSET SUBSET S, {} \in G,
           \A T \in G, x \in S : T \cup {x} \in G
    PROVE  S \in G
<1> DEFINE Ks == {k \in Nat : \A T \in SUBSET S : Cardinality(T) = k => T \in G}
<1>1. \A T \in SUBSET S : IsFiniteSet(T) /\ Cardinality(T) \in Nat
  BY FS_Subset, FS_CardinalityType
<1>2. 0 \in Ks
  BY <1>1, FS_EmptySet
<1>3. ASSUME NEW k \in Ks PROVE k + 1 \in Ks
  <2> SUFFICES ASSUME NEW T \in SUBSET S, Cardinality(T) = k + 1 PROVE T \in G
    OBVIOUS
  <2>1. PICK x \in T : TRUE
    BY <1>1, FS_EmptySet
  <2>2. Cardinality(T \ {x}) = k
    BY <1>1, <2>1, FS_RemoveElement
  <2>3. T \ {x} \in G /\ T = (T \ {x}) \cup {x}
    BY <2>1, <2>2
  <2> QED BY <2>1, <2>3
<1> HIDE DEF Ks
<1>4. Ks = Nat
  BY <1>2, <1>3, Induction DEF Ks
<1> QED BY <1>1, <1>4 DEF Ks
-----------------------------------------------------------------------------
(* Sums: SumFunctionOnSet takes its numbers in an order of its own, and the *)
(* lemmas say that the order does not matter.                               *)

Added(f, g, T) ==
    IF T = {} THEN 0 ELSE LET x == CHOOSE x \in T : TRUE IN f[x] + g[T \ {x}]
SumsUp(f, S, g) == g = [T \in SUBSET S |-> Added(f, g, T)]

LEMMA SumUnfolds ==
    ASSUME NEW f, NEW S
    PROVE  SumFunctionOnSet(f, S) = (CHOOSE g : SumsUp(f, S, g))[S]
BY DEF SumFunctionOnSet, FoldFunctionOnSet, MapThenFoldSet, SumsUp, Added

Summable(f, S) == IsFiniteSet(S) /\ \A x \in S : f[x] \in Int

(* Two ways to add up agree where both say something.                       *)
LEMMA SumIsOne ==
    ASSUME NEW f, NEW S, NEW T \in SUBSET S, NEW g, NEW h, IsFiniteSet(T),
           SumsUp(f, S, g), SumsUp(f, T, h)
    PROVE  g[T] = h[T]
<1> DEFINE G == {R \in SUBSET T : g[R] = h[R]}
<1>1. {} \in G
  BY DEF SumsUp, Added
<1> DEFINE Ks == {k \in Nat : \A R \in SUBSET T : Cardinality(R) = k => R \in G}
<1>2. \A R \in SUBSET T : IsFiniteSet(R) /\ Cardinality(R) \in Nat
  BY FS_Subset, FS_CardinalityType
<1>3. 0 \in Ks
  BY <1>1, <1>2, FS_EmptySet
<1>4. ASSUME NEW k \in Ks PROVE k + 1 \in Ks
  <2> SUFFICES ASSUME NEW R \in SUBSET T, Cardinality(R) = k + 1 PROVE g[R] = h[R]
    OBVIOUS
  <2> DEFINE x == CHOOSE x \in R : TRUE
  <2>1. R # {} /\ x \in R
    <3>1. R # {}
      BY <1>2, FS_EmptySet
    <3> QED BY <3>1
  <2>2. Cardinality(R \ {x}) = k
    <3> HIDE DEF x
    <3>1. IsFiniteSet(R)
      BY <1>2
    <3>2. Cardinality(R \ {x}) = Cardinality(R) - 1
      BY <2>1, <3>1, FS_RemoveElement
    <3>3. k \in Nat
      OBVIOUS
    <3> QED BY <3>2, <3>3
  <2>3. g[R \ {x}] = h[R \ {x}]
    BY <2>2
  <2>4. g[R] = f[x] + g[R \ {x}] /\ h[R] = f[x] + h[R \ {x}]
    BY <2>1 DEF SumsUp, Added
  <2> QED BY <2>3, <2>4
<1> HIDE DEF Ks
<1>5. Ks = Nat
  BY <1>3, <1>4, Induction DEF Ks
<1>6. T \in G
  BY <1>2, <1>5 DEF Ks
<1> QED BY <1>6

(* There is a way to add up.                                                *)
LEMMA SumExists ==
    ASSUME NEW f, NEW S, Summable(f, S)
    PROVE  \E g \in [SUBSET S -> Int] : SumsUp(f, S, g)
<1> DEFINE Upto(g, k) == \A T \in SUBSET S : Cardinality(T) <= k => g[T] = Added(f, g, T)
           Ks == {k \in Nat : \E g \in [SUBSET S -> Int] : Upto(g, k)}
<1>1. \A T \in SUBSET S : IsFiniteSet(T) /\ Cardinality(T) \in Nat
  BY FS_Subset, FS_CardinalityType DEF Summable
<1>2. 0 \in Ks
  <2> DEFINE g == [T \in SUBSET S |-> 0]
  <2>1. Upto(g, 0)
    BY <1>1, FS_EmptySet DEF Added
  <2>2. g \in [SUBSET S -> Int]
    OBVIOUS
  <2> HIDE DEF g
  <2> QED BY <2>1, <2>2
<1>3. ASSUME NEW k \in Ks PROVE k + 1 \in Ks
  <2>1. PICK g \in [SUBSET S -> Int] : Upto(g, k)
    OBVIOUS
  <2> DEFINE h == [T \in SUBSET S |-> IF Cardinality(T) <= k THEN g[T] ELSE Added(f, g, T)]
  <2>2. ASSUME NEW T \in SUBSET S, T # {}
        PROVE  LET x == CHOOSE x \in T : TRUE IN
               /\ x \in T /\ T \ {x} \in SUBSET S
               /\ Cardinality(T \ {x}) = Cardinality(T) - 1
               /\ f[x] \in Int
    BY <1>1, <2>2, FS_RemoveElement DEF Summable
  <2>3. h \in [SUBSET S -> Int]
    <3>1. ASSUME NEW T \in SUBSET S PROVE Added(f, g, T) \in Int
      BY <2>2 DEF Added
    <3> QED BY <3>1
  <2>4. ASSUME NEW T \in SUBSET S, Cardinality(T) <= k + 1 PROVE h[T] = Added(f, h, T)
    <3>1. h[T] = Added(f, g, T)
      BY <2>1
    <3>2. Added(f, h, T) = Added(f, g, T)
      <4>1. CASE T = {}
        BY <4>1 DEF Added
      <4>2. CASE T # {}
        <5> DEFINE x == CHOOSE x \in T : TRUE
        <5>1. T \ {x} \in SUBSET S /\ Cardinality(T \ {x}) <= k
          BY <1>1, <2>2, <2>4, <4>2
        <5>2. h[T \ {x}] = g[T \ {x}]
          BY <5>1
        <5> QED BY <4>2, <5>2 DEF Added
      <4> QED BY <4>1, <4>2
    <3> QED BY <3>1, <3>2
  <2> HIDE DEF h
  <2>5. Upto(h, k + 1)
    BY <2>4
  <2> QED BY <2>3, <2>5
<1> HIDE DEF Ks
<1>4. Ks = Nat
  BY <1>2, <1>3, Induction DEF Ks
<1>5. PICK g \in [SUBSET S -> Int] : Upto(g, Cardinality(S))
  BY <1>1, <1>4 DEF Ks
<1>6. \A T \in SUBSET S : Cardinality(T) <= Cardinality(S)
  BY FS_Subset DEF Summable
<1>7. g = [T \in SUBSET S |-> Added(f, g, T)]
  BY <1>5, <1>6
<1> QED BY <1>7 DEF SumsUp

LEMMA SumIsAdded ==
    ASSUME NEW f, NEW S, Summable(f, S)
    PROVE  \E g \in [SUBSET S -> Int] : SumsUp(f, S, g) /\ \A T \in SUBSET S : SumFunctionOnSet(f, T) = g[T]
<1>1. PICK g \in [SUBSET S -> Int] : SumsUp(f, S, g)
  BY SumExists
<1>2. ASSUME NEW T \in SUBSET S PROVE SumFunctionOnSet(f, T) = g[T]
  <2>1. Summable(f, T)
    BY FS_Subset DEF Summable
  <2>2. \E h : SumsUp(f, T, h)
    BY <2>1, SumExists
  <2>3. SumsUp(f, T, CHOOSE h : SumsUp(f, T, h))
    BY <2>2
  <2>4. IsFiniteSet(T)
    BY <2>1 DEF Summable
  <2>5. g[T] = (CHOOSE h : SumsUp(f, T, h))[T]
    BY <1>1, <2>3, <2>4, SumIsOne
  <2> QED BY <2>5, SumUnfolds
<1> QED BY <1>1, <1>2

LEMMA SumIsNumber ==
    ASSUME NEW f, NEW S, Summable(f, S)
    PROVE  SumFunctionOnSet(f, S) \in Int
<1>1. PICK g \in [SUBSET S -> Int] :
          SumsUp(f, S, g) /\ \A T \in SUBSET S : SumFunctionOnSet(f, T) = g[T]
  BY SumIsAdded
<1> QED BY <1>1

LEMMA SumOfNone ==
    ASSUME NEW f
    PROVE  SumFunctionOnSet(f, {}) = 0
<1>1. Summable(f, {})
  BY FS_EmptySet DEF Summable
<1>2. PICK g \in [SUBSET {} -> Int] :
          SumsUp(f, {}, g) /\ \A T \in SUBSET {} : SumFunctionOnSet(f, T) = g[T]
  BY <1>1, SumIsAdded
<1>3. g[{}] = 0
  BY <1>2 DEF SumsUp, Added
<1> QED BY <1>2, <1>3

(* Any element can be added last.                                           *)
LEMMA SumWithout ==
    ASSUME NEW f, NEW S, Summable(f, S), NEW x \in S
    PROVE  SumFunctionOnSet(f, S) = f[x] + SumFunctionOnSet(f, S \ {x})
<1>1. PICK g \in [SUBSET S -> Int] :
          SumsUp(f, S, g) /\ \A T \in SUBSET S : SumFunctionOnSet(f, T) = g[T]
  BY SumIsAdded
<1> DEFINE Ks == {k \in Nat : \A T \in SUBSET S : Cardinality(T) = k =>
                                 \A y \in T : g[T] = f[y] + g[T \ {y}]}
<1>2. \A T \in SUBSET S : IsFiniteSet(T) /\ Cardinality(T) \in Nat
  BY FS_Subset, FS_CardinalityType DEF Summable
<1>3. 0 \in Ks
  BY <1>2, FS_EmptySet
<1>4. ASSUME NEW k \in Ks PROVE k + 1 \in Ks
  <2> SUFFICES ASSUME NEW T \in SUBSET S, Cardinality(T) = k + 1, NEW y \in T
               PROVE  g[T] = f[y] + g[T \ {y}]
    OBVIOUS
  <2>1. PICK c \in T : g[T] = f[c] + g[T \ {c}]
    <3> DEFINE c == CHOOSE c \in T : TRUE
    <3>1. c \in T
      OBVIOUS
    <3>2. g[T] = f[c] + g[T \ {c}]
      BY <1>1 DEF SumsUp, Added
    <3> QED BY <3>1, <3>2
  <2>2. CASE c = y
    BY <2>1, <2>2
  <2>3. CASE c # y
    <3>1. k \in Nat
      OBVIOUS
    <3>2. Cardinality(T \ {c}) = k /\ Cardinality(T \ {y}) = k
      <4>1. IsFiniteSet(T)
        BY <1>2
      <4>2. Cardinality(T \ {c}) = Cardinality(T) - 1 /\ Cardinality(T \ {y}) = Cardinality(T) - 1
        BY <2>1, <4>1, FS_RemoveElement
      <4> QED BY <3>1, <4>2
    <3>3. g[T \ {c}] = f[y] + g[(T \ {c}) \ {y}]
      BY <2>1, <2>3, <3>2
    <3>4. g[T \ {y}] = f[c] + g[(T \ {y}) \ {c}]
      BY <2>1, <2>3, <3>2
    <3>5. (T \ {c}) \ {y} = (T \ {y}) \ {c} /\ (T \ {y}) \ {c} \in SUBSET S
      OBVIOUS
    <3>6. f[c] \in Int /\ f[y] \in Int /\ g[(T \ {y}) \ {c}] \in Int
      BY <2>1, <3>5 DEF Summable
    <3>7. g[T] = f[c] + (f[y] + g[(T \ {y}) \ {c}])
      BY <2>1, <3>3, <3>5
    <3> HIDE DEF Ks
    <3>8. f[c] + (f[y] + g[(T \ {y}) \ {c}]) = f[y] + (f[c] + g[(T \ {y}) \ {c}])
      BY <3>6
    <3> QED BY <3>4, <3>7, <3>8
  <2> QED BY <2>2, <2>3
<1> HIDE DEF Ks
<1>5. Ks = Nat
  BY <1>3, <1>4, Induction DEF Ks
<1>6. g[S] = f[x] + g[S \ {x}]
  BY <1>2, <1>5 DEF Ks
<1> QED BY <1>1, <1>6

LEMMA SumWith ==
    ASSUME NEW f, NEW S, NEW x, x \notin S, Summable(f, S \cup {x})
    PROVE  SumFunctionOnSet(f, S \cup {x}) = f[x] + SumFunctionOnSet(f, S)
<1>1. (S \cup {x}) \ {x} = S
  OBVIOUS
<1> QED BY <1>1, SumWithout

(* A sum splits.                                                            *)
LEMMA SumSplits ==
    ASSUME NEW f, NEW S, Summable(f, S), NEW T \in SUBSET S
    PROVE  SumFunctionOnSet(f, S) = SumFunctionOnSet(f, T) + SumFunctionOnSet(f, S \ T)
<1> DEFINE G == {R \in SUBSET T : SumFunctionOnSet(f, (S \ T) \cup R)
                                  = SumFunctionOnSet(f, R) + SumFunctionOnSet(f, S \ T)}
<1>1. \A R \in SUBSET S : Summable(f, R)
  BY FS_Subset DEF Summable
<1>2. {} \in G
  <2>1. SumFunctionOnSet(f, S \ T) \in Int
    BY <1>1, SumIsNumber
  <2>2. (S \ T) \cup {} = S \ T
    OBVIOUS
  <2> QED BY <2>1, <2>2, SumOfNone
<1>3. ASSUME NEW R \in G, NEW x \in T PROVE R \cup {x} \in G
  <2>1. CASE x \in R
    <3>1. R \cup {x} = R
      BY <2>1
    <3> QED BY <3>1
  <2>2. CASE x \notin R
    <3>1. /\ (S \ T) \cup (R \cup {x}) = ((S \ T) \cup R) \cup {x}
          /\ x \notin (S \ T) \cup R
      BY <2>2
    <3>2. SumFunctionOnSet(f, (S \ T) \cup (R \cup {x})) = f[x] + SumFunctionOnSet(f, (S \ T) \cup R)
      <4>1. Summable(f, ((S \ T) \cup R) \cup {x})
        BY <1>1
      <4> QED BY <3>1, <4>1, SumWith
    <3>3. SumFunctionOnSet(f, R \cup {x}) = f[x] + SumFunctionOnSet(f, R)
      <4>1. Summable(f, R \cup {x})
        BY <1>1
      <4> QED BY <2>2, <4>1, SumWith
    <3>4. f[x] \in Int /\ SumFunctionOnSet(f, R) \in Int /\ SumFunctionOnSet(f, S \ T) \in Int
      BY <1>1, SumIsNumber DEF Summable
    <3>5. SumFunctionOnSet(f, (S \ T) \cup (R \cup {x}))
            = SumFunctionOnSet(f, R \cup {x}) + SumFunctionOnSet(f, S \ T)
      BY <3>2, <3>3, <3>4
    <3> QED BY <3>5
  <2> QED BY <2>1, <2>2
<1>4. T \in G
  <2>1. IsFiniteSet(T)
    BY <1>1 DEF Summable
  <2> HIDE DEF G
  <2>2. G \in SUBSET SUBSET T
    BY DEF G
  <2> QED BY <1>2, <1>3, <2>1, <2>2, FiniteInduction
<1>5. (S \ T) \cup T = S
  OBVIOUS
<1> QED BY <1>4, <1>5

(* Larger numbers, larger sums; and equal numbers, equal sums.              *)
LEMMA SumGrows ==
    ASSUME NEW f, NEW h, NEW S, Summable(f, S), Summable(h, S), \A x \in S : f[x] <= h[x]
    PROVE  SumFunctionOnSet(f, S) <= SumFunctionOnSet(h, S)
<1> DEFINE G == {R \in SUBSET S : SumFunctionOnSet(f, R) <= SumFunctionOnSet(h, R)}
<1>1. \A R \in SUBSET S : Summable(f, R) /\ Summable(h, R)
  BY FS_Subset DEF Summable
<1>2. {} \in G
  BY SumOfNone
<1>3. ASSUME NEW R \in G, NEW x \in S PROVE R \cup {x} \in G
  <2>1. CASE x \in R
    <3>1. R \cup {x} = R
      BY <2>1
    <3> QED BY <3>1
  <2>2. CASE x \notin R
    <3>1. /\ SumFunctionOnSet(f, R \cup {x}) = f[x] + SumFunctionOnSet(f, R)
          /\ SumFunctionOnSet(h, R \cup {x}) = h[x] + SumFunctionOnSet(h, R)
      <4>1. Summable(f, R \cup {x}) /\ Summable(h, R \cup {x})
        BY <1>1
      <4> QED BY <2>2, <4>1, SumWith
    <3>2. /\ f[x] \in Int /\ h[x] \in Int /\ f[x] <= h[x]
          /\ SumFunctionOnSet(f, R) \in Int /\ SumFunctionOnSet(h, R) \in Int
      BY <1>1, SumIsNumber DEF Summable
    <3>3. SumFunctionOnSet(f, R \cup {x}) <= SumFunctionOnSet(h, R \cup {x})
      BY <3>1, <3>2
    <3> QED BY <3>3
  <2> QED BY <2>1, <2>2
<1>4. S \in G
  <2>1. IsFiniteSet(S)
    BY DEF Summable
  <2> HIDE DEF G
  <2>2. G \in SUBSET SUBSET S
    BY DEF G
  <2> QED BY <1>2, <1>3, <2>1, <2>2, FiniteInduction
<1> QED BY <1>4

Naturals(f, S) == IsFiniteSet(S) /\ \A x \in S : f[x] \in Nat

LEMMA SumOfNaturals ==
    ASSUME NEW f, NEW S, Naturals(f, S)
    PROVE  /\ Summable(f, S)
           /\ SumFunctionOnSet(f, S) \in Nat
           /\ \A T \in SUBSET S : SumFunctionOnSet(f, T) \in Nat /\ SumFunctionOnSet(f, T) <= SumFunctionOnSet(f, S)
           /\ \A x \in S : f[x] <= SumFunctionOnSet(f, S)
<1>1. ASSUME NEW T \in SUBSET S PROVE SumFunctionOnSet(f, T) \in Nat /\ Summable(f, T)
  <2> DEFINE G == {R \in SUBSET T : SumFunctionOnSet(f, R) \in Nat}
  <2>1. IsFiniteSet(T) /\ \A R \in SUBSET T : Summable(f, R)
    BY FS_Subset DEF Naturals, Summable
  <2>2. {} \in G
    BY SumOfNone
  <2>3. ASSUME NEW R \in G, NEW x \in T PROVE R \cup {x} \in G
    <3>1. CASE x \in R
      <4>1. R \cup {x} = R
        BY <3>1
      <4> QED BY <4>1
    <3>2. CASE x \notin R
      <4>1. Summable(f, R \cup {x})
        BY <2>1
      <4>2. SumFunctionOnSet(f, R \cup {x}) = f[x] + SumFunctionOnSet(f, R)
        BY <3>2, <4>1, SumWith
      <4>3. f[x] \in Nat
        BY DEF Naturals
      <4> QED BY <4>2, <4>3
    <3> QED BY <3>1, <3>2
  <2> HIDE DEF G
  <2>4. T \in G
    <3>1. G \in SUBSET SUBSET T
      BY DEF G
    <3> QED BY <2>1, <2>2, <2>3, <3>1, FiniteInduction
  <2> QED BY <2>1, <2>4 DEF G
<1>2. Summable(f, S) /\ SumFunctionOnSet(f, S) \in Nat
  BY <1>1
<1>3. ASSUME NEW T \in SUBSET S PROVE SumFunctionOnSet(f, T) <= SumFunctionOnSet(f, S)
  <2>1. SumFunctionOnSet(f, S) = SumFunctionOnSet(f, T) + SumFunctionOnSet(f, S \ T)
    BY <1>2, SumSplits
  <2>2. SumFunctionOnSet(f, T) \in Nat /\ SumFunctionOnSet(f, S \ T) \in Nat
    BY <1>1
  <2> QED BY <2>1, <2>2
<1>4. ASSUME NEW x \in S PROVE f[x] <= SumFunctionOnSet(f, S)
  <2>1. SumFunctionOnSet(f, S) = f[x] + SumFunctionOnSet(f, S \ {x})
    BY <1>2, SumWithout
  <2>2. SumFunctionOnSet(f, S \ {x}) \in Nat /\ f[x] \in Nat
    BY <1>1 DEF Naturals
  <2> QED BY <2>1, <2>2
<1> QED BY <1>1, <1>2, <1>3, <1>4

-----------------------------------------------------------------------------
(* Semantics.                                                               *)

(* What a metric adds up are measures.                                      *)
LEMMA SumsAreMeasures ==
    ASSUME NEW s, NEW kpi \in Kpis(s)
    PROVE  \A i \in kpi.sums : i \in DOMAIN s /\ s[i].role = "measure"
<1>1. \A i \in Revenue(s) \cup Quantity(s) \cup Cost(s) : i \in DOMAIN s /\ s[i].role = "measure"
  BY DEF Revenue, Quantity, Cost, FirstWith, FirstThat
<1>2. kpi.sums \in SUBSET (Revenue(s) \cup Quantity(s) \cup Cost(s))
  BY DEF Kpis, Metric
<1> QED BY <1>1, <1>2

LEMMA MarginSubtractsCosts ==
    ASSUME NEW s, NEW kpi \in Kpis(s), kpi.key = "gross_margin"
    PROVE  \E i, j \in kpi.sums : s[i].tag = "monetary" /\ s[j].tag = "cost"
<1>1. kpi.sums = Revenue(s) \cup Cost(s) /\ Revenue(s) # {} /\ Cost(s) # {}
  BY DEF Kpis, Metric
<1>2. /\ \A i \in Revenue(s) : s[i].tag = "monetary"
      /\ \A i \in Cost(s) : s[i].tag = "cost"
  BY DEF Revenue, Cost, FirstWith, FirstThat
<1> QED BY <1>1, <1>2

(* Whatever the columns of a table are and however many: no metric adds up  *)
(* a column that is not a number, is named as a key or is all but empty,    *)
(* and the margin subtracts costs from revenue.                             *)
THEOREM MetricsAreMeaningful ==
    ASSUME input \in [columns : Seq(Column)]
    PROVE  SumsAreMeaningful
<1> DEFINE columns == input.columns
           s == Classify(columns)
<1>1. columns \in Seq(Column) /\ DOMAIN s = DOMAIN columns
  BY DEF Classify
<1>2. ASSUME NEW i \in DOMAIN columns, s[i].role = "measure"
      PROVE  /\ Numeric(columns[i]) /\ ~NamedAsKey(columns[i]) /\ columns[i].usable
             /\ s[i].tag \in {"monetary", "cost"} => columns[i].tag = s[i].tag
  <2>1. columns[i] \in Column
    BY <1>1, ElementOfSeq
  <2>2. s[i].role = Role(columns[i]) /\ s[i].tag = Tag(columns[i])
    BY DEF Classify
  <2>3. Role(columns[i]) = "measure"
    BY <1>2, <2>2
  <2>4. Numeric(columns[i]) /\ ~NamedAsKey(columns[i]) /\ columns[i].usable
    BY <2>3 DEF Role
  <2>5. Tag(columns[i]) \in {"monetary", "cost"} => columns[i].tag = Tag(columns[i])
    BY <2>3 DEF Tag
  <2> QED BY <2>2, <2>4, <2>5
<1>3. ASSUME NEW kpi \in Kpis(s)
      PROVE  /\ \A i \in kpi.sums : Numeric(columns[i]) /\ ~NamedAsKey(columns[i]) /\ columns[i].usable
             /\ kpi.key = "gross_margin" => \E i, j \in kpi.sums :
                   columns[i].tag = "monetary" /\ columns[j].tag = "cost"
  <2> HIDE DEF s, columns
  <2>1. \A i \in kpi.sums : i \in DOMAIN columns /\ s[i].role = "measure"
    BY <1>1, SumsAreMeasures
  <2>2. kpi.key = "gross_margin" => \E i, j \in kpi.sums : s[i].tag = "monetary" /\ s[j].tag = "cost"
    BY MarginSubtractsCosts
  <2> QED BY <1>2, <2>1, <2>2
<1> QED BY <1>3 DEF SumsAreMeaningful, SumsMeaningfully

-----------------------------------------------------------------------------
(* Cleaning.                                                                *)

(* What a function makes of a finite set is finite.                         *)
LEMMA ImageIsFinite ==
    ASSUME NEW S, IsFiniteSet(S), NEW f, DOMAIN f = S, f = [x \in S |-> f[x]]
    PROVE  IsFiniteSet({f[x] : x \in S})
<1>1. f \in Surjection(S, {f[x] : x \in S})
  BY DEF Surjection
<1> QED BY <1>1, FS_Surjection

LEMMA CellsAreFinite == IsFiniteSet(Cell)
<1>1. IsFiniteSet(Kinds)
  <2> DEFINE f == [i \in 1..8 |-> CASE i = 1 -> "null" [] i = 2 -> "token" [] i = 3 -> "number"
                                    [] i = 4 -> "money" [] i = 5 -> "bit" [] i = 6 -> "word"
                                    [] i = 7 -> "date" [] i = 8 -> "text"]
  <2>1. /\ f[1] = "null" /\ f[2] = "token" /\ f[3] = "number" /\ f[4] = "money"
        /\ f[5] = "bit" /\ f[6] = "word" /\ f[7] = "date" /\ f[8] = "text"
    OBVIOUS
  <2>2. DOMAIN f = 1..8 /\ f = [i \in 1..8 |-> f[i]]
    OBVIOUS
  <2> HIDE DEF f
  <2>3. IsFiniteSet(1..8)
    <3>1. 1 \in Int /\ 8 \in Int
      OBVIOUS
    <3> QED BY <3>1, FS_Interval
  <2>4. {f[i] : i \in 1..8} = Kinds
    <3>1. 1..8 = {1, 2, 3, 4, 5, 6, 7, 8}
      OBVIOUS
    <3> QED BY <2>1, <3>1 DEF Kinds
  <2> QED BY <2>2, <2>3, <2>4, ImageIsFinite
<1>2. ASSUME NEW b \in BOOLEAN PROVE IsFiniteSet({[kind |-> k, padded |-> b] : k \in Kinds})
  <2> DEFINE f == [k \in Kinds |-> [kind |-> k, padded |-> b]]
  <2>1. DOMAIN f = Kinds /\ f = [k \in Kinds |-> f[k]]
    OBVIOUS
  <2>2. {f[k] : k \in Kinds} = {[kind |-> k, padded |-> b] : k \in Kinds}
    OBVIOUS
  <2> HIDE DEF f
  <2>3. IsFiniteSet({f[k] : k \in Kinds})
    BY <1>1, <2>1, ImageIsFinite
  <2> QED BY <2>2, <2>3
<1>3. Cell = {[kind |-> k, padded |-> TRUE] : k \in Kinds} \cup {[kind |-> k, padded |-> FALSE] : k \in Kinds}
  <2>1. ASSUME NEW c \in Cell
        PROVE  \E k \in Kinds : c = [kind |-> k, padded |-> TRUE] \/ c = [kind |-> k, padded |-> FALSE]
    <3>1. c.kind \in Kinds /\ c.padded \in BOOLEAN /\ c = [kind |-> c.kind, padded |-> c.padded]
      BY DEF Cell
    <3>2. CASE c.padded = TRUE
      BY <3>1, <3>2
    <3>3. CASE c.padded = FALSE
      BY <3>1, <3>3
    <3> QED BY <3>1, <3>2, <3>3
  <2>2. ASSUME NEW k \in Kinds
        PROVE  [kind |-> k, padded |-> TRUE] \in Cell /\ [kind |-> k, padded |-> FALSE] \in Cell
    BY DEF Cell
  <2> QED BY <2>1, <2>2
<1> QED BY <1>2, <1>3, FS_Union

AnyColumn == UNION {[S -> Nat \ {0}] : S \in SUBSET Cell}

(* How many cells of a kind there are: a number, none if there are none.    *)
LEMMA HowManyCounts ==
    ASSUME NEW column \in AnyColumn
    PROVE  /\ Naturals(column, DOMAIN column)
           /\ \A S : HowMany(column, S) \in Nat
           /\ \A S, c : c \in S /\ c \in DOMAIN column => HowMany(column, S) > 0
<1>1. PICK D \in SUBSET Cell : column \in [D -> Nat \ {0}]
  BY DEF AnyColumn
<1>2. Naturals(column, DOMAIN column)
  BY <1>1, CellsAreFinite, FS_Subset DEF Naturals
<1>3. ASSUME NEW S PROVE Naturals(column, DOMAIN column \cap S)
  BY <1>2, FS_Subset DEF Naturals
<1>4. ASSUME NEW S, NEW c, c \in S, c \in DOMAIN column PROVE HowMany(column, S) > 0
  <2>1. column[c] <= SumFunctionOnSet(column, DOMAIN column \cap S)
    BY <1>3, <1>4, SumOfNaturals
  <2>2. column[c] \in Nat \ {0}
    BY <1>1, <1>4
  <2>3. SumFunctionOnSet(column, DOMAIN column \cap S) \in Nat
    BY <1>3, SumOfNaturals
  <2> QED BY <2>1, <2>2, <2>3 DEF HowMany
<1>5. ASSUME NEW S PROVE HowMany(column, S) \in Nat
  BY <1>3, SumOfNaturals DEF HowMany
<1> QED BY <1>2, <1>4, <1>5

(* What lies outside a part of some cells is at most the rest of them.      *)
LEMMA HowManyOutside ==
    ASSUME NEW column \in AnyColumn, NEW S, NEW T \in SUBSET S, NEW U,
           \A c \in U \cap DOMAIN column : c \in S /\ c \notin T
    PROVE  HowMany(column, U) <= HowMany(column, S) - HowMany(column, T)
<1> DEFINE D == DOMAIN column
<1>1. Naturals(column, D \cap S)
  BY HowManyCounts, FS_Subset DEF Naturals
<1>2. Summable(column, D \cap S) /\ (D \cap S) \ (D \cap T) \in SUBSET (D \cap S)
  BY <1>1, SumOfNaturals
<1>3. SumFunctionOnSet(column, D \cap S)
        = SumFunctionOnSet(column, D \cap T) + SumFunctionOnSet(column, (D \cap S) \ (D \cap T))
  <2>1. D \cap T \in SUBSET (D \cap S)
    OBVIOUS
  <2> QED BY <1>2, <2>1, SumSplits
<1>4. SumFunctionOnSet(column, D \cap U) <= SumFunctionOnSet(column, (D \cap S) \ (D \cap T))
  <2>1. D \cap U \in SUBSET ((D \cap S) \ (D \cap T))
    OBVIOUS
  <2>2. Naturals(column, (D \cap S) \ (D \cap T))
    BY <1>1, FS_Subset DEF Naturals
  <2> QED BY <2>1, <2>2, SumOfNaturals
<1>5. /\ HowMany(column, U) \in Nat /\ HowMany(column, S) \in Nat /\ HowMany(column, T) \in Nat
      /\ SumFunctionOnSet(column, (D \cap S) \ (D \cap T)) \in Int
  <2>1. SumFunctionOnSet(column, (D \cap S) \ (D \cap T)) \in Int
    BY <1>1, <1>2, SumOfNaturals
  <2> QED BY <2>1, HowManyCounts
<1> QED BY <1>3, <1>4, <1>5 DEF HowMany

(* A real value is lost only where the column becomes a type that enough    *)
(* of its values have and this one has not.                                 *)
LEMMA LostIsOfOtherType ==
    ASSUME NEW column \in AnyColumn, ResultingType(column) # "text"
    PROVE  \E K \in {TruthLike, DateLike, NumberLike} :
              /\ AtLeast(Fraction(column, K), Coercion)
              /\ \A c \in DOMAIN column : Cleaned(column, c).kind = "null" /\ c \in RealValues => c.kind \notin K
<1>1. DOMAIN column \in SUBSET Cell
  BY DEF AnyColumn
<1>2. ASSUME NEW c \in DOMAIN column, c \in RealValues, Cleaned(column, c).kind = "null"
      PROVE  ~Casts(ResultingType(column), Trimmed(column, c))
  <2>1. c \in Cell /\ c.kind \notin {"null", "token"}
    BY <1>1, <1>2 DEF RealValues
  <2>2. Trimmed(column, c).kind = c.kind
    BY <2>1 DEF Trimmed, Cell
  <2> QED BY <1>2, <2>1, <2>2 DEF Cleaned
<1>3. ASSUME NEW c \in DOMAIN column, c \in RealValues
      PROVE  Trimmed(column, c).kind = c.kind /\ Trimmed(column, c).padded = FALSE
  <2>1. c \in Cell /\ c.kind # "null"
    BY <1>1, <1>3 DEF RealValues
  <2>2. c.padded => Trims(column)
    <3>1. c.padded => c \in Padded
      BY <2>1 DEF Padded
    <3> QED BY <3>1, HowManyCounts DEF Trims
  <2>3. (c.padded /\ ~Trims(column)) = FALSE
    BY <2>2
  <2>4. Trimmed(column, c) = [c EXCEPT !.padded = FALSE]
    BY <2>3 DEF Trimmed
  <2> QED BY <2>1, <2>4 DEF Cell
<1>4. CASE ResultingType(column) = "boolean"
  <2>1. AtLeast(Fraction(column, TruthLike), Coercion)
    BY <1>4 DEF ResultingType
  <2>2. \A c \in DOMAIN column : Cleaned(column, c).kind = "null" /\ c \in RealValues => c.kind \notin TruthLike
    BY <1>2, <1>3, <1>4 DEF Casts
  <2> QED BY <2>1, <2>2
<1>5. CASE ResultingType(column) = "date"
  <2>1. AtLeast(Fraction(column, DateLike), Coercion)
    BY <1>5 DEF ResultingType
  <2>2. \A c \in DOMAIN column : Cleaned(column, c).kind = "null" /\ c \in RealValues => c.kind \notin DateLike
    BY <1>2, <1>3, <1>5 DEF Casts
  <2> QED BY <2>1, <2>2
<1>6. CASE ResultingType(column) = "decimal"
  <2>1. AtLeast(Fraction(column, NumberLike), Coercion)
    BY <1>6 DEF ResultingType
  <2>2. \A c \in DOMAIN column : Cleaned(column, c).kind = "null" /\ c \in RealValues => c.kind \notin NumberLike
    BY <1>2, <1>3, <1>6 DEF Casts
  <2> QED BY <2>1, <2>2
<1>7. ResultingType(column) \in {"boolean", "date", "decimal", "text"}
  BY DEF ResultingType
<1> QED BY <1>4, <1>5, <1>6, <1>7

(* Whatever cells a text column holds and however many: cleaning discards   *)
(* at most the share of real values that the threshold allows, leaves no    *)
(* padding and no placeholder, and never turns a column into numbers of     *)
(* which the user is told that it was left as text.                         *)
THEOREM CleaningKeepsItsWord ==
    ASSUME input \in [cells : AnyColumn]
    PROVE  CleaningIsFaithful
<1> DEFINE column == input.cells
<1>0. column \in AnyColumn
  OBVIOUS
<1> HIDE DEF column
<1>1. \A S : HowMany(column, S) \in Nat
  BY <1>0, HowManyCounts
<1>2. Coercion \in 0..100 /\ MixedUpper \in 0..100 /\ MixedUpper <= Coercion
  BY CleaningAssumption
<1>3. 100 * Lost(column) <= (100 - Coercion) * HowMany(column, RealValues)
  <2> DEFINE Gone == {c \in DOMAIN column \cap RealValues : Cleaned(column, c).kind = "null"}
             lost == HowMany(column, Gone)
             real == HowMany(column, RealValues)
  <2>1. lost \in Nat /\ real \in Nat /\ Lost(column) = lost
    BY <1>1 DEF Lost
  <2>2. CASE ResultingType(column) = "text"
    <3>1. ASSUME NEW c \in DOMAIN column \cap RealValues PROVE Cleaned(column, c).kind # "null"
      <4>1. c \in Cell /\ c.kind \notin {"null", "token"}
        BY DEF RealValues
      <4>2. Trimmed(column, c).kind = c.kind
        BY <4>1 DEF Trimmed, Cell
      <4> QED BY <2>2, <4>1, <4>2 DEF Cleaned, Casts
    <3>2. DOMAIN column \cap Gone = {}
      BY <3>1
    <3>3. lost = 0
      BY <3>2, SumOfNone DEF HowMany
    <3> HIDE DEF lost, real
    <3>4. (100 - Coercion) * real >= 0
      BY <1>2, <2>1
    <3> QED BY <2>1, <3>3, <3>4 DEF real
  <2>3. CASE ResultingType(column) # "text"
    <3>1. PICK K \in {TruthLike, DateLike, NumberLike} :
              /\ AtLeast(Fraction(column, K), Coercion)
              /\ \A c \in DOMAIN column : Cleaned(column, c).kind = "null" /\ c \in RealValues => c.kind \notin K
      BY <1>0, <2>3, LostIsOfOtherType
    <3> DEFINE like == HowMany(column, OfKinds(K))
    <3>2. 100 * like >= Coercion * real /\ like \in Nat
      BY <1>1, <3>1 DEF AtLeast, Fraction
    <3>3. lost <= real - like
      <4>1. OfKinds(K) \in SUBSET RealValues
        BY DEF OfKinds, RealValues, TruthLike, DateLike, NumberLike
      <4>2. \A c \in Gone \cap DOMAIN column : c \in RealValues /\ c \notin OfKinds(K)
        BY <3>1 DEF OfKinds
      <4> HIDE DEF Gone
      <4> QED BY <1>0, <4>1, <4>2, HowManyOutside
    <3> HIDE DEF lost, real, like
    <3>4. (100 - Coercion) * real = 100 * real - Coercion * real
      BY <1>2, <2>1
    <3>5. Coercion * real \in Int
      BY <1>2, <2>1
    <3>6. 100 * lost <= 100 * real - Coercion * real
      BY <2>1, <3>2, <3>3, <3>5
    <3> QED BY <2>1, <3>4, <3>6 DEF real
  <2> QED BY <2>2, <2>3
<1>4. ASSUME NEW c \in DOMAIN column, c.kind # "null"
      PROVE  ~Cleaned(column, c).padded /\ Cleaned(column, c).kind # "token"
  <2>1. c \in Cell
    BY <1>0 DEF AnyColumn
  <2>2. c.padded => Trims(column)
    <3>1. c.padded => c \in Padded
      BY <1>4, <2>1 DEF Padded
    <3> QED BY <1>0, <3>1, HowManyCounts DEF Trims
  <2>3. (c.padded /\ ~Trims(column)) = FALSE
    BY <2>2
  <2>4. Trimmed(column, c) = [c EXCEPT !.padded = FALSE]
    BY <2>3 DEF Trimmed
  <2>5. Trimmed(column, c).padded = FALSE /\ Trimmed(column, c).kind = c.kind
    BY <2>1, <2>4 DEF Cell
  <2>6. c.kind = "token" => Nullifies(column)
    <3>1. c.kind = "token" => c \in OfKinds({"token"})
      BY <2>1 DEF OfKinds
    <3> QED BY <1>0, <3>1, HowManyCounts DEF Nullifies
  <2> QED BY <2>5, <2>6 DEF Cleaned
<1>5. ReportsMixed(column) => ResultingType(column) # "decimal"
  <2> SUFFICES ASSUME ReportsMixed(column), ResultingType(column) = "decimal" PROVE FALSE
    OBVIOUS
  <2> DEFINE of == 100 * HowMany(column, OfKinds(NumberLike))
             outOf == HowMany(column, RealValues)
  <2>1. of \in Nat /\ outOf \in Nat
    BY <1>1
  <2>2. outOf > 0 /\ of >= Coercion * outOf
    BY DEF ResultingType, AtLeast, Fraction
  <2>3. ~(outOf > 0 /\ of >= MixedUpper * outOf)
    BY DEF ReportsMixed, AtLeast, Fraction
  <2> HIDE DEF of, outOf
  <2>4. MixedUpper * outOf <= Coercion * outOf /\ MixedUpper * outOf \in Int /\ Coercion * outOf \in Int
    BY <1>2, <2>1
  <2> QED BY <2>1, <2>2, <2>3, <2>4
<1> QED BY <1>3, <1>4, <1>5 DEF CleaningIsFaithful, CleansFaithfully, column

-----------------------------------------------------------------------------
(* Contribution.                                                            *)

(* A finite set that is not empty has an element that comes first in an     *)
(* order in which any two can be compared.                                  *)
LEMMA BestExists ==
    ASSUME NEW S, IsFiniteSet(S), S # {}, NEW R,
           \A x, y \in S : <<x, y>> \in R \/ <<y, x>> \in R,
           \A x, y, z \in S : <<x, y>> \in R /\ <<y, z>> \in R => <<x, z>> \in R
    PROVE  \E m \in S : \A x \in S : <<m, x>> \in R
<1> DEFINE G == {T \in SUBSET S : T # {} => \E m \in T : \A x \in T : <<m, x>> \in R}
<1>1. {} \in G
  OBVIOUS
<1>2. ASSUME NEW T \in G, NEW y \in S PROVE T \cup {y} \in G
  <2>1. CASE T = {}
    BY <2>1
  <2>2. CASE T # {}
    <3>1. PICK m \in T : \A x \in T : <<m, x>> \in R
      BY <2>2
    <3>2. m \in S /\ T \in SUBSET S
      OBVIOUS
    <3>3. CASE <<m, y>> \in R
      BY <3>1, <3>2, <3>3
    <3>4. CASE <<y, m>> \in R
      <4>1. \A x \in T : <<y, x>> \in R
        BY <3>1, <3>2, <3>4
      <4>2. <<y, y>> \in R
        OBVIOUS
      <4> QED BY <4>1, <4>2
    <3> QED BY <3>2, <3>3, <3>4
  <2> QED BY <2>1, <2>2
<1>3. S \in G
  <2>1. G \in SUBSET SUBSET S
    OBVIOUS
  <2> HIDE DEF G
  <2> QED BY <1>1, <1>2, <2>1, FiniteInduction
<1> QED BY <1>3

LEMMA Scales ==
    ASSUME NEW x \in Int, NEW y \in Int, NEW k \in Nat, x <= y
    PROVE  x * k <= y * k
OBVIOUS

LEMMA ScalesStrictly ==
    ASSUME NEW x \in Int, NEW y \in Int, NEW k \in Nat \ {0}, x < y
    PROVE  x * k < y * k
OBVIOUS

AnyExplanation ==
    UNION {{Explain(d, L) : L \in Listings(d)} : d \in [Segments -> Int]}

Gross(e) == e.stat.gross
Lead(e) == e.stat.lead
Size(e, s) == Abs(e.of[s])

(* What the statistics of an explanation say of its segments.               *)
LEMMA StatisticsAreTrue ==
    ASSUME NEW e \in AnyExplanation
    PROVE  /\ Gross(e) \in Nat /\ Lead(e) \in Nat /\ Lead(e) <= Gross(e)
           /\ \A s \in Segments : Size(e, s) \in Nat /\ Size(e, s) <= Lead(e)
           /\ \A s \in Segments : Outweighs(e.of, s) <=> 2 * Size(e, s) > Gross(e)
           /\ \A s \in Leaders(e) : s \in Segments /\ Size(e, s) = Lead(e)
<1>0. PICK d \in [Segments -> Int] : \E L \in Listings(d) : e = Explain(d, L)
  BY DEF AnyExplanation
<1>1. PICK L \in Listings(d) : e = Explain(d, L)
  BY <1>0
<1>2. /\ e.of = d /\ e.listed = L
      /\ Gross(e) = SumFunctionOnSet(Sizes(d), Segments) /\ Lead(e) = Largest(d, L)
  BY <1>1 DEF Explain, Statistics, Gross, Lead
<1>3. \A s \in Segments : Sizes(d)[s] = Abs(d[s]) /\ Abs(d[s]) \in Nat
  BY DEF Sizes, Abs
<1>4. Naturals(Sizes(d), Segments)
  BY <1>3, ContributionAssumption DEF Naturals
<1>5. /\ L \in SUBSET Segments /\ L # {} /\ IsFiniteSet(L)
      /\ \A s \in L, t \in Segments \ L : Abs(d[s]) >= Abs(d[t])
  <2>1. L \in SUBSET Segments /\ \A s \in L, t \in Segments \ L : Abs(d[s]) >= Abs(d[t])
    BY DEF Listings
  <2>2. IsFiniteSet(L)
    BY <2>1, ContributionAssumption, FS_Subset
  <2>3. Cardinality(L) # 0
    <3>1. Cardinality(Segments) # 0
      BY ContributionAssumption, FS_EmptySet
    <3> QED BY <3>1, ContributionAssumption DEF Listings
  <2> QED BY <2>1, <2>2, <2>3, FS_EmptySet
<1>6. /\ \E s \in L : Lead(e) = Abs(d[s])
      /\ \A s \in L : Abs(d[s]) <= Lead(e)
  <2> DEFINE R == {p \in L \X L : Abs(d[p[1]]) >= Abs(d[p[2]])}
  <2>1. PICK m \in L : \A s \in L : <<m, s>> \in R
    <3>1. \A x, y \in L : <<x, y>> \in R <=> Abs(d[x]) >= Abs(d[y])
      OBVIOUS
    <3>2. \A x \in L : Abs(d[x]) \in Nat
      BY <1>3, <1>5
    <3> HIDE DEF R
    <3>3. ASSUME NEW x \in L, NEW y \in L PROVE <<x, y>> \in R \/ <<y, x>> \in R
      <4>1. Abs(d[x]) >= Abs(d[y]) \/ Abs(d[y]) >= Abs(d[x])
        BY <3>2
      <4> QED BY <3>1, <4>1
    <3>4. \A x, y, z \in L : <<x, y>> \in R /\ <<y, z>> \in R => <<x, z>> \in R
      BY <3>1, <3>2
    <3> QED BY <1>5, <3>3, <3>4, BestExists
  <2>2. \A s \in L : Sizes(d)[s] <= Sizes(d)[m]
    BY <1>3, <1>5, <2>1
  <2>3. /\ Largest(d, L) \in {Sizes(d)[s] : s \in L}
        /\ \A s \in L : Sizes(d)[s] <= Largest(d, L)
    BY <2>2 DEF Largest
  <2> QED BY <1>2, <1>3, <1>5, <2>3
<1>7. \A s \in Segments : Abs(d[s]) <= Lead(e)
  <2>1. PICK l \in L : Lead(e) = Abs(d[l])
    BY <1>6
  <2> QED BY <1>3, <1>5, <1>6, <2>1
<1>8. Gross(e) \in Nat /\ Lead(e) \in Nat /\ Lead(e) <= Gross(e)
  <2>1. PICK l \in L : Lead(e) = Abs(d[l])
    BY <1>6
  <2>2. Sizes(d)[l] <= SumFunctionOnSet(Sizes(d), Segments) /\ SumFunctionOnSet(Sizes(d), Segments) \in Nat
    BY <1>4, <1>5, SumOfNaturals
  <2> QED BY <1>2, <1>3, <1>5, <2>1, <2>2
<1>9. ASSUME NEW s \in Segments PROVE Outweighs(d, s) <=> 2 * Abs(d[s]) > Gross(e)
  <2>1. Summable(Sizes(d), Segments) /\ SumFunctionOnSet(Sizes(d), Segments \ {s}) \in Nat
    BY <1>4, SumOfNaturals
  <2>2. SumFunctionOnSet(Sizes(d), Segments) = Sizes(d)[s] + SumFunctionOnSet(Sizes(d), Segments \ {s})
    BY <2>1, SumWithout
  <2> QED BY <1>2, <1>3, <2>1, <2>2 DEF Outweighs
<1>10. ASSUME NEW s \in Leaders(e) PROVE s \in Segments /\ Abs(d[s]) = Lead(e)
  BY <1>2, <1>5 DEF Leaders, Lead
<1> QED BY <1>2, <1>3, <1>7, <1>8, <1>9, <1>10 DEF Size

(* Explanations can be ranked.                                              *)
LEMMA RankingIsTotal ==
    ASSUME NEW e \in AnyExplanation, NEW f \in AnyExplanation
    PROVE  AtLeastAs(e, f) \/ AtLeastAs(f, e)
<1> DEFINE a == Lead(e)
           A == Gross(e)
           b == Lead(f)
           B == Gross(f)
<1>1. a \in Nat /\ A \in Nat /\ a <= A /\ b \in Nat /\ B \in Nat /\ b <= B
  BY StatisticsAreTrue
<1>2. /\ AtLeastAs(e, f) <=> IF A = 0 THEN B = 0 ELSE a * B >= b * A
      /\ AtLeastAs(f, e) <=> IF B = 0 THEN A = 0 ELSE b * A >= a * B
  BY DEF AtLeastAs, Lead, Gross
<1> HIDE DEF a, A, b, B
<1>3. a * B \in Int /\ b * A \in Int
  BY <1>1
<1>4. (A = 0 => a * B = 0) /\ (B = 0 => b * A = 0)
  BY <1>1
<1> QED BY <1>1, <1>2, <1>3, <1>4

LEMMA RankingIsTransitive ==
    ASSUME NEW e \in AnyExplanation, NEW f \in AnyExplanation, NEW g \in AnyExplanation,
           AtLeastAs(e, f), AtLeastAs(f, g)
    PROVE  AtLeastAs(e, g)
<1> DEFINE a == Lead(e)
           A == Gross(e)
           b == Lead(f)
           B == Gross(f)
           c == Lead(g)
           C == Gross(g)
<1>1. /\ a \in Nat /\ A \in Nat /\ a <= A /\ b \in Nat /\ B \in Nat /\ b <= B
      /\ c \in Nat /\ C \in Nat /\ c <= C
  BY StatisticsAreTrue
<1>2. /\ IF A = 0 THEN B = 0 ELSE a * B >= b * A
      /\ IF B = 0 THEN C = 0 ELSE b * C >= c * B
      /\ AtLeastAs(e, g) <=> IF A = 0 THEN C = 0 ELSE a * C >= c * A
  BY DEF AtLeastAs, Lead, Gross
<1> HIDE DEF a, A, b, B, c, C
<1>3. CASE A = 0 \/ B = 0
  <2>1. C = 0 /\ c = 0
    BY <1>1, <1>2, <1>3
  <2>2. a * C = 0 /\ c * A = 0
    BY <1>1, <2>1
  <2> QED BY <1>2, <2>1, <2>2
<1>4. CASE A # 0 /\ B # 0
  <2> SUFFICES ASSUME a * C < c * A PROVE FALSE
    <3>1. a * C \in Int /\ c * A \in Int
      BY <1>1
    <3> QED BY <1>2, <1>4, <3>1
  <2>1. (b * A) * C <= (a * B) * C
    <3>1. b * A \in Int /\ a * B \in Int /\ b * A <= a * B
      BY <1>1, <1>2, <1>4
    <3> QED BY <1>1, <3>1, Scales
  <2>2. (c * B) * A <= (b * C) * A
    <3>1. c * B \in Int /\ b * C \in Int /\ c * B <= b * C
      BY <1>1, <1>2, <1>4
    <3> QED BY <1>1, <3>1, Scales
  <2>3. (a * C) * B < (c * A) * B
    <3>1. a * C \in Int /\ c * A \in Int /\ B \in Nat \ {0}
      BY <1>1, <1>4
    <3> QED BY <3>1, ScalesStrictly
  <2>4. /\ (a * B) * C = (a * C) * B /\ (b * C) * A = (b * A) * C
        /\ (c * B) * A = (c * A) * B
    BY <1>1
  <2>5. (a * C) * B \in Int /\ (b * A) * C \in Int /\ (c * A) * B \in Int
    BY <1>1
  <2> QED BY <2>1, <2>2, <2>3, <2>4, <2>5
<1> QED BY <1>3, <1>4

(* What ranks before a concentrated explanation is concentrated.            *)
LEMMA ConcentrationRanks ==
    ASSUME NEW e \in AnyExplanation, NEW f \in AnyExplanation,
           AtLeastAs(e, f), Gross(f) > 0, Concentrated(f)
    PROVE  Gross(e) > 0 /\ Concentrated(e)
<1> DEFINE a == Lead(e)
           A == Gross(e)
           b == Lead(f)
           B == Gross(f)
<1>1. a \in Nat /\ A \in Nat /\ a <= A /\ b \in Nat /\ B \in Nat /\ b <= B /\ B > 0
  BY StatisticsAreTrue
<1>2. /\ IF A = 0 THEN B = 0 ELSE a * B >= b * A
      /\ 2 * b > B
      /\ Concentrated(e) <=> 2 * a > A
  BY DEF AtLeastAs, Lead, Gross, Concentrated
<1> HIDE DEF a, A, b, B
<1>3. A > 0 /\ a * B >= b * A
  BY <1>1, <1>2
<1>4. 2 * a > A
  <2> SUFFICES ASSUME 2 * a <= A PROVE FALSE
    BY <1>1
  <2>1. (2 * a) * B <= A * B
    BY <1>1, Scales
  <2>2. B * A < (2 * b) * A
    BY <1>1, <1>2, <1>3, ScalesStrictly
  <2>3. /\ A * B = B * A /\ (2 * a) * B = 2 * (a * B) /\ (2 * b) * A = 2 * (b * A)
        /\ a * B \in Int /\ b * A \in Int /\ B * A \in Int
    BY <1>1
  <2> QED BY <1>3, <2>1, <2>2, <2>3
<1> QED BY <1>2, <1>3, <1>4 DEF A

LEMMA FirstBestIsBest ==
    ASSUME NEW es \in Seq(AnyExplanation), NEW S \in SUBSET DOMAIN es, S # {}
    PROVE  /\ FirstBest(es, S) \in S
           /\ \A j \in S : AtLeastAs(es[FirstBest(es, S)], es[j])
<1>1. \A i \in S : i \in Nat /\ es[i] \in AnyExplanation
  BY ElementOfSeq
<1>2. IsFiniteSet(S)
  <2>1. DOMAIN es = 1..Len(es) /\ Len(es) \in Nat
    OBVIOUS
  <2>2. IsFiniteSet(1..Len(es))
    BY <2>1, FS_Interval
  <2> QED BY <2>1, <2>2, FS_Subset
<1> DEFINE R == {p \in S \X S : AtLeastAs(es[p[1]], es[p[2]])}
           B == {i \in S : \A j \in S : AtLeastAs(es[i], es[j])}
<1>3. \A x, y \in S : <<x, y>> \in R <=> AtLeastAs(es[x], es[y])
  OBVIOUS
<1>4. B # {}
  <2> HIDE DEF R
  <2>1. \A x, y \in S : <<x, y>> \in R \/ <<y, x>> \in R
    BY <1>1, <1>3, RankingIsTotal
  <2>2. \A x, y, z \in S : <<x, y>> \in R /\ <<y, z>> \in R => <<x, z>> \in R
    BY <1>1, <1>3, RankingIsTransitive
  <2>3. PICK m \in S : \A x \in S : <<m, x>> \in R
    BY <1>2, <2>1, <2>2, BestExists
  <2> QED BY <1>3, <2>3
<1>5. PICK i \in B : \A j \in B : i <= j
  <2>1. B \in SUBSET Nat
    BY <1>1
  <2> HIDE DEF B
  <2> QED BY <1>4, <2>1, LeastNumber
<1>6. ASSUME NEW j \in S, j < i, AtLeastAs(es[j], es[i]) PROVE FALSE
  <2>1. j \in B
    <3>1. \A k \in S : AtLeastAs(es[i], es[k])
      OBVIOUS
    <3> QED BY <1>1, <1>6, <3>1, RankingIsTransitive
  <2> QED BY <1>1, <1>5, <1>6, <2>1
<1>7. \E b \in S : /\ \A j \in S : AtLeastAs(es[b], es[j])
                   /\ \A j \in S : j < b => ~AtLeastAs(es[j], es[b])
  BY <1>6
<1> QED BY <1>7 DEF FirstBest

(* However many segments and dimensions there are and however far they      *)
(* moved: a segment is named as the cause only when it moved more than all  *)
(* others of its dimension together, and the change is called broad only    *)
(* when no dimension has such a segment.                                    *)
THEOREM CausesAreAlwaysEarned ==
    ASSUME input \in [movements : Seq(AnyExplanation) \ {<<>>}]
    PROVE  CausesAreEarned
<1> DEFINE es == input.movements
           D == DOMAIN es
           moved == {i \in D : es[i].stat.gross > 0}
           top == FirstBest(es, D)
           m == FirstBest(es, moved)
<1>1. es \in Seq(AnyExplanation) /\ D # {}
  <2>1. es \in Seq(AnyExplanation) /\ es # <<>>
    OBVIOUS
  <2> HIDE DEF es
  <2>2. Len(es) \in Nat /\ Len(es) # 0 /\ D = 1..Len(es)
    BY <2>1, EmptySeq, LenProperties
  <2>3. 1 \in D
    BY <2>2
  <2> QED BY <2>1, <2>3
<1>2. moved = {i \in D : Gross(es[i]) > 0}
  BY DEF Gross
<1>3. Verdict(es) <=> moved # {} /\ Concentrated(es[m])
  BY DEF Verdict
<1>4. Headline(es).of = es[top] /\ Headline(es).says \in {"offsetting", "cause", "broad"}
  BY DEF Headline
<1>5. Headline(es).says = "cause" => Verdict(es)
  BY DEF Headline
<1>6. Headline(es).says = "broad" => ~Verdict(es)
  BY DEF Headline
<1> HIDE DEF es
<1>7. \A i \in D : es[i] \in AnyExplanation
  BY <1>1, ElementOfSeq
<1> HIDE DEF D
<1>8. top \in D /\ \A j \in D : AtLeastAs(es[top], es[j])
  BY <1>1, FirstBestIsBest DEF D
<1>9. moved # {} => m \in moved /\ \A j \in moved : AtLeastAs(es[m], es[j])
  BY <1>1, FirstBestIsBest DEF D
<1> HIDE DEF moved, top, m
<1>10. ASSUME Verdict(es), NEW s \in Leaders(es[top]) PROVE Outweighs(es[top].of, s)
  <2>1. m \in D /\ Gross(es[m]) > 0 /\ Concentrated(es[m])
    BY <1>2, <1>3, <1>9, <1>10
  <2>2. Concentrated(es[top])
    BY <1>7, <1>8, <2>1, ConcentrationRanks
  <2>3. 2 * Lead(es[top]) > Gross(es[top])
    BY <2>2 DEF Concentrated, Lead, Gross
  <2> QED BY <1>7, <1>8, <1>10, <2>3, StatisticsAreTrue
<1>11. ASSUME ~Verdict(es), NEW i \in D, NEW s \in Segments, Outweighs(es[i].of, s) PROVE FALSE
  <2>1. 2 * Size(es[i], s) > Gross(es[i]) /\ Size(es[i], s) \in Nat /\ Size(es[i], s) <= Lead(es[i])
        /\ Gross(es[i]) \in Nat /\ Lead(es[i]) \in Nat /\ Lead(es[i]) <= Gross(es[i])
    BY <1>7, <1>11, StatisticsAreTrue
  <2>2. Gross(es[i]) > 0 /\ 2 * Lead(es[i]) > Gross(es[i])
    BY <2>1
  <2>3. i \in moved
    BY <1>2, <2>2
  <2>4. Concentrated(es[i])
    BY <2>2 DEF Concentrated, Lead, Gross
  <2>5. m \in D /\ AtLeastAs(es[m], es[i])
    BY <1>2, <1>9, <2>3
  <2>6. Concentrated(es[m])
    BY <1>7, <2>2, <2>4, <2>5, ConcentrationRanks
  <2> QED BY <1>3, <1>11, <2>3, <2>6
<1>12. CausesEarned(es)
  BY <1>4, <1>5, <1>6, <1>10, <1>11 DEF CausesEarned, D
<1> QED BY <1>12 DEF CausesAreEarned, es

-----------------------------------------------------------------------------
(* Relationships.                                                           *)

AnyTable == [count : [Values -> Nat], nulls : Nat, name : STRING]

LEMMA PositivesAreFewer ==
    ASSUME NEW f, NEW S, Naturals(f, S)
    PROVE  Cardinality({x \in S : f[x] > 0}) <= SumFunctionOnSet(f, S)
<1> DEFINE Positive(R) == {x \in R : f[x] > 0}
           G == {R \in SUBSET S : Cardinality(Positive(R)) <= SumFunctionOnSet(f, R)}
<1>1. \A R \in SUBSET S : Naturals(f, R) /\ IsFiniteSet(R) /\ IsFiniteSet(Positive(R))
  BY FS_Subset DEF Naturals
<1>2. \A R \in SUBSET S : SumFunctionOnSet(f, R) \in Nat /\ Cardinality(Positive(R)) \in Nat
  BY <1>1, SumOfNaturals, FS_CardinalityType
<1>3. {} \in G
  <2>1. Positive({}) = {}
    OBVIOUS
  <2> QED BY <2>1, SumOfNone, FS_EmptySet
<1>4. ASSUME NEW R \in G, NEW x \in S PROVE R \cup {x} \in G
  <2>1. CASE x \in R
    <3>1. R \cup {x} = R
      BY <2>1
    <3> QED BY <3>1
  <2>2. CASE x \notin R
    <3>1. R \in SUBSET S /\ R \cup {x} \in SUBSET S /\ f[x] \in Nat
      BY DEF Naturals
    <3>2. SumFunctionOnSet(f, R \cup {x}) = f[x] + SumFunctionOnSet(f, R)
      <4>1. Summable(f, R \cup {x})
        BY <1>1, <3>1, SumOfNaturals
      <4> QED BY <2>2, <4>1, SumWith
    <3>3. Cardinality(Positive(R)) <= SumFunctionOnSet(f, R)
      OBVIOUS
    <3>4. CASE f[x] = 0
      <4>1. Positive(R \cup {x}) = Positive(R)
        BY <3>4
      <4>2. Cardinality(Positive(R \cup {x})) <= SumFunctionOnSet(f, R \cup {x})
        BY <1>2, <3>1, <3>2, <3>3, <3>4, <4>1
      <4> QED BY <3>1, <4>2
    <3>5. CASE f[x] > 0
      <4>1. Positive(R \cup {x}) = Positive(R) \cup {x} /\ x \notin Positive(R)
        BY <2>2, <3>5
      <4>2. Cardinality(Positive(R \cup {x})) = Cardinality(Positive(R)) + 1
        <5>1. IsFiniteSet(Positive(R))
          BY <1>1, <3>1
        <5> HIDE DEF Positive
        <5> QED BY <4>1, <5>1, FS_AddElement
      <4>3. Cardinality(Positive(R \cup {x})) <= SumFunctionOnSet(f, R \cup {x})
        BY <1>2, <3>1, <3>2, <3>3, <3>5, <4>2
      <4> QED BY <3>1, <4>3
    <3> QED BY <3>1, <3>4, <3>5
  <2> QED BY <2>1, <2>2
<1>5. S \in G
  <2>1. IsFiniteSet(S) /\ G \in SUBSET SUBSET S
    BY DEF Naturals
  <2> HIDE DEF G
  <2> QED BY <1>3, <1>4, <2>1, FiniteInduction
<1> QED BY <1>5

(* In a key each value occurs once, and so a row has one match or none.     *)
LEMMA KeysMatchOnce ==
    ASSUME NEW t \in AnyTable, IsKey(t), NEW v \in Values
    PROVE  Matches(t, v) = 1
<1>1. Naturals(t.count, Values) /\ IsFiniteSet(Values) /\ t.count \in [Values -> Nat]
  BY RelationshipsAssumption DEF Naturals, AnyTable
<1>2. Cardinality(Present(t)) = SumFunctionOnSet(t.count, Values)
  BY DEF IsKey, NotNull
<1>3. SumFunctionOnSet(t.count, Values) = t.count[v] + SumFunctionOnSet(t.count, Values \ {v})
  BY <1>1, SumOfNaturals, SumWithout
<1>4. Naturals(t.count, Values \ {v})
  BY <1>1, FS_Subset DEF Naturals
<1>5. Cardinality({x \in Values \ {v} : t.count[x] > 0}) <= SumFunctionOnSet(t.count, Values \ {v})
  BY <1>4, PositivesAreFewer
<1>6. Cardinality(Present(t)) <= Cardinality({x \in Values \ {v} : t.count[x] > 0}) + 1
  <2> DEFINE P == {x \in Values \ {v} : t.count[x] > 0}
  <2>1. IsFiniteSet(P)
    <3>1. P \in SUBSET Values
      OBVIOUS
    <3> QED BY <1>1, <3>1, FS_Subset
  <2>2. IsFiniteSet(P \cup {v}) /\ Cardinality(P \cup {v}) <= Cardinality(P) + 1 /\ Cardinality(P) \in Nat
    <3> HIDE DEF P
    <3>1. Cardinality(P) \in Nat
      BY <2>1, FS_CardinalityType
    <3> QED BY <2>1, <3>1, FS_AddElement
  <2>3. Present(t) \in SUBSET (P \cup {v})
    BY DEF Present
  <2>4. Cardinality(Present(t)) <= Cardinality(P \cup {v})
    BY <2>2, <2>3, FS_Subset
  <2>5. Cardinality(Present(t)) \in Nat /\ Cardinality(P \cup {v}) \in Nat
    <3>1. IsFiniteSet(Present(t))
      BY <2>2, <2>3, FS_Subset
    <3> QED BY <2>2, <3>1, FS_CardinalityType
  <2> QED BY <2>2, <2>4, <2>5
<1>7. t.count[v] \in Nat /\ t.count[v] <= 1
  <2>1. /\ t.count[v] \in Nat
        /\ SumFunctionOnSet(t.count, Values \ {v}) \in Nat
    BY <1>1, <1>4, SumOfNaturals
  <2>2. Cardinality({x \in Values \ {v} : t.count[x] > 0}) \in Nat
    <3>1. IsFiniteSet({x \in Values \ {v} : t.count[x] > 0})
      <4>1. {x \in Values \ {v} : t.count[x] > 0} \in SUBSET Values
        OBVIOUS
      <4> QED BY <1>1, <4>1, FS_Subset
    <3> QED BY <3>1, FS_CardinalityType
  <2> QED BY <1>2, <1>3, <1>5, <1>6, <2>1, <2>2
<1> QED BY <1>7 DEF Matches

(* What is proposed is a key, and there are finitely many proposals.        *)
LEMMA ProposalsAreKeys ==
    ASSUME NEW tables \in Seq(AnyTable), NEW e \in Found(tables)
    PROVE  /\ e = <<e[1], e[2]>>
           /\ e[1] \in DOMAIN tables /\ e[2] \in DOMAIN tables /\ e[1] # e[2]
           /\ tables[e[1]] \in AnyTable /\ tables[e[2]] \in AnyTable
           /\ IsKey(tables[e[2]])
<1>1. /\ e \in (DOMAIN tables) \X (DOMAIN tables)
      /\ e[1] # e[2] /\ IsKey(tables[e[2]])
  BY DEF Found
<1>2. e = <<e[1], e[2]>> /\ e[1] \in DOMAIN tables /\ e[2] \in DOMAIN tables
  BY <1>1
<1>3. tables[e[1]] \in AnyTable /\ tables[e[2]] \in AnyTable
  BY <1>2, ElementOfSeq
<1> QED BY <1>1, <1>2, <1>3

LEMMA ProposalsAreFinite ==
    ASSUME NEW tables \in Seq(AnyTable)
    PROVE  IsFiniteSet(Found(tables))
<1>1. IsFiniteSet(DOMAIN tables)
  <2>1. DOMAIN tables = 1..Len(tables) /\ Len(tables) \in Nat
    OBVIOUS
  <2> QED BY <2>1, FS_Interval
<1>2. IsFiniteSet((DOMAIN tables) \X (DOMAIN tables))
  BY <1>1, FS_Product
<1>3. Found(tables) \in SUBSET ((DOMAIN tables) \X (DOMAIN tables))
  BY DEF Found
<1> QED BY <1>2, <1>3, FS_Subset

(* A product of ones.                                                       *)
Multiplied(f, g, T) ==
    IF T = {} THEN 1 ELSE LET x == CHOOSE x \in T : TRUE IN f[x] * g[T \ {x}]
MultipliesUp(f, S, g) == g = [T \in SUBSET S |-> Multiplied(f, g, T)]

LEMMA OnesMultiplyToOne ==
    ASSUME NEW f, NEW S, IsFiniteSet(S), \A x \in S : f[x] = 1
    PROVE  (CHOOSE g : MultipliesUp(f, S, g))[S] = 1
<1>1. \E g : MultipliesUp(f, S, g)
  <2> DEFINE g == [T \in SUBSET S |-> 1]
  <2>1. ASSUME NEW T \in SUBSET S PROVE Multiplied(f, g, T) = 1
    <3>1. CASE T = {}
      BY <3>1 DEF Multiplied
    <3>2. CASE T # {}
      <4> DEFINE x == CHOOSE x \in T : TRUE
      <4>1. x \in T /\ T \ {x} \in SUBSET S
        BY <3>2
      <4>2. f[x] = 1 /\ g[T \ {x}] = 1
        BY <4>1
      <4>3. Multiplied(f, g, T) = f[x] * g[T \ {x}]
        BY <3>2 DEF Multiplied
      <4> QED BY <4>2, <4>3
    <3> QED BY <3>1, <3>2
  <2>2. g = [T \in SUBSET S |-> Multiplied(f, g, T)]
    BY <2>1
  <2> QED BY <2>2 DEF MultipliesUp
<1> DEFINE g == CHOOSE g : MultipliesUp(f, S, g)
<1>2. MultipliesUp(f, S, g)
  BY <1>1
<1> HIDE DEF g
<1> DEFINE Ks == {k \in Nat : \A T \in SUBSET S : Cardinality(T) = k => g[T] = 1}
<1>3. \A T \in SUBSET S : IsFiniteSet(T) /\ Cardinality(T) \in Nat
  BY FS_Subset, FS_CardinalityType
<1>4. 0 \in Ks
  <2>1. g[{}] = 1
    BY <1>2 DEF MultipliesUp, Multiplied
  <2> QED BY <1>3, <2>1, FS_EmptySet
<1>5. ASSUME NEW k \in Ks PROVE k + 1 \in Ks
  <2> SUFFICES ASSUME NEW T \in SUBSET S, Cardinality(T) = k + 1 PROVE g[T] = 1
    OBVIOUS
  <2>1. PICK x \in T : g[T] = f[x] * g[T \ {x}]
    <3>1. T # {} /\ k \in Nat
      BY <1>3, FS_EmptySet
    <3> DEFINE x == CHOOSE x \in T : TRUE
    <3>2. x \in T
      BY <3>1
    <3>3. g[T] = f[x] * g[T \ {x}]
      BY <1>2, <3>1 DEF MultipliesUp, Multiplied
    <3> QED BY <3>2, <3>3
  <2>2. Cardinality(T \ {x}) = k
    <3>1. IsFiniteSet(T) /\ k \in Nat
      BY <1>3
    <3>2. Cardinality(T \ {x}) = Cardinality(T) - 1
      BY <3>1, FS_RemoveElement
    <3> QED BY <3>1, <3>2
  <2>3. g[T \ {x}] = 1 /\ f[x] = 1
    BY <2>2
  <2> QED BY <2>1, <2>3
<1> HIDE DEF Ks
<1>6. Ks = Nat
  BY <1>4, <1>5, Induction DEF Ks
<1>7. g[S] = 1
  BY <1>3, <1>6 DEF Ks
<1> QED BY <1>7 DEF g

LEMMA JoinsCopyOnce ==
    ASSUME NEW tables \in Seq(AnyTable), NEW i \in DOMAIN tables, NEW v \in Values
    PROVE  Copies(tables, i, v) = 1
<1> DEFINE S == {f \in Detect(tables) : f[1] = i}
           m == [e \in S |-> Matches(tables[e[2]], v)]
<1>1. Copies(tables, i, v) = (CHOOSE g : MultipliesUp(m, S, g))[S]
  <2>1. DOMAIN m = S
    OBVIOUS
  <2>2. Copies(tables, i, v) = (CHOOSE g : MultipliesUp(m, DOMAIN m, g))[DOMAIN m]
    BY DEF Copies, FoldFunction, FoldFunctionOnSet, MapThenFoldSet, MultipliesUp, Multiplied
  <2> QED BY <2>1, <2>2
<1>2. IsFiniteSet(S)
  <2>1. S \in SUBSET Found(tables)
    BY DEF Detect
  <2> QED BY <2>1, ProposalsAreFinite, FS_Subset
<1>3. ASSUME NEW e \in S PROVE m[e] = 1
  <2>1. e \in Found(tables)
    BY DEF Detect
  <2>2. tables[e[2]] \in AnyTable /\ IsKey(tables[e[2]])
    BY <2>1, ProposalsAreKeys
  <2> QED BY <2>2, KeysMatchOnce
<1> HIDE DEF S, m
<1> QED BY <1>1, <1>2, <1>3, OnesMultiplyToOne

LEMMA JoinsKeepRows ==
    ASSUME NEW tables \in Seq(AnyTable), NEW i \in DOMAIN tables
    PROVE  JoinedRows(tables, i) = RowCount(tables[i])
<1> DEFINE s == tables[i]
<1>1. s \in AnyTable
  BY ElementOfSeq
<1> HIDE DEF s
<1>2. s.count \in [Values -> Nat] /\ s.nulls \in Nat
  BY <1>1 DEF AnyTable
<1>3. [v \in Values |-> s.count[v] * Copies(tables, i, v)] = s.count
  <2>1. \A v \in Values : s.count[v] * Copies(tables, i, v) = s.count[v]
    BY <1>2, JoinsCopyOnce
  <2> QED BY <1>2, <2>1
<1>4. JoinedRows(tables, i) = s.nulls + SumFunctionOnSet(s.count, Values)
  BY <1>3 DEF JoinedRows, s
<1>5. SumFunctionOnSet(s.count, Values) \in Nat
  BY <1>2, RelationshipsAssumption, SumOfNaturals DEF Naturals
<1> QED BY <1>2, <1>4, <1>5 DEF RowCount, NotNull, s

LEMMA ContainmentIsShare ==
    ASSUME NEW s \in AnyTable, NEW t \in AnyTable
    PROVE  Containment(s, t) \in 0..100
<1>1. CASE Present(s) = {}
  BY <1>1 DEF Containment
<1>2. CASE Present(s) # {}
  <2> DEFINE a == Cardinality(Present(s) \cap Present(t))
             b == Cardinality(Present(s))
  <2>1. IsFiniteSet(Present(s)) /\ IsFiniteSet(Present(s) \cap Present(t))
    <3>1. Present(s) \in SUBSET Values /\ Present(s) \cap Present(t) \in SUBSET Values
      BY DEF Present
    <3> QED BY <3>1, RelationshipsAssumption, FS_Subset
  <2>2. a \in Nat /\ b \in Nat \ {0} /\ a <= b
    <3>1. Present(s) \cap Present(t) \in SUBSET Present(s)
      OBVIOUS
    <3>2. a \in Nat /\ b \in Nat /\ b # 0
      BY <1>2, <2>1, FS_CardinalityType, FS_EmptySet
    <3> QED BY <2>1, <3>1, <3>2, FS_Subset
  <2>3. Containment(s, t) = (100 * a) \div b
    BY <1>2 DEF Containment
  <2> HIDE DEF a, b
  <2>4. (100 * a) \div b \in Nat
    BY <2>2
  <2>5. (100 * a) \div b <= 100
    BY <2>2
  <2> QED BY <2>3, <2>4, <2>5
<1> QED BY <1>1, <1>2

LEMMA ConfidenceFollowsContainment ==
    ASSUME NEW tables \in Seq(AnyTable), NEW e \in Found(tables)
    PROVE  LET c == Containment(tables[e[1]], tables[e[2]]) IN
           /\ Confidence(tables, e) \in Nat
           /\ c <= Confidence(tables, e) /\ Confidence(tables, e) <= c + 5
<1>1. tables[e[1]] \in AnyTable /\ tables[e[2]] \in AnyTable
  BY ProposalsAreKeys
<1>2. Containment(tables[e[1]], tables[e[2]]) \in 0..100
  BY <1>1, ContainmentIsShare
<1> DEFINE c == Containment(tables[e[1]], tables[e[2]])
           bonus == IF NamesAgree(tables[e[1]], tables[e[2]]) THEN 5 ELSE 0
<1>3. Confidence(tables, e) = IF c + bonus > 100 THEN 100 ELSE c + bonus
  BY DEF Confidence
<1>4. c \in 0..100 /\ bonus \in 0..5
  BY <1>2
<1> HIDE DEF c, bonus
<1>5. Confidence(tables, e) \in Nat /\ c <= Confidence(tables, e) /\ Confidence(tables, e) <= c + 5
  BY <1>3, <1>4
<1> QED BY <1>5 DEF c

(* Proposals for one column can be ranked, and no two are alike.            *)
LEMMA ProposalsAreRanked ==
    ASSUME NEW tables \in Seq(AnyTable),
           NEW e \in Found(tables), NEW f \in Found(tables), e[1] = f[1]
    PROVE  /\ e = f \/ Beats(tables, e, f) \/ Beats(tables, f, e)
           /\ ~(Beats(tables, e, f) /\ Beats(tables, f, e))
<1>1. /\ Confidence(tables, e) \in Nat /\ Confidence(tables, f) \in Nat
      /\ e = <<e[1], e[2]>> /\ f = <<f[1], f[2]>>
      /\ e[2] \in DOMAIN tables /\ f[2] \in DOMAIN tables
  BY ConfidenceFollowsContainment, ProposalsAreKeys
<1>2. e[2] \in Nat /\ f[2] \in Nat
  BY <1>1
<1>3. e[2] = f[2] => e = f
  BY <1>1
<1> DEFINE a == NamesAgree(tables[e[1]], tables[e[2]])
           b == NamesAgree(tables[f[1]], tables[f[2]])
<1>4. a \in BOOLEAN /\ b \in BOOLEAN
  BY DEF NamesAgree
<1>5. /\ Beats(tables, e, f) <=>
            \/ Confidence(tables, e) > Confidence(tables, f)
            \/ Confidence(tables, e) = Confidence(tables, f) /\ ((a /\ ~b) \/ ((a <=> b) /\ e[2] < f[2]))
      /\ Beats(tables, f, e) <=>
            \/ Confidence(tables, f) > Confidence(tables, e)
            \/ Confidence(tables, f) = Confidence(tables, e) /\ ((b /\ ~a) \/ ((b <=> a) /\ f[2] < e[2]))
  BY <1>4 DEF Beats
<1> HIDE DEF a, b
<1> QED BY <1>1, <1>2, <1>3, <1>4, <1>5

LEMMA RankingOfProposals ==
    ASSUME NEW tables \in Seq(AnyTable),
           NEW e \in Found(tables), NEW f \in Found(tables), NEW g \in Found(tables),
           Beats(tables, e, f), Beats(tables, f, g)
    PROVE  Beats(tables, e, g)
<1>1. /\ Confidence(tables, e) \in Nat /\ Confidence(tables, f) \in Nat /\ Confidence(tables, g) \in Nat
      /\ e[2] \in DOMAIN tables /\ f[2] \in DOMAIN tables /\ g[2] \in DOMAIN tables
  BY ConfidenceFollowsContainment, ProposalsAreKeys
<1>2. e[2] \in Nat /\ f[2] \in Nat /\ g[2] \in Nat
  BY <1>1
<1> DEFINE a == NamesAgree(tables[e[1]], tables[e[2]])
           b == NamesAgree(tables[f[1]], tables[f[2]])
           c == NamesAgree(tables[g[1]], tables[g[2]])
<1>3. a \in BOOLEAN /\ b \in BOOLEAN /\ c \in BOOLEAN
  BY DEF NamesAgree
<1>4. /\ \/ Confidence(tables, e) > Confidence(tables, f)
         \/ Confidence(tables, e) = Confidence(tables, f) /\ ((a /\ ~b) \/ ((a <=> b) /\ e[2] < f[2]))
      /\ \/ Confidence(tables, f) > Confidence(tables, g)
         \/ Confidence(tables, f) = Confidence(tables, g) /\ ((b /\ ~c) \/ ((b <=> c) /\ f[2] < g[2]))
      /\ Beats(tables, e, g) <=>
            \/ Confidence(tables, e) > Confidence(tables, g)
            \/ Confidence(tables, e) = Confidence(tables, g) /\ ((a /\ ~c) \/ ((a <=> c) /\ e[2] < g[2]))
  BY <1>3 DEF Beats
<1> HIDE DEF a, b, c
<1> QED BY <1>1, <1>2, <1>3, <1>4

(* A column that has a candidate keeps the best one.                        *)
LEMMA BestProposalStays ==
    ASSUME NEW tables \in Seq(AnyTable), NEW e \in Found(tables)
    PROVE  \E f \in Detect(tables) : f[1] = e[1] /\ (f = e \/ Beats(tables, f, e))
<1> DEFINE S == {f \in Found(tables) : f[1] = e[1]}
           R == {p \in S \X S : p[1] = p[2] \/ Beats(tables, p[1], p[2])}
<1>1. \A x, y \in S : <<x, y>> \in R <=> x = y \/ Beats(tables, x, y)
  OBVIOUS
<1>2. e \in S /\ S \in SUBSET Found(tables) /\ \A x \in S : x[1] = e[1]
  OBVIOUS
<1>3. IsFiniteSet(S)
  BY <1>2, ProposalsAreFinite, FS_Subset
<1> HIDE DEF R, S
<1>4. \A x, y \in S : <<x, y>> \in R \/ <<y, x>> \in R
  <2> TAKE x, y \in S
  <2>1. x \in Found(tables) /\ y \in Found(tables) /\ x[1] = y[1]
    BY <1>2
  <2>2. x = y \/ Beats(tables, x, y) \/ Beats(tables, y, x)
    BY <2>1, ProposalsAreRanked
  <2> QED BY <1>1, <2>2
<1>5. \A x, y, z \in S : <<x, y>> \in R /\ <<y, z>> \in R => <<x, z>> \in R
  <2> TAKE x, y, z \in S
  <2>1. x \in Found(tables) /\ y \in Found(tables) /\ z \in Found(tables)
    BY <1>2
  <2>2. Beats(tables, x, y) /\ Beats(tables, y, z) => Beats(tables, x, z)
    BY <2>1, RankingOfProposals
  <2> QED BY <1>1, <2>2
<1>6. PICK m \in S : \A x \in S : <<m, x>> \in R
  <2>1. S # {}
    BY <1>2
  <2> QED BY <1>3, <1>4, <1>5, <2>1, BestExists
<1>7. \A x \in S : m = x \/ Beats(tables, m, x)
  BY <1>1, <1>6
<1>8. m \in Detect(tables)
  BY <1>2, <1>7 DEF Detect, S
<1> QED BY <1>2, <1>7, <1>8

(* Whatever tables a workspace has, of any size: joining what is proposed   *)
(* neither multiplies nor drops a row, a column has one target, and a       *)
(* column that has a candidate keeps one at least as well contained, bar    *)
(* the five points a name is worth.                                         *)
THEOREM ProposalsAreSafe ==
    ASSUME input \in [tables : Seq(AnyTable)]
    PROVE  ProposalsKeepRows
<1> DEFINE tables == input.tables
<1>1. tables \in Seq(AnyTable)
  OBVIOUS
<1> HIDE DEF tables
<1>2. \A i \in DOMAIN tables : JoinedRows(tables, i) = RowCount(tables[i])
  BY <1>1, JoinsKeepRows
<1>3. ASSUME NEW e \in Detect(tables), NEW f \in Detect(tables), e[1] = f[1] PROVE e = f
  <2>1. e \in Found(tables) /\ f \in Found(tables)
    BY DEF Detect
  <2>2. e # f => Beats(tables, e, f) /\ Beats(tables, f, e)
    BY <1>3, <2>1 DEF Detect
  <2> QED BY <1>1, <1>3, <2>1, <2>2, ProposalsAreRanked
<1>4. ASSUME NEW e \in Found(tables)
      PROVE  \E f \in Detect(tables) :
                /\ f[1] = e[1]
                /\ Containment(tables[f[1]], tables[f[2]]) + 5 >= Containment(tables[e[1]], tables[e[2]])
  <2>1. PICK f \in Detect(tables) : f[1] = e[1] /\ (f = e \/ Beats(tables, f, e))
    BY <1>1, BestProposalStays
  <2>2. f \in Found(tables)
    BY DEF Detect
  <2>3. Confidence(tables, f) >= Confidence(tables, e)
    <3>1. Confidence(tables, e) \in Nat /\ Confidence(tables, f) \in Nat
      BY <1>1, <2>2, ConfidenceFollowsContainment
    <3> QED BY <2>1, <3>1 DEF Beats
  <2> DEFINE c == Containment(tables[e[1]], tables[e[2]])
             d == Containment(tables[f[1]], tables[f[2]])
  <2>4. /\ Confidence(tables, e) \in Nat /\ c <= Confidence(tables, e)
        /\ Confidence(tables, f) \in Nat /\ Confidence(tables, f) <= d + 5
        /\ c \in Nat /\ d \in Nat
    <3>1. /\ tables[e[1]] \in AnyTable /\ tables[e[2]] \in AnyTable
          /\ tables[f[1]] \in AnyTable /\ tables[f[2]] \in AnyTable
      BY <1>1, <2>2, ProposalsAreKeys
    <3>2. c \in 0..100 /\ d \in 0..100
      BY <3>1, ContainmentIsShare
    <3>3. Confidence(tables, e) \in Nat /\ c <= Confidence(tables, e)
      BY <1>1, ConfidenceFollowsContainment
    <3>4. Confidence(tables, f) \in Nat /\ Confidence(tables, f) <= d + 5
      BY <1>1, <2>2, ConfidenceFollowsContainment
    <3> HIDE DEF c, d
    <3> QED BY <3>2, <3>3, <3>4
  <2> HIDE DEF c, d
  <2>5. d + 5 >= c
    BY <2>3, <2>4
  <2> QED BY <2>1, <2>5 DEF c, d
<1>5. ProposesSafely(tables)
  BY <1>2, <1>3, <1>4 DEF ProposesSafely
<1> QED BY <1>5 DEF ProposalsKeepRows, tables

-----------------------------------------------------------------------------
(* RateLimit.                                                               *)

CounterState == [hits : Nat, ttl : 0..Window]

LEMMA AfterIsState ==
    ASSUME NEW c \in CounterState, NEW event \in Events
    PROVE  After(c, event) \in CounterState
<1>1. c.hits \in Nat /\ c.ttl \in 0..Window /\ c = [hits |-> c.hits, ttl |-> c.ttl]
  BY DEF CounterState
<1>2. Fresh \in CounterState /\ Hit(c) \in CounterState
  BY <1>1, RateAssumption DEF CounterState, Fresh, Hit, ExpiresNX
<1>3. Passes(c) \in CounterState
  <2>1. CASE c.ttl <= 1
    BY <1>2, <2>1 DEF Passes
  <2>2. CASE c.ttl > 1
    <3>1. Passes(c) = [hits |-> c.hits, ttl |-> c.ttl - 1]
      BY <1>1, <2>2 DEF Passes, CounterState
    <3>2. c.ttl - 1 \in 0..Window
      BY <1>1, <2>2, RateAssumption
    <3> QED BY <1>1, <3>1, <3>2 DEF CounterState
  <2> QED BY <1>1, <2>1, <2>2
<1> QED BY <1>2, <1>3 DEF After, Events

(* The counter after each event of a history.                               *)
LEMMA CountersFollow ==
    ASSUME NEW h \in Seq(Events)
    PROVE  /\ \A n \in 0..Len(h) : Counter(h, n) \in CounterState
           /\ Counter(h, 0) = Fresh
           /\ \A n \in 1..Len(h) : Counter(h, n) = After(Counter(h, n - 1), h[n])
<1> DEFINE N == Len(h)
           Is(f) == f = [n \in 0..N |-> IF n = 0 THEN Fresh ELSE After(f[n - 1], h[n])]
           next == [p \in (1..N) \X CounterState |-> After(p[2], h[p[1]])]
<1>1. N \in Nat /\ \A n \in 1..N : h[n] \in Events
  BY LenProperties, ElementOfSeq
<1>2. Fresh \in CounterState
  BY RateAssumption DEF CounterState, Fresh
<1>3. next \in [(1..N) \X CounterState -> CounterState]
  <2>1. ASSUME NEW p \in (1..N) \X CounterState PROVE After(p[2], h[p[1]]) \in CounterState
    <3>1. p[2] \in CounterState /\ p[1] \in 1..N
      OBVIOUS
    <3>2. h[p[1]] \in Events
      BY <1>1, <3>1
    <3> QED BY <3>1, <3>2, AfterIsState
  <2> QED BY <2>1
<1>4. \A n \in 1..N, c \in CounterState : next[<<n, c>>] = After(c, h[n])
  OBVIOUS
<1> HIDE DEF N, next
<1>5. PICK f \in [0..N -> CounterState] : Follows(f, N, Fresh, next)
  BY <1>1, <1>2, <1>3, Recursion
<1>6. f[0] = Fresh
  BY <1>5 DEF Follows
<1>7. ASSUME NEW n \in 1..N PROVE n - 1 \in 0..N /\ n \in 0..N /\ f[n] = After(f[n - 1], h[n])
  <2>1. n - 1 \in 0..N /\ n \in 0..N
    BY <1>1
  <2>2. f[n - 1] \in CounterState
    BY <2>1
  <2> QED BY <1>4, <1>5, <2>1, <2>2 DEF Follows
<1>8. Is(f)
  <2>1. \A n \in 0..N : f[n] = IF n = 0 THEN Fresh ELSE After(f[n - 1], h[n])
    BY <1>1, <1>6, <1>7
  <2> QED BY <2>1
<1> DEFINE g == Counters(h)
<1>9. Is(g)
  <2>1. Counters(h) = CHOOSE after : Is(after)
    BY DEF Counters, N
  <2> HIDE DEF Is
  <2> QED BY <1>8, <2>1
<1> HIDE DEF g
<1>10. g[0] = Fresh /\ \A n \in 1..N : g[n] = After(g[n - 1], h[n])
  <2>1. \A n \in 0..N : g[n] = IF n = 0 THEN Fresh ELSE After(g[n - 1], h[n])
    BY <1>9
  <2> QED BY <1>1, <1>7, <2>1
<1> HIDE DEF Is
<1> DEFINE G == {n \in Nat : n <= N => g[n] = f[n]}
<1>11. 0 \in G
  BY <1>6, <1>10
<1>12. ASSUME NEW n \in G PROVE n + 1 \in G
  <2> SUFFICES ASSUME n + 1 <= N PROVE g[n + 1] = f[n + 1]
    OBVIOUS
  <2>1. n + 1 \in 1..N /\ (n + 1) - 1 = n
    BY <1>1
  <2>2. g[n] = f[n]
    BY <1>1
  <2>3. g[n + 1] = After(g[n], h[n + 1])
    BY <1>10, <2>1
  <2>4. f[n + 1] = After(f[n], h[n + 1])
    BY <1>7, <2>1
  <2> QED BY <2>2, <2>3, <2>4
<1> HIDE DEF G
<1>13. G = Nat
  BY <1>11, <1>12, Induction DEF G
<1>14. \A n \in 0..N : g[n] = f[n] /\ f[n] \in CounterState
  BY <1>1, <1>13 DEF G
<1>15. \A n : Counter(h, n) = g[n]
  BY DEF Counter, g
<1> QED BY <1>10, <1>14, <1>15 DEF N

(* How many members of a set are in a range of numbers.                     *)
Within(P, i, j) == Cardinality(P \cap (i..j))

LEMMA WithinIsFinite ==
    ASSUME NEW P, NEW i \in Nat, NEW j \in Nat
    PROVE  IsFiniteSet(P \cap (i..j)) /\ Within(P, i, j) \in Nat
<1>1. IsFiniteSet(i..j)
  BY FS_Interval
<1>2. P \cap (i..j) \in SUBSET (i..j)
  OBVIOUS
<1> QED BY <1>1, <1>2, FS_Subset, FS_CardinalityType DEF Within

LEMMA WithinNext ==
    ASSUME NEW P, NEW i \in Nat, NEW j \in Nat, i <= j + 1
    PROVE  Within(P, i, j + 1) = Within(P, i, j) + (IF j + 1 \in P THEN 1 ELSE 0)
<1>1. IsFiniteSet(P \cap (i..j)) /\ Within(P, i, j) \in Nat
  BY WithinIsFinite
<1>2. CASE j + 1 \in P
  <2>1. P \cap (i..(j + 1)) = (P \cap (i..j)) \cup {j + 1} /\ j + 1 \notin P \cap (i..j)
    BY <1>2
  <2> QED BY <1>1, <1>2, <2>1, FS_AddElement DEF Within
<1>3. CASE j + 1 \notin P
  <2>1. P \cap (i..(j + 1)) = P \cap (i..j)
    BY <1>3
  <2> QED BY <1>1, <1>3, <2>1 DEF Within
<1> QED BY <1>2, <1>3

LEMMA WithinNone ==
    ASSUME NEW P, NEW i \in Nat, NEW j \in Nat, j < i
    PROVE  Within(P, i, j) = 0
<1>1. P \cap (i..j) = {}
  OBVIOUS
<1> QED BY <1>1, FS_EmptySet DEF Within

LEMMA WithinGrows ==
    ASSUME NEW P, NEW i \in Nat, NEW j \in Nat, NEW k \in Nat, NEW l \in Nat, i <= k, l <= j
    PROVE  Within(P, k, l) <= Within(P, i, j)
<1>1. IsFiniteSet(P \cap (i..j)) /\ P \cap (k..l) \in SUBSET (P \cap (i..j))
  BY WithinIsFinite
<1> QED BY <1>1, FS_Subset DEF Within

LEMMA WithinParts ==
    ASSUME NEW P, NEW i \in Nat, NEW j \in Nat, NEW k \in Nat
    PROVE  Within(P, i, k) <= Within(P, i, j) + Within(P, j + 1, k)
<1> DEFINE A == P \cap (i..j)
           B == P \cap ((j + 1)..k)
           C == P \cap (i..k)
<1>1. IsFiniteSet(A) /\ IsFiniteSet(B) /\ C \in SUBSET (A \cup B)
  BY WithinIsFinite
<1> HIDE DEF A, B, C
<1>2. IsFiniteSet(A \cup B) /\ IsFiniteSet(A \cap B)
  BY <1>1, FS_Union, FS_Intersection
<1>3. /\ Cardinality(A \cup B) = Cardinality(A) + Cardinality(B) - Cardinality(A \cap B)
      /\ Cardinality(C) <= Cardinality(A \cup B)
  BY <1>1, <1>2, FS_Union, FS_Subset
<1>4. IsFiniteSet(C)
  BY <1>1, <1>2, FS_Subset
<1>5. /\ Cardinality(A) \in Nat /\ Cardinality(B) \in Nat /\ Cardinality(A \cap B) \in Nat
      /\ Cardinality(C) \in Nat /\ Cardinality(A \cup B) \in Nat
  BY <1>1, <1>2, <1>4, FS_CardinalityType
<1>6. Cardinality(C) <= Cardinality(A) + Cardinality(B)
  BY <1>3, <1>5
<1> QED BY <1>6 DEF Within, A, B, C

TickSet(h) == {k \in 1..Len(h) : h[k] = "tick"}
Succeeds(h, k) == h[k] = "right" /\ ~Refused(h, k)

(* The counter began after event b, and the one before it after event a:    *)
(* a counter knows of the wrong logins that it let through, until the limit *)
(* it has lived as long as its time to live lacks, and nobody succeeded;    *)
(* and whatever came before a is a window or a success ago.                 *)
Story(h, n, a, b) ==
    LET c == Counter(h, n) IN
    /\ a <= b
    /\ Within(LetThrough(h), b + 1, n) = IF c.hits < Limit THEN c.hits ELSE Limit
    /\ c.hits = 0 <=> c.ttl = 0
    /\ c.ttl > 0 => Within(TickSet(h), b + 1, n) = Window - c.ttl
    /\ \A k \in (b + 1)..n : ~Succeeds(h, k)
    /\ Within(LetThrough(h), a + 1, b) <= Limit
    /\ \A m \in 1..a : (\E k \in m..n : Succeeds(h, k)) \/ Within(TickSet(h), m, n) >= Window

HasStory(h, n) == \E a, b \in 0..n : Story(h, n, a, b)

(* What a login or a tick is to the counter.                                *)
LEMMA EventIs ==
    ASSUME NEW h \in Seq(Events), NEW n \in Nat, n + 1 <= Len(h)
    PROVE  LET c == Counter(h, n)
               d == Counter(h, n + 1)
               e == h[n + 1] IN
           /\ c \in CounterState /\ d \in CounterState /\ e \in Events
           /\ d = After(c, e)
           /\ n + 1 \in TickSet(h) <=> e = "tick"
           /\ n + 1 \in LetThrough(h) <=> e = "wrong" /\ c.hits < Limit
           /\ Succeeds(h, n + 1) <=> e = "right" /\ c.hits < Limit
<1>1. n + 1 \in 1..Len(h) /\ n \in 0..Len(h) /\ n + 1 \in 0..Len(h) /\ (n + 1) - 1 = n
  BY LenProperties
<1>2. /\ Counter(h, n) \in CounterState /\ Counter(h, n + 1) \in CounterState
      /\ Counter(h, n + 1) = After(Counter(h, n), h[n + 1])
  BY <1>1, CountersFollow
<1>3. h[n + 1] \in Events
  BY <1>1, LenProperties, ElementOfSeq
<1>4. Refused(h, n + 1) <=> h[n + 1] \in {"wrong", "right"} /\ Counter(h, n).hits >= Limit
  BY <1>1 DEF Refused
<1>5. Counter(h, n).hits >= Limit <=> ~(Counter(h, n).hits < Limit)
  <2>1. Counter(h, n).hits \in Nat /\ Limit \in Nat
    BY <1>2, RateAssumption DEF CounterState
  <2> QED BY <2>1
<1> QED BY <1>1, <1>2, <1>3, <1>4, <1>5 DEF TickSet, LetThrough, Succeeds

(* An old counter's wrong logins stay a window or a success ago.            *)
LEMMA PastStays ==
    ASSUME NEW h, NEW n \in Nat, NEW m \in 1..n,
           (\E k \in m..n : Succeeds(h, k)) \/ Within(TickSet(h), m, n) >= Window
    PROVE  (\E k \in m..(n + 1) : Succeeds(h, k)) \/ Within(TickSet(h), m, n + 1) >= Window
<1>1. m \in Nat /\ n + 1 \in Nat /\ m..n \in SUBSET (m..(n + 1))
  OBVIOUS
<1>2. Within(TickSet(h), m, n) <= Within(TickSet(h), m, n + 1)
  BY <1>1, WithinGrows
<1>3. Within(TickSet(h), m, n) \in Nat /\ Within(TickSet(h), m, n + 1) \in Nat
  BY <1>1, WithinIsFinite
<1>4. Window \in Nat
  BY RateAssumption
<1> QED BY <1>1, <1>2, <1>3, <1>4

LEMMA StoryGoesOn ==
    ASSUME NEW h \in Seq(Events), NEW n \in Nat, n + 1 <= Len(h), HasStory(h, n)
    PROVE  HasStory(h, n + 1)
<1> DEFINE c == Counter(h, n)
           d == Counter(h, n + 1)
           e == h[n + 1]
<1>1. PICK a \in 0..n, b \in 0..n : Story(h, n, a, b)
  BY DEF HasStory
<1>2. /\ c \in CounterState /\ d \in CounterState /\ e \in Events /\ d = After(c, e)
      /\ n + 1 \in TickSet(h) <=> e = "tick"
      /\ n + 1 \in LetThrough(h) <=> e = "wrong" /\ c.hits < Limit
      /\ Succeeds(h, n + 1) <=> e = "right" /\ c.hits < Limit
  BY EventIs
<1>3. /\ a <= b
      /\ Within(LetThrough(h), b + 1, n) = IF c.hits < Limit THEN c.hits ELSE Limit
      /\ c.hits = 0 <=> c.ttl = 0
      /\ c.ttl > 0 => Within(TickSet(h), b + 1, n) = Window - c.ttl
      /\ \A k \in (b + 1)..n : ~Succeeds(h, k)
      /\ Within(LetThrough(h), a + 1, b) <= Limit
      /\ \A m \in 1..a : (\E k \in m..n : Succeeds(h, k)) \/ Within(TickSet(h), m, n) >= Window
  BY <1>1 DEF Story
<1> HIDE DEF c, d, e
<1>4. /\ c.hits \in Nat /\ c.ttl \in 0..Window /\ d.hits \in Nat /\ d.ttl \in 0..Window
      /\ Limit \in Nat \ {0} /\ Window \in Nat \ {0}
      /\ a \in Nat /\ b \in Nat /\ a + 1 \in Nat /\ b + 1 \in Nat /\ n + 1 \in Nat
      /\ a \in 0..(n + 1) /\ b \in 0..(n + 1)
  BY <1>2, RateAssumption DEF CounterState
<1>5. \A m \in 1..a : (\E k \in m..(n + 1) : Succeeds(h, k)) \/ Within(TickSet(h), m, n + 1) >= Window
  <2> TAKE m \in 1..a
  <2>1. m \in 1..n
    BY <1>4
  <2> QED BY <1>3, <2>1, PastStays
<1>6. /\ Within(LetThrough(h), b + 1, n + 1)
           = Within(LetThrough(h), b + 1, n) + (IF n + 1 \in LetThrough(h) THEN 1 ELSE 0)
      /\ Within(TickSet(h), b + 1, n + 1)
           = Within(TickSet(h), b + 1, n) + (IF n + 1 \in TickSet(h) THEN 1 ELSE 0)
      /\ Within(LetThrough(h), b + 1, n) \in Nat /\ Within(TickSet(h), b + 1, n) \in Nat
  <2>1. b + 1 <= n + 1
    BY <1>4
  <2>2. \A P : Within(P, b + 1, n + 1) = Within(P, b + 1, n) + (IF n + 1 \in P THEN 1 ELSE 0)
    BY <1>4, <2>1, WithinNext
  <2>3. \A P : Within(P, b + 1, n) \in Nat
    BY <1>4, WithinIsFinite
  <2> QED BY <2>2, <2>3
<1>7. \A k \in (b + 1)..(n + 1) : k = n + 1 \/ k \in (b + 1)..n
  BY <1>4
(* The counter lives on, or there is none and none begins.                  *)
<1>8. ASSUME d.hits = 0 <=> d.ttl = 0,
             ~Succeeds(h, n + 1),
             Within(LetThrough(h), b + 1, n + 1) = IF d.hits < Limit THEN d.hits ELSE Limit,
             d.ttl > 0 => Within(TickSet(h), b + 1, n + 1) = Window - d.ttl
      PROVE  HasStory(h, n + 1)
  <2>1. \A k \in (b + 1)..(n + 1) : ~Succeeds(h, k)
    BY <1>3, <1>7, <1>8
  <2>2. Story(h, n + 1, a, b)
    BY <1>3, <1>5, <1>8, <2>1 DEF Story, d
  <2> QED BY <1>4, <2>2 DEF HasStory
<1>9. CASE e = "outage"
  <2>1. d = c
    BY <1>2, <1>9 DEF After
  <2> QED BY <1>2, <1>3, <1>4, <1>6, <1>8, <1>9, <2>1
<1>10. CASE e = "tick" /\ c.ttl = 0
  <2>1. d.hits = 0 /\ d.ttl = 0
    BY <1>2, <1>4, <1>10 DEF After, Passes, Fresh
  <2>2. c.hits = 0
    BY <1>3, <1>10
  <2>3. ~Succeeds(h, n + 1) /\ n + 1 \notin LetThrough(h)
    BY <1>2, <1>10
  <2>4. Within(LetThrough(h), b + 1, n + 1) = IF d.hits < Limit THEN d.hits ELSE Limit
    BY <1>3, <1>4, <1>6, <2>1, <2>2, <2>3
  <2>5. ~(d.ttl > 0)
    BY <2>1
  <2> QED BY <1>8, <2>1, <2>3, <2>4, <2>5
<1>11. CASE e = "tick" /\ c.ttl > 1
  <2>1. d.hits = c.hits /\ d.ttl = c.ttl - 1
    BY <1>2, <1>4, <1>11 DEF After, Passes, CounterState
  <2>2. ~Succeeds(h, n + 1) /\ n + 1 \notin LetThrough(h) /\ n + 1 \in TickSet(h)
    BY <1>2, <1>11
  <2>3. Within(LetThrough(h), b + 1, n + 1) = IF d.hits < Limit THEN d.hits ELSE Limit
    BY <1>3, <1>4, <1>6, <2>1, <2>2
  <2>4. Within(TickSet(h), b + 1, n + 1) = Window - d.ttl
    <3>1. Within(TickSet(h), b + 1, n) = Window - c.ttl
      BY <1>3, <1>4, <1>11
    <3>2. Within(TickSet(h), b + 1, n + 1) = Within(TickSet(h), b + 1, n) + 1
      BY <1>6, <2>2
    <3> QED BY <1>4, <2>1, <3>1, <3>2
  <2>5. d.hits = 0 <=> d.ttl = 0
    BY <1>3, <1>4, <1>11, <2>1
  <2> QED BY <1>8, <2>2, <2>3, <2>4, <2>5
(* Its time is up: it is the one before from now on.                        *)
<1>12. CASE e = "tick" /\ c.ttl = 1
  <2>1. d.hits = 0 /\ d.ttl = 0
    BY <1>2, <1>4, <1>12 DEF After, Passes, Fresh
  <2>2. Within(LetThrough(h), b + 1, n + 1) <= Limit
    BY <1>2, <1>3, <1>4, <1>6, <1>12
  <2>3. Within(TickSet(h), b + 1, n + 1) = Window
    BY <1>2, <1>3, <1>4, <1>6, <1>12
  <2>4. \A m \in 1..b : Within(TickSet(h), m, n + 1) >= Window
    <3> TAKE m \in 1..b
    <3>1. m \in Nat /\ m <= b + 1
      BY <1>4
    <3>2. Within(TickSet(h), b + 1, n + 1) <= Within(TickSet(h), m, n + 1)
      BY <1>4, <3>1, WithinGrows
    <3>3. Within(TickSet(h), m, n + 1) \in Nat
      BY <1>4, <3>1, WithinIsFinite
    <3> QED BY <1>4, <2>3, <3>2, <3>3
  <2>5. Within(LetThrough(h), (n + 1) + 1, n + 1) = 0
    BY <1>4, WithinNone
  <2>6. \A k \in ((n + 1) + 1)..(n + 1) : ~Succeeds(h, k)
    BY <1>4
  <2>7. b <= n + 1 /\ d.hits < Limit /\ ~(d.ttl > 0)
    BY <1>4, <2>1
  <2>8. Story(h, n + 1, b, n + 1)
    BY <2>1, <2>2, <2>4, <2>5, <2>6, <2>7 DEF Story, d
  <2>9. n + 1 \in 0..(n + 1)
    BY <1>4
  <2> QED BY <1>4, <2>8, <2>9 DEF HasStory
(* A first hit begins a counter.                                            *)
<1>13. CASE e = "wrong" /\ c.hits = 0
  <2>1. d.hits = 1 /\ d.ttl = Window
    BY <1>2, <1>3, <1>4, <1>13 DEF After, Hit, ExpiresNX
  <2>2. /\ Within(LetThrough(h), n + 1, n) = 0 /\ Within(TickSet(h), n + 1, n) = 0
        /\ Within(LetThrough(h), n + 1, n + 1)
             = Within(LetThrough(h), n + 1, n) + (IF n + 1 \in LetThrough(h) THEN 1 ELSE 0)
        /\ Within(TickSet(h), n + 1, n + 1)
             = Within(TickSet(h), n + 1, n) + (IF n + 1 \in TickSet(h) THEN 1 ELSE 0)
    <3>1. Within(LetThrough(h), n + 1, n) = 0 /\ Within(TickSet(h), n + 1, n) = 0
      BY <1>4, WithinNone
    <3>2. \A S : Within(S, n + 1, n + 1) = Within(S, n + 1, n) + (IF n + 1 \in S THEN 1 ELSE 0)
      BY <1>4, WithinNext
    <3> QED BY <3>1, <3>2
  <2>3. Within(LetThrough(h), n + 1, n + 1) = 1 /\ Within(TickSet(h), n + 1, n + 1) = 0
    BY <1>2, <1>4, <1>13, <2>2
  <2>4. \A k \in (n + 1)..(n + 1) : ~Succeeds(h, k)
    BY <1>2, <1>4, <1>13
  <2>5. Within(LetThrough(h), a + 1, n) <= Limit
    <3>1. Within(LetThrough(h), a + 1, n) <= Within(LetThrough(h), a + 1, b) + Within(LetThrough(h), b + 1, n)
      BY <1>4, WithinParts
    <3>2. Within(LetThrough(h), b + 1, n) = 0
      BY <1>3, <1>4, <1>13
    <3>3. Within(LetThrough(h), a + 1, n) \in Nat /\ Within(LetThrough(h), a + 1, b) \in Nat
      BY <1>4, WithinIsFinite
    <3> QED BY <1>3, <1>4, <3>1, <3>2, <3>3
  <2>6. /\ a <= n /\ Window - d.ttl = 0
        /\ 1 = IF d.hits < Limit THEN d.hits ELSE Limit
        /\ d.hits = 0 <=> d.ttl = 0
    BY <1>4, <2>1
  <2>7. Story(h, n + 1, a, n)
    BY <1>5, <2>3, <2>4, <2>5, <2>6 DEF Story, d
  <2>8. n \in 0..(n + 1)
    BY <1>4
  <2> QED BY <1>4, <2>7, <2>8 DEF HasStory
<1>14. CASE e \in {"wrong", "right"} /\ c.hits # 0 /\ (e = "right" => c.hits >= Limit)
  <2>1. d.hits = c.hits + 1 /\ d.ttl = c.ttl /\ c.ttl > 0
    <3>1. c.ttl > 0
      BY <1>3, <1>4, <1>14
    <3>2. ~(c.hits = 0)
      BY <1>14
    <3> QED BY <1>2, <1>4, <1>14, <3>1, <3>2 DEF After, Hit, ExpiresNX
  <2>2. ~Succeeds(h, n + 1)
    BY <1>2, <1>4, <1>14
  <2>3. n + 1 \in LetThrough(h) <=> c.hits < Limit
    BY <1>2, <1>4, <1>14
  <2>4. Within(LetThrough(h), b + 1, n + 1) = IF d.hits < Limit THEN d.hits ELSE Limit
    BY <1>3, <1>4, <1>6, <2>1, <2>3
  <2>5. Within(TickSet(h), b + 1, n + 1) = Window - d.ttl
    BY <1>2, <1>3, <1>4, <1>6, <1>14, <2>1
  <2>6. d.hits = 0 <=> d.ttl = 0
    BY <1>4, <2>1
  <2> QED BY <1>8, <2>2, <2>4, <2>5, <2>6
(* A success wipes the slate.                                               *)
<1>15. CASE e = "right" /\ c.hits < Limit
  <2>1. d.hits = 0 /\ d.ttl = 0
    BY <1>2, <1>4, <1>15 DEF After, Fresh
  <2>2. Succeeds(h, n + 1)
    BY <1>2, <1>15
  <2>3. \A m \in 1..(n + 1) : \E k \in m..(n + 1) : Succeeds(h, k)
    BY <1>4, <2>2
  <2>4. Within(LetThrough(h), (n + 1) + 1, n + 1) = 0
    BY <1>4, WithinNone
  <2>5. \A k \in ((n + 1) + 1)..(n + 1) : ~Succeeds(h, k)
    BY <1>4
  <2>6. n + 1 <= n + 1 /\ d.hits < Limit /\ ~(d.ttl > 0) /\ 0 <= Limit
    BY <1>4, <2>1
  <2>7. Story(h, n + 1, n + 1, n + 1)
    BY <2>1, <2>3, <2>4, <2>5, <2>6 DEF Story, d
  <2>8. n + 1 \in 0..(n + 1)
    BY <1>4
  <2> QED BY <2>7, <2>8 DEF HasStory
<1>16. e \in {"wrong", "right", "outage", "tick"} /\ (c.ttl = 0 \/ c.ttl = 1 \/ c.ttl > 1)
  BY <1>2, <1>4 DEF Events
<1>17. c.hits < Limit \/ c.hits >= Limit
  BY <1>4
<1>18. c.hits >= Limit => c.hits # 0
  BY <1>4
<1> QED BY <1>9, <1>10, <1>11, <1>12, <1>13, <1>14, <1>15, <1>16, <1>17, <1>18

LEMMA EveryMomentHasStory ==
    ASSUME NEW h \in Seq(Events)
    PROVE  \A n \in 0..Len(h) : HasStory(h, n)
<1> DEFINE Ks == {n \in Nat : n <= Len(h) => HasStory(h, n)}
<1>1. 0 \in Ks
  <2>1. Counter(h, 0) = Fresh
    BY CountersFollow
  <2>2. Fresh.hits = 0 /\ Fresh.ttl = 0
    BY DEF Fresh
  <2>3. Limit \in Nat /\ 0 < Limit /\ ~(0 > 0) /\ 0 <= Limit
    BY RateAssumption
  <2>4. Within(LetThrough(h), 0 + 1, 0) = 0
    BY WithinNone
  <2>5. Story(h, 0, 0, 0)
    BY <2>1, <2>2, <2>3, <2>4 DEF Story
  <2>6. 0 \in 0..0
    OBVIOUS
  <2> QED BY <2>5, <2>6 DEF HasStory
<1>2. ASSUME NEW n \in Ks PROVE n + 1 \in Ks
  <2> SUFFICES ASSUME n + 1 <= Len(h) PROVE HasStory(h, n + 1)
    OBVIOUS
  <2>1. n \in Nat /\ n <= Len(h)
    BY LenProperties
  <2>2. HasStory(h, n)
    BY <2>1
  <2> QED BY <2>1, <2>2, StoryGoesOn
<1> HIDE DEF Ks
<1>3. Ks = Nat
  BY <1>1, <1>2, Induction DEF Ks
<1> QED BY <1>3, LenProperties DEF Ks

(* However long a history of logins, outages and time, and whatever the     *)
(* limit and its window: a login is refused only when enough wrong ones     *)
(* were let through within the last window and since the last success, and  *)
(* no window without a success lets through more than two limits of them.   *)
THEOREM LockoutsAlwaysEnd ==
    ASSUME input \in [logins : Seq(Events)]
    PROVE  LockoutsEnd
<1> DEFINE h == input.logins
<1>1. h \in Seq(Events)
  OBVIOUS
<1> HIDE DEF h
<1>2. ASSUME NEW n \in 1..Len(h)
      PROVE  LET tried == LetThrough(h) \cap Recent(h, n) \cap SinceSuccess(h, n) IN
             /\ Refused(h, n) => Cardinality(tried) >= Limit
             /\ Cardinality(tried) <= 2 * Limit
  <2> DEFINE l == n - 1
             tried == LetThrough(h) \cap Recent(h, n) \cap SinceSuccess(h, n)
  <2>1. /\ l \in 0..Len(h) /\ l \in Nat /\ n \in Nat /\ n \in 1..Len(h) /\ l + 1 = n
        /\ Limit \in Nat \ {0} /\ Window \in Nat \ {0}
    BY <1>1, LenProperties, RateAssumption
  <2> HIDE DEF l
  <2>2. PICK a \in 0..l, b \in 0..l : Story(h, l, a, b)
    BY <1>1, <2>1, EveryMomentHasStory DEF HasStory
  <2> DEFINE c == Counter(h, l)
  <2>3. /\ a <= b
        /\ Within(LetThrough(h), b + 1, l) = IF c.hits < Limit THEN c.hits ELSE Limit
        /\ c.hits = 0 <=> c.ttl = 0
        /\ c.ttl > 0 => Within(TickSet(h), b + 1, l) = Window - c.ttl
        /\ \A k \in (b + 1)..l : ~Succeeds(h, k)
        /\ Within(LetThrough(h), a + 1, b) <= Limit
        /\ \A m \in 1..a : (\E k \in m..l : Succeeds(h, k)) \/ Within(TickSet(h), m, l) >= Window
    BY <2>2 DEF Story
  <2>4. c \in CounterState
    BY <1>1, <2>1, CountersFollow
  <2>5. Refused(h, n) => c.hits >= Limit /\ h[n] # "tick"
    <3>1. n - 1 = l
      BY <2>1
    <3> QED BY <3>1 DEF Refused
  <2> HIDE DEF c
  <2>6. c.hits \in Nat /\ c.ttl \in 0..Window /\ a \in Nat /\ b \in Nat /\ a + 1 \in Nat /\ b + 1 \in Nat
    BY <2>1, <2>4 DEF CounterState
  <2>7. ASSUME NEW m \in 1..l
        PROVE  /\ m \in Recent(h, n) <=> Within(TickSet(h), m, n) < Window
               /\ m \in SinceSuccess(h, n) <=> \A k \in m..l : ~Succeeds(h, k)
               /\ m \in Nat
               /\ Within(TickSet(h), m, n) \in Nat /\ Within(TickSet(h), m, l) \in Nat
               /\ Within(TickSet(h), m, n) = Within(TickSet(h), m, l) + (IF n \in TickSet(h) THEN 1 ELSE 0)
    <3>1. m \in Nat /\ n - 1 = l /\ m <= l + 1
      BY <2>1
    <3>2. {k \in m..n : h[k] = "tick"} = TickSet(h) \cap (m..n)
      BY <2>1, LenProperties DEF TickSet
    <3>3. Ticks(h, m, n) = Within(TickSet(h), m, n)
      BY <3>2 DEF Ticks, Within
    <3>4. Within(TickSet(h), m, l + 1) = Within(TickSet(h), m, l) + (IF l + 1 \in TickSet(h) THEN 1 ELSE 0)
      BY <2>1, <3>1, WithinNext
    <3>5. Within(TickSet(h), m, n) \in Nat /\ Within(TickSet(h), m, l) \in Nat
      BY <2>1, <3>1, WithinIsFinite
    <3>6. m \in SinceSuccess(h, n) <=> \A k \in m..l : ~Succeeds(h, k)
      BY <2>1, <3>1 DEF SinceSuccess, Succeeds
    <3>7. m \in Recent(h, n) <=> Within(TickSet(h), m, n) < Window
      BY <3>1, <3>3 DEF Recent
    <3> QED BY <2>1, <3>1, <3>4, <3>5, <3>6, <3>7
  <2>8. tried \in SUBSET (LetThrough(h) \cap ((a + 1)..l))
    <3> SUFFICES ASSUME NEW m \in tried PROVE m \in (a + 1)..l
      OBVIOUS
    <3>1. m \in 1..l
      <4>1. m \in 1..(n - 1)
        BY DEF Recent
      <4> QED BY <2>1, <4>1
    <3>2. Within(TickSet(h), m, n) < Window /\ \A k \in m..l : ~Succeeds(h, k)
      BY <2>7, <3>1
    <3>3. Within(TickSet(h), m, l) < Window
      <4>1. /\ Within(TickSet(h), m, n) \in Nat /\ Within(TickSet(h), m, l) \in Nat
            /\ Within(TickSet(h), m, n) = Within(TickSet(h), m, l) + (IF n \in TickSet(h) THEN 1 ELSE 0)
        BY <2>7, <3>1
      <4>2. Within(TickSet(h), m, l) <= Within(TickSet(h), m, n)
        BY <4>1
      <4> QED BY <3>2, <4>1, <4>2, RateAssumption
    <3>4. m \notin 1..a
      <4>1. ~(Within(TickSet(h), m, l) >= Window)
        BY <2>1, <2>7, <3>1, <3>3
      <4> QED BY <2>3, <3>2, <4>1
    <3> QED BY <2>6, <3>1, <3>4
  <2>9. IsFiniteSet(tried) /\ Cardinality(tried) <= Within(LetThrough(h), a + 1, l) /\ Cardinality(tried) \in Nat
    <3>1. IsFiniteSet(LetThrough(h) \cap ((a + 1)..l))
      BY <2>1, <2>6, WithinIsFinite
    <3> HIDE DEF tried
    <3>2. IsFiniteSet(tried) /\ Cardinality(tried) <= Cardinality(LetThrough(h) \cap ((a + 1)..l))
      BY <2>8, <3>1, FS_Subset
    <3> QED BY <3>2, FS_CardinalityType DEF Within
  <2>10. Cardinality(tried) <= 2 * Limit
    <3>1. Within(LetThrough(h), a + 1, l) <= Within(LetThrough(h), a + 1, b) + Within(LetThrough(h), b + 1, l)
      BY <2>1, <2>6, WithinParts
    <3>2. /\ Within(LetThrough(h), a + 1, l) \in Nat /\ Within(LetThrough(h), a + 1, b) \in Nat
          /\ Within(LetThrough(h), b + 1, l) \in Nat
      BY <2>1, <2>6, WithinIsFinite
    <3>3. Within(LetThrough(h), b + 1, l) <= Limit
      BY <2>1, <2>3, <2>6
    <3> HIDE DEF tried
    <3> QED BY <2>1, <2>3, <2>9, <3>1, <3>2, <3>3
  <2>11. ASSUME Refused(h, n) PROVE Cardinality(tried) >= Limit
    <3>1. c.hits >= Limit /\ c.ttl > 0 /\ n \notin TickSet(h)
      BY <2>1, <2>3, <2>5, <2>6, <2>11 DEF TickSet
    <3>2. Within(LetThrough(h), b + 1, l) = Limit
      BY <2>1, <2>3, <2>6, <3>1
    <3>3. LetThrough(h) \cap ((b + 1)..l) \in SUBSET tried
      <4> SUFFICES ASSUME NEW m \in LetThrough(h), m \in (b + 1)..l
                   PROVE  m \in Recent(h, n) /\ m \in SinceSuccess(h, n)
        OBVIOUS
      <4>1. m \in 1..l /\ m..l \in SUBSET ((b + 1)..l) /\ b + 1 <= m
        BY <2>1, <2>6
      <4>2. \A k \in m..l : ~Succeeds(h, k)
        BY <2>3, <4>1
      <4>3. Within(TickSet(h), m, l) <= Within(TickSet(h), b + 1, l)
        BY <2>1, <2>6, <2>7, <4>1, WithinGrows
      <4>4. Within(TickSet(h), m, n) < Window
        <5>1. Within(TickSet(h), m, n) = Within(TickSet(h), m, l)
          BY <2>7, <3>1, <4>1
        <5>2. Within(TickSet(h), b + 1, l) = Window - c.ttl
          BY <2>3, <3>1
        <5>3. Within(TickSet(h), m, l) \in Nat
          BY <2>7, <4>1
        <5> QED BY <2>1, <2>6, <3>1, <4>3, <5>1, <5>2, <5>3
      <4> QED BY <2>7, <4>1, <4>2, <4>4
    <3> HIDE DEF tried
    <3>4. Cardinality(LetThrough(h) \cap ((b + 1)..l)) <= Cardinality(tried)
      BY <2>9, <3>3, FS_Subset
    <3> QED BY <3>2, <3>4 DEF Within
  <2> QED BY <2>10, <2>11
<1>3. LimitsFairly(h)
  BY <1>2 DEF LimitsFairly
<1> QED BY <1>3 DEF LockoutsEnd, h
-----------------------------------------------------------------------------
(* Naming.                                                                  *)

AnyWord == {Text(s) : s \in Texts \cup {"col", "column"}} \cup {Number(n) : n \in Nat}

LEMMA WordsDiffer ==
    /\ \A s, n : Text(s) # Number(n)
    /\ \A m, n : Number(m) = Number(n) => m = n
    /\ \A s : Text(s) \notin Digits
    /\ Words \subseteq AnyWord
<1>1. ASSUME NEW s, NEW n PROVE Text(s) # Number(n)
  <2>1. DOMAIN Text(s) = {"text"} /\ DOMAIN Number(n) = {"number"}
    BY DEF Text, Number
  <2> QED BY <2>1
<1>2. ASSUME NEW m, NEW n, Number(m) = Number(n) PROVE m = n
  <2>1. Number(m).number = m /\ Number(n).number = n
    BY DEF Number
  <2> QED BY <1>2, <2>1
<1>3. \A s : Text(s) \notin Digits
  BY <1>1 DEF Digits
<1>4. Words \subseteq AnyWord
  BY NamingAssumption DEF Words, Digits, AnyWord
<1> QED BY <1>1, <1>2, <1>3, <1>4

(* What every name starts from: no digit in front, not reserved, not long.  *)
Begins(name) ==
    /\ name \in Seq(AnyWord) /\ name # <<>>
    /\ Head(name) \notin Digits

LEMMA ReservedIsOneWord == \A name \in ReservedNames : Len(name) = 1
BY DEF ReservedNames

LEMMA CutBegins ==
    ASSUME NEW name, Begins(name), NEW m \in Nat, 1 <= m, m <= Len(name)
    PROVE  Begins(SubSeq(name, 1, m)) /\ Len(SubSeq(name, 1, m)) = m
<1>1. name \in Seq(AnyWord) /\ Len(name) \in Nat
  BY LenProperties DEF Begins
<1>2. \A i \in 1..m : name[i] \in AnyWord
  BY <1>1, ElementOfSeq
<1>3. /\ SubSeq(name, 1, m) \in Seq(AnyWord)
      /\ Len(SubSeq(name, 1, m)) = m
      /\ \A i \in 1..m : SubSeq(name, 1, m)[i] = name[i]
  <2>1. 1 \in Int /\ m \in Int /\ m - 1 + 1 = m /\ \A i \in 1..m : 1 + i - 1 = i
    OBVIOUS
  <2> QED BY <1>2, <2>1, SubSeqProperties
<1>4. Head(SubSeq(name, 1, m)) = Head(name)
  BY <1>1, <1>3
<1>5. SubSeq(name, 1, m) # <<>>
  BY <1>3
<1> QED BY <1>3, <1>4, <1>5 DEF Begins

LEMMA CandidateIsGood ==
    ASSUME NEW header \in Seq(Words), NEW position \in Nat
    PROVE  /\ Begins(Candidate(header, position))
           /\ Len(Candidate(header, position)) <= MaxWords
           /\ Candidate(header, position) \notin ReservedNames
<1> DEFINE named == IF header = <<>> THEN <<Text("column"), Number(position)>> ELSE header
           led   == IF Head(named) \in Digits THEN <<Text("col")>> \o named ELSE named
           free  == IF led \in ReservedNames THEN Append(led, Text("col")) ELSE led
<1>1. Candidate(header, position) =
          IF Len(free) <= MaxWords THEN free ELSE SubSeq(free, 1, MaxWords)
  BY DEF Candidate
<1>2. Text("col") \in AnyWord /\ Text("column") \in AnyWord /\ Number(position) \in AnyWord
  <2>1. Text("col") \in AnyWord /\ Text("column") \in AnyWord
    BY DEF AnyWord
  <2>2. Number(position) \in AnyWord
    BY DEF AnyWord
  <2> QED BY <2>1, <2>2
<1>3. named \in Seq(AnyWord) /\ named # <<>>
  <2>1. header \in Seq(AnyWord)
    BY WordsDiffer, SeqMonotonic
  <2>2. <<Text("column"), Number(position)>> \in Seq(AnyWord)
    BY <1>2
  <2> QED BY <2>1, <2>2
<1> HIDE DEF named
<1>4. Begins(led)
  <2>1. CASE Head(named) \in Digits
    <3>1. <<Text("col")>> \in Seq(AnyWord) /\ Len(<<Text("col")>>) = 1
      BY <1>2
    <3>2. Len(named) \in Nat
      BY <1>3, LenProperties
    <3>3. /\ <<Text("col")>> \o named \in Seq(AnyWord)
          /\ Len(<<Text("col")>> \o named) = 1 + Len(named)
          /\ (<<Text("col")>> \o named)[1] = Text("col")
      <4>1. 1 \in 1..(1 + Len(named))
        BY <3>2
      <4> QED BY <1>3, <3>1, <4>1, ConcatProperties
    <3>4. <<Text("col")>> \o named # <<>> /\ Head(<<Text("col")>> \o named) = Text("col")
      BY <3>2, <3>3
    <3> QED BY <2>1, <3>3, <3>4, WordsDiffer DEF Begins
  <2>2. CASE Head(named) \notin Digits
    BY <1>3, <2>2 DEF Begins
  <2> QED BY <2>1, <2>2
<1> HIDE DEF led
<1>5. Begins(free) /\ free \notin ReservedNames
  <2>1. CASE led \in ReservedNames
    <3>1. Len(led) = 1
      BY <2>1 DEF ReservedNames
    <3>2. /\ Append(led, Text("col")) \in Seq(AnyWord)
          /\ Append(led, Text("col")) # <<>>
          /\ Len(Append(led, Text("col"))) = 2
      <4>1. led \in Seq(AnyWord) /\ Text("col") \in AnyWord
        BY <1>2, <1>4 DEF Begins
      <4>2. /\ Append(led, Text("col")) \in Seq(AnyWord)
            /\ Append(led, Text("col")) # <<>>
            /\ Len(Append(led, Text("col"))) = Len(led) + 1
        BY <4>1, AppendProperties
      <4> QED BY <3>1, <4>2
    <3>3. Head(Append(led, Text("col"))) = Head(led)
      BY <1>4, HeadTailAppend DEF Begins
    <3>4. Begins(Append(led, Text("col")))
      BY <1>4, <3>2, <3>3 DEF Begins
    <3>5. Append(led, Text("col")) \notin ReservedNames
      <4>1. Len(Append(led, Text("col"))) # 1
        BY <3>2
      <4> QED BY <4>1, ReservedIsOneWord
    <3> QED BY <2>1, <3>4, <3>5
  <2>2. CASE led \notin ReservedNames
    BY <1>4, <2>2
  <2> QED BY <2>1, <2>2
<1> HIDE DEF free
<1>6. MaxWords \in Nat /\ 2 <= MaxWords /\ Len(free) \in Nat
  BY <1>5, LenProperties, NamingAssumption DEF Begins
<1>7. CASE Len(free) <= MaxWords
  BY <1>1, <1>5, <1>7
<1>8. CASE ~(Len(free) <= MaxWords)
  <2>1. 1 <= MaxWords /\ MaxWords <= Len(free)
    BY <1>6, <1>8
  <2>2. Begins(SubSeq(free, 1, MaxWords)) /\ Len(SubSeq(free, 1, MaxWords)) = MaxWords
    BY <1>5, <1>6, <2>1, CutBegins
  <2>3. SubSeq(free, 1, MaxWords) \notin ReservedNames
    <3>1. Len(SubSeq(free, 1, MaxWords)) # 1
      BY <1>6, <2>2
    <3> QED BY <3>1, ReservedIsOneWord
  <2> QED BY <1>1, <1>6, <1>8, <2>2, <2>3
<1> QED BY <1>7, <1>8

(* No two tries are the same name.                                          *)
LEMMA TriesDiffer ==
    ASSUME NEW candidate \in Seq(AnyWord), NEW m \in Nat, NEW n \in Nat, m # n
    PROVE  Try(candidate, m) # Try(candidate, n)
<1>1. Number(m) \in AnyWord /\ Number(n) \in AnyWord /\ Number(m) # Number(n)
  BY WordsDiffer DEF AnyWord
<1>2. Len(candidate) \in Nat
  BY LenProperties
<1>3. /\ Len(Append(candidate, Number(m))) = Len(candidate) + 1
      /\ Len(Append(candidate, Number(n))) = Len(candidate) + 1
      /\ Append(candidate, Number(m)) # Append(candidate, Number(n))
  BY <1>1, AppendProperties, AppendInjective
<1>4. Append(candidate, Number(m)) # candidate /\ Append(candidate, Number(n)) # candidate
  BY <1>2, <1>3
<1> QED BY <1>3, <1>4 DEF Try

(* One try more than there are names finds one that is free.                *)
LEMMA SomeTryIsFree ==
    ASSUME NEW candidate \in Seq(AnyWord), NEW names \in Seq(Seq(AnyWord))
    PROVE  \E n \in 1..(Len(names) + 1) : Try(candidate, n) \notin Range(names)
<1> SUFFICES ASSUME \A n \in 1..(Len(names) + 1) : Try(candidate, n) \in Range(names)
             PROVE  FALSE
  OBVIOUS
<1>1. Len(names) \in Nat /\ Range(names) = {names[q] : q \in 1..Len(names)}
  BY LenProperties, RangeEquality
<1> DEFINE L == Len(names)
           at(n) == CHOOSE q \in 1..L : names[q] = Try(candidate, n)
           f == [n \in 1..(L + 1) |-> at(n)]
<1>2. ASSUME NEW n \in 1..(L + 1) PROVE at(n) \in 1..L /\ names[at(n)] = Try(candidate, n)
  <2>1. \E q \in 1..L : names[q] = Try(candidate, n)
    BY <1>1
  <2> QED BY <2>1
<1>3. f \in [1..(L + 1) -> 1..L]
  BY <1>2
<1>4. \A n \in 1..(L + 1) : f[n] = at(n)
  OBVIOUS
<1> HIDE DEF at, f
<1>5. /\ IsFiniteSet(1..(L + 1)) /\ Cardinality(1..(L + 1)) = L + 1
      /\ IsFiniteSet(1..L) /\ Cardinality(1..L) = L
  <2>1. L \in Nat /\ L + 1 \in Nat /\ 1 \in Nat
    BY <1>1
  <2>2. IsFiniteSet(1..(L + 1)) /\ IsFiniteSet(1..L)
    BY <2>1, FS_Interval
  <2>3. Cardinality(1..(L + 1)) = L + 1 /\ Cardinality(1..L) = L
    <3> HIDE DEF L
    <3>1. \A j \in Nat : Cardinality(1..j) = j
      <4> TAKE j \in Nat
      <4>1. Cardinality(1..j) = IF 1 > j THEN 0 ELSE j - 1 + 1
        BY FS_Interval
      <4> QED BY <4>1
    <3> QED BY <2>1, <3>1
  <2> QED BY <2>2, <2>3
<1>6. PICK m, n \in 1..(L + 1) : m # n /\ f[m] = f[n]
  <2>1. L < L + 1
    BY <1>1
  <2> HIDE DEF L
  <2> QED BY <1>3, <1>5, <2>1, FS_PigeonHole
<1>7. Try(candidate, m) = Try(candidate, n)
  BY <1>2, <1>4, <1>6
<1> QED BY <1>1, <1>6, <1>7, TriesDiffer

(* The name a column gets: taken by no column before it, and the candidate  *)
(* itself unless that one is taken.                                         *)
LEMMA FreeNameIsFree ==
    ASSUME NEW candidate, Begins(candidate), candidate \notin ReservedNames,
           Len(candidate) <= MaxWords, NEW names \in Seq(Seq(AnyWord))
    PROVE  LET name == FreeName(candidate, names) IN
           /\ name \in Seq(AnyWord) /\ name \notin Range(names)
           /\ name \notin ReservedNames
           /\ \/ Accepted(name)
              \/ Len(candidate) >= MaxWords /\ candidate \in Range(names)
<1> DEFINE free == {n \in 1..(Len(names) + 1) : Try(candidate, n) \notin Range(names)}
           k == CHOOSE n \in free : \A i \in free : n <= i
<1>1. candidate \in Seq(AnyWord) /\ candidate # <<>> /\ Head(candidate) \notin Digits
  BY DEF Begins
<1>2. Len(names) \in Nat /\ Len(candidate) \in Nat /\ MaxWords \in Nat
  BY <1>1, LenProperties, NamingAssumption
<1>3. k \in free /\ \A i \in free : k <= i
  <2>1. free \in SUBSET Nat
    BY <1>2
  <2>2. free # {}
    BY <1>1, SomeTryIsFree
  <2> HIDE DEF free
  <2>3. \E n \in free : \A i \in free : n <= i
    BY <2>1, <2>2, LeastNumber
  <2> QED BY <2>3
<1>4. FreeName(candidate, names) = Try(candidate, k)
  BY DEF FreeName
<1> HIDE DEF k
<1>5. k \in 1..(Len(names) + 1) /\ Try(candidate, k) \notin Range(names)
  BY <1>3
<1>6. CASE k = 1
  <2>1. Try(candidate, k) = candidate
    BY <1>6 DEF Try
  <2> QED BY <1>1, <1>4, <1>5, <2>1 DEF Accepted
<1>7. CASE k # 1
  <2>1. Try(candidate, k) = Append(candidate, Number(k))
    BY <1>7 DEF Try
  <2>2. k \in Nat /\ Number(k) \in AnyWord
    BY <1>2, <1>5 DEF AnyWord
  <2>3. /\ Append(candidate, Number(k)) \in Seq(AnyWord)
        /\ Len(Append(candidate, Number(k))) = Len(candidate) + 1
        /\ Head(Append(candidate, Number(k))) = Head(candidate)
    BY <1>1, <2>2, AppendProperties, HeadTailAppend
  <2>4. Len(candidate) # 0
    BY <1>1, EmptySeq
  <2>5. Append(candidate, Number(k)) \notin ReservedNames
    <3>1. Len(Append(candidate, Number(k))) # 1
      BY <1>2, <2>3, <2>4
    <3> QED BY <3>1, ReservedIsOneWord
  <2>6. candidate \in Range(names)
    <3>1. 1 \in 1..(Len(names) + 1) /\ 1 \notin free
      BY <1>2, <1>3, <1>5, <1>7
    <3>2. Try(candidate, 1) = candidate
      BY DEF Try
    <3> QED BY <3>1, <3>2
  <2>7. Len(candidate) + 1 <= MaxWords \/ Len(candidate) >= MaxWords
    BY <1>2
  <2> QED BY <1>1, <1>4, <1>5, <2>1, <2>3, <2>5, <2>6, <2>7 DEF Accepted
<1> QED BY <1>6, <1>7
(* The names after each column are those before it and one more.            *)
NextNames(headers, p, names) == Append(names, FreeName(Candidate(headers[p], p), names))

LEMMA NextNamesAreNames ==
    ASSUME NEW headers \in Seq(Seq(Words)), NEW p \in 1..Len(headers),
           NEW names \in Seq(Seq(AnyWord))
    PROVE  LET candidate == Candidate(headers[p], p)
               name == FreeName(candidate, names) IN
           /\ candidate \in Seq(AnyWord)
           /\ name \in Seq(AnyWord) /\ name \notin Range(names)
           /\ name \notin ReservedNames
           /\ \/ Accepted(name)
              \/ Len(candidate) >= MaxWords /\ candidate \in Range(names)
           /\ NextNames(headers, p, names) \in Seq(Seq(AnyWord))
<1> DEFINE candidate == Candidate(headers[p], p)
           name == FreeName(candidate, names)
<1>1. headers[p] \in Seq(Words) /\ p \in Nat
  BY ElementOfSeq, LenProperties
<1>2. Begins(candidate) /\ Len(candidate) <= MaxWords /\ candidate \notin ReservedNames
  BY <1>1, CandidateIsGood
<1>3. NextNames(headers, p, names) = Append(names, name)
  BY DEF NextNames
<1> HIDE DEF candidate
<1>4. /\ name \in Seq(AnyWord) /\ name \notin Range(names)
      /\ name \notin ReservedNames
      /\ \/ Accepted(name)
         \/ Len(candidate) >= MaxWords /\ candidate \in Range(names)
  BY <1>2, FreeNameIsFree
<1> HIDE DEF name
<1>5. Append(names, name) \in Seq(Seq(AnyWord))
  BY <1>4, AppendProperties
<1>6. candidate \in Seq(AnyWord)
  BY <1>2 DEF Begins
<1> QED BY <1>3, <1>4, <1>5, <1>6 DEF candidate, name

LEMMA NamesFollow ==
    ASSUME NEW headers \in Seq(Seq(Words))
    PROVE  /\ NamesUpTo(headers)[0] = <<>>
           /\ \A p \in 1..Len(headers) :
                 NamesUpTo(headers)[p] = NextNames(headers, p, NamesUpTo(headers)[p - 1])
<1> DEFINE N == Len(headers)
           Is(f) == f = [p \in 0..N |-> IF p = 0 THEN <<>> ELSE NextNames(headers, p, f[p - 1])]
           S == Seq(Seq(AnyWord))
           next == [s \in (1..N) \X S |-> NextNames(headers, s[1], s[2])]
<1>1. N \in Nat /\ <<>> \in S
  BY LenProperties, EmptySeq
<1>2. next \in [(1..N) \X S -> S]
  <2>1. ASSUME NEW s \in (1..N) \X S PROVE NextNames(headers, s[1], s[2]) \in S
    <3>1. s[1] \in 1..Len(headers) /\ s[2] \in Seq(Seq(AnyWord))
      OBVIOUS
    <3> QED BY <3>1, NextNamesAreNames
  <2> QED BY <2>1
<1>3. \A p \in 1..N, names \in S : next[<<p, names>>] = NextNames(headers, p, names)
  OBVIOUS
<1> HIDE DEF N, S, next
<1>4. PICK f \in [0..N -> S] : Follows(f, N, <<>>, next)
  BY <1>1, <1>2, Recursion
<1>5. f[0] = <<>>
  BY <1>4 DEF Follows
<1>6. ASSUME NEW p \in 1..N
      PROVE  p - 1 \in 0..N /\ p \in 0..N /\ p # 0 /\ f[p] = NextNames(headers, p, f[p - 1])
  <2>1. p - 1 \in 0..N /\ p \in 0..N /\ p # 0
    BY <1>1
  <2>2. f[p - 1] \in S
    BY <2>1
  <2> QED BY <1>3, <1>4, <2>1, <2>2 DEF Follows
<1>7. Is(f)
  <2>1. \A p \in 0..N : f[p] = IF p = 0 THEN <<>> ELSE NextNames(headers, p, f[p - 1])
    BY <1>1, <1>5, <1>6
  <2> QED BY <2>1
<1> DEFINE g == NamesUpTo(headers)
<1>8. Is(g)
  <2>1. NamesUpTo(headers) = CHOOSE upTo : Is(upTo)
    BY DEF NamesUpTo, NextNames, N
  <2> HIDE DEF Is
  <2> QED BY <1>7, <2>1
<1> HIDE DEF g
<1>9. g[0] = <<>> /\ \A p \in 1..N : g[p] = NextNames(headers, p, g[p - 1])
  <2>1. \A p \in 0..N : g[p] = IF p = 0 THEN <<>> ELSE NextNames(headers, p, g[p - 1])
    BY <1>8
  <2> QED BY <1>1, <1>6, <2>1
<1> QED BY <1>9 DEF g, N

(* What the naming promises of one name, and of the names so far.           *)
Named(headers, names, i) ==
    /\ names[i] \notin ReservedNames
    /\ \/ Accepted(names[i])
       \/ \E q \in 1..(i - 1) :
             /\ Len(names[q]) >= MaxWords
             /\ IsPrefix(Candidate(headers[i], i), names[q])
GoodNames(headers, p, names) ==
    /\ names \in Seq(Seq(AnyWord)) /\ Len(names) = p
    /\ \A i, j \in 1..p : names[i] = names[j] => i = j
    /\ \A i \in 1..p : Named(headers, names, i)

LEMMA OneMoreName ==
    ASSUME NEW headers \in Seq(Seq(Words)), NEW p \in 1..Len(headers),
           NEW names, GoodNames(headers, p - 1, names)
    PROVE  GoodNames(headers, p, NextNames(headers, p, names))
<1> DEFINE candidate == Candidate(headers[p], p)
           name == FreeName(candidate, names)
           more == NextNames(headers, p, names)
<1>1. /\ names \in Seq(Seq(AnyWord)) /\ Len(names) = p - 1 /\ p \in Nat
      /\ \A i, j \in 1..(p - 1) : names[i] = names[j] => i = j
      /\ \A i \in 1..(p - 1) : Named(headers, names, i)
  BY LenProperties DEF GoodNames
<1>2. /\ candidate \in Seq(AnyWord)
      /\ name \in Seq(AnyWord) /\ name \notin Range(names)
      /\ name \notin ReservedNames
      /\ \/ Accepted(name)
         \/ Len(candidate) >= MaxWords /\ candidate \in Range(names)
      /\ more \in Seq(Seq(AnyWord))
  BY <1>1, NextNamesAreNames
<1>3. more = Append(names, name)
  BY DEF NextNames
<1>4. Range(names) = {names[q] : q \in 1..(p - 1)}
  <2>1. Range(names) = {names[q] : q \in 1..Len(names)}
    BY <1>1, RangeEquality
  <2> QED BY <1>1, <2>1
<1> HIDE DEF name, more
<1>5. Len(more) = p /\ more[p] = name /\ \A i \in 1..(p - 1) : more[i] = names[i]
  <2>1. /\ Len(Append(names, name)) = Len(names) + 1
        /\ \A i \in 1..Len(names) : Append(names, name)[i] = names[i]
        /\ Append(names, name)[Len(names) + 1] = name
    BY <1>1, <1>2, AppendProperties
  <2>2. Len(names) + 1 = p
    BY <1>1
  <2> QED BY <1>1, <1>3, <2>1, <2>2
<1>6. \A i \in 1..p : i \in 1..(p - 1) \/ i = p
  BY <1>1
<1>7. \A i \in 1..(p - 1) : more[i] # name
  BY <1>2, <1>4, <1>5
<1>8. \A i, j \in 1..p : more[i] = more[j] => i = j
  BY <1>1, <1>5, <1>6, <1>7
<1>9. ASSUME NEW i \in 1..(p - 1) PROVE Named(headers, more, i)
  <2>1. Named(headers, names, i) /\ more[i] = names[i]
    BY <1>1, <1>5
  <2>2. \A q \in 1..(i - 1) : more[q] = names[q]
    BY <1>1, <1>5
  <2> QED BY <2>1, <2>2 DEF Named
<1>10. Named(headers, more, p)
  <2>1. CASE Accepted(name)
    BY <1>2, <1>5, <2>1 DEF Named
  <2>2. CASE Len(candidate) >= MaxWords /\ candidate \in Range(names)
    <3>1. PICK q \in 1..(p - 1) : names[q] = candidate
      BY <1>4, <2>2
    <3>2. more[q] = candidate
      BY <1>5, <3>1
    <3>3. IsPrefix(candidate, candidate)
      BY <1>2, LenProperties DEF IsPrefix
    <3>4. Len(more[q]) >= MaxWords /\ IsPrefix(candidate, more[q])
      BY <2>2, <3>2, <3>3
    <3> QED BY <1>2, <1>5, <3>4 DEF Named
  <2> QED BY <1>2, <2>1, <2>2
<1>11. \A i \in 1..p : Named(headers, more, i)
  BY <1>6, <1>9, <1>10
<1> QED BY <1>2, <1>5, <1>8, <1>11 DEF GoodNames, more

(* However many columns a file has and whatever its headers are, the names  *)
(* they become are told apart, are never a reserved word, and are accepted  *)
(* by the warehouse unless a name as long as names get was taken.           *)
THEOREM NamesAlwaysApart ==
    ASSUME input \in [headers : Seq(Seq(Words))]
    PROVE  NamesStayApart
<1> DEFINE headers == input.headers
           N == Len(headers)
           upTo == NamesUpTo(headers)
<1>1. headers \in Seq(Seq(Words))
  OBVIOUS
<1> HIDE DEF headers
<1>2. N \in Nat
  BY <1>1, LenProperties
<1>3. upTo[0] = <<>> /\ \A p \in 1..N : upTo[p] = NextNames(headers, p, upTo[p - 1])
  BY <1>1, NamesFollow
<1> HIDE DEF N, upTo
<1> DEFINE G == {p \in Nat : p <= N => GoodNames(headers, p, upTo[p])}
<1>4. 0 \in G
  <2>1. <<>> \in Seq(Seq(AnyWord)) /\ Len(<<>>) = 0
    BY EmptySeq
  <2>2. GoodNames(headers, 0, upTo[0])
    BY <1>3, <2>1 DEF GoodNames
  <2> QED BY <2>2
<1>5. ASSUME NEW p \in G PROVE p + 1 \in G
  <2> SUFFICES ASSUME p + 1 <= N PROVE GoodNames(headers, p + 1, upTo[p + 1])
    OBVIOUS
  <2>1. p + 1 \in 1..N /\ (p + 1) - 1 = p /\ GoodNames(headers, p, upTo[p])
    BY <1>2
  <2>2. upTo[p + 1] = NextNames(headers, p + 1, upTo[p])
    BY <1>3, <2>1
  <2>3. p + 1 \in 1..Len(headers) /\ GoodNames(headers, (p + 1) - 1, upTo[p])
    BY <2>1 DEF N
  <2>4. GoodNames(headers, p + 1, NextNames(headers, p + 1, upTo[p]))
    BY <1>1, <2>3, OneMoreName
  <2> QED BY <2>2, <2>4
<1> HIDE DEF G
<1>6. G = Nat
  BY <1>4, <1>5, Induction DEF G
<1> DEFINE names == Names(headers)
<1>7. GoodNames(headers, N, names)
  <2>1. names = upTo[N]
    BY DEF Names, upTo, N
  <2> QED BY <1>2, <1>6, <2>1 DEF G
<1> HIDE DEF names
<1>8. DOMAIN names = 1..N
  BY <1>7, LenProperties DEF GoodNames
<1>9. IsInjective(names)
  BY <1>7, <1>8 DEF GoodNames, IsInjective
<1>10. \A i \in DOMAIN names : Named(headers, names, i)
  BY <1>7, <1>8 DEF GoodNames
<1>11. NamesApart(headers)
  BY <1>9, <1>10 DEF NamesApart, Named, names
<1> QED BY <1>11 DEF NamesStayApart, headers
-----------------------------------------------------------------------------
(* Forecast.                                                                *)

End == LastMonth + 12 * Horizon

LEMMA MonthsAreShort ==
    ASSUME NEW m \in Nat
    PROVE  DaysIn(m) \in 28..31
BY DEF DaysIn

(* No quarter is as short as three Februaries.                              *)
LEMMA QuartersAreLong ==
    ASSUME NEW m \in Nat
    PROVE  DaysIn(m) + DaysIn(m + 1) + DaysIn(m + 2) \in 88..95
<1>1. /\ m % 12 \in 0..11
      /\ (m + 1) % 12 = IF m % 12 = 11 THEN 0 ELSE (m % 12) + 1
      /\ (m + 2) % 12 = IF m % 12 = 11 THEN 1 ELSE IF m % 12 = 10 THEN 0 ELSE (m % 12) + 2
  OBVIOUS
<1>2. \A i \in {m, m + 1, m + 2} :
         /\ i % 12 = 1 => DaysIn(i) \in {28, 29}
         /\ i % 12 \in {3, 5, 8, 10} => DaysIn(i) = 30
         /\ i % 12 \in {0, 2, 4, 6, 7, 9, 11} => DaysIn(i) = 31
  BY DEF DaysIn
<1> QED BY <1>1, <1>2

LEMMA StartFollows ==
    /\ StartOf[0] = 0
    /\ \A m \in 1..End : StartOf[m] = StartOf[m - 1] + DaysIn(m - 1)
    /\ \A m \in 0..End : StartOf[m] \in Nat
<1> DEFINE Is(f) == f = [m \in 0..End |-> IF m = 0 THEN 0 ELSE f[m - 1] + DaysIn(m - 1)]
           next == [p \in (1..End) \X Nat |-> p[2] + DaysIn(p[1] - 1)]
<1>1. End \in Nat
  BY ForecastAssumption DEF End
<1>2. \A m \in 1..End : m - 1 \in Nat /\ DaysIn(m - 1) \in Nat
  BY <1>1, MonthsAreShort
<1>3. next \in [(1..End) \X Nat -> Nat]
  BY <1>2
<1>4. \A m \in 1..End, s \in Nat : next[<<m, s>>] = s + DaysIn(m - 1)
  OBVIOUS
<1> HIDE DEF next
<1>5. PICK f \in [0..End -> Nat] : Follows(f, End, 0, next)
  BY <1>1, <1>3, Recursion
<1>6. f[0] = 0 /\ \A m \in 1..End : f[m] = f[m - 1] + DaysIn(m - 1)
  <2>1. \A m \in 1..End : m - 1 \in 0..End
    BY <1>1
  <2> QED BY <1>4, <1>5, <2>1 DEF Follows
<1>7. Is(f)
  <2>1. \A m \in 0..End : m = 0 \/ m \in 1..End
    BY <1>1
  <2>2. \A m \in 0..End : f[m] = IF m = 0 THEN 0 ELSE f[m - 1] + DaysIn(m - 1)
    BY <1>6, <2>1
  <2> QED BY <2>2
<1> DEFINE g == StartOf
<1>8. Is(g)
  <2>1. StartOf = CHOOSE start : Is(start)
    BY DEF StartOf, End
  <2> HIDE DEF Is
  <2> QED BY <1>7, <2>1
<1> HIDE DEF g
<1>9. g[0] = 0 /\ \A m \in 1..End : g[m] = g[m - 1] + DaysIn(m - 1)
  <2>1. \A m \in 0..End : g[m] = IF m = 0 THEN 0 ELSE g[m - 1] + DaysIn(m - 1)
    BY <1>8
  <2>2. 0 \in 0..End /\ \A m \in 1..End : m \in 0..End /\ m # 0
    BY <1>1
  <2> QED BY <2>1, <2>2
<1> HIDE DEF Is
<1> DEFINE G == {m \in Nat : m <= End => g[m] \in Nat}
<1>10. 0 \in G
  BY <1>9
<1>11. ASSUME NEW m \in G PROVE m + 1 \in G
  <2> SUFFICES ASSUME m + 1 <= End PROVE g[m + 1] \in Nat
    OBVIOUS
  <2>1. m + 1 \in 1..End /\ (m + 1) - 1 = m /\ g[m] \in Nat
    BY <1>1
  <2>2. g[m + 1] = g[m] + DaysIn(m) /\ DaysIn(m) \in Nat
    BY <1>2, <1>9, <2>1
  <2> QED BY <2>1, <2>2
<1> HIDE DEF G
<1>12. G = Nat
  BY <1>10, <1>11, Induction DEF G
<1>13. \A m \in 0..End : g[m] \in Nat
  BY <1>1, <1>12 DEF G
<1> QED BY <1>9, <1>13 DEF g

(* A later month starts at least 28 days later.                             *)
LEMMA StartGrows ==
    ASSUME NEW m \in 0..End, NEW n \in 0..End, m < n
    PROVE  StartOf[m] + 28 <= StartOf[n]
<1> DEFINE G == {j \in Nat : m + 1 + j <= End => StartOf[m] + 28 <= StartOf[m + 1 + j]}
<1>1. End \in Nat /\ m \in Nat /\ n \in Nat
  BY ForecastAssumption DEF End
<1>2. ASSUME NEW i \in Nat, i + 1 <= End
      PROVE  StartOf[i] \in Nat /\ StartOf[i + 1] \in Nat /\ StartOf[i] + 28 <= StartOf[i + 1]
  <2>1. i \in 0..End /\ i + 1 \in 1..End /\ i + 1 \in 0..End /\ (i + 1) - 1 = i
    BY <1>1, <1>2
  <2>2. StartOf[i + 1] = StartOf[i] + DaysIn(i) /\ StartOf[i] \in Nat /\ StartOf[i + 1] \in Nat
    BY <2>1, StartFollows
  <2> QED BY <2>2, MonthsAreShort
<1>3. 0 \in G
  BY <1>1, <1>2
<1>4. ASSUME NEW j \in G PROVE j + 1 \in G
  <2> SUFFICES ASSUME m + 1 + (j + 1) <= End PROVE StartOf[m] + 28 <= StartOf[m + 1 + (j + 1)]
    OBVIOUS
  <2>1. m + 1 + j \in Nat /\ (m + 1 + j) + 1 = m + 1 + (j + 1) /\ m + 1 + j <= End /\ m + 1 <= End
    BY <1>1
  <2>2. StartOf[m] + 28 <= StartOf[m + 1 + j]
    BY <2>1
  <2>3. StartOf[m + 1 + j] \in Nat /\ StartOf[m + 1 + (j + 1)] \in Nat
        /\ StartOf[m + 1 + j] + 28 <= StartOf[m + 1 + (j + 1)]
    BY <1>2, <2>1
  <2>4. StartOf[m] \in Nat
    BY StartFollows
  <2> QED BY <2>2, <2>3, <2>4
<1> HIDE DEF G
<1>5. G = Nat
  BY <1>3, <1>4, Induction DEF G
<1>6. n - (m + 1) \in G /\ m + 1 + (n - (m + 1)) = n /\ n <= End
  BY <1>1, <1>5
<1> QED BY <1>6 DEF G

(* A finite set of numbers has a greatest.                                  *)
LEMMA GreatestNumber ==
    ASSUME NEW P \in SUBSET Nat, IsFiniteSet(P), P # {}
    PROVE  Max(P) \in P /\ \A m \in P : m <= Max(P)
<1> DEFINE Has(T) == T = {} \/ \E x \in T : \A y \in T : y <= x
           G == {T \in SUBSET P : Has(T)}
<1>1. {} \in G
  OBVIOUS
<1>2. ASSUME NEW T \in G, NEW x \in P PROVE T \cup {x} \in G
  <2>1. CASE T = {}
    BY <2>1
  <2>2. CASE T # {}
    <3>1. PICK t \in T : \A y \in T : y <= t
      BY <2>2
    <3>2. t \in Nat /\ x \in Nat /\ \A y \in T : y \in Nat
      OBVIOUS
    <3>3. CASE x <= t
      BY <3>1, <3>2, <3>3
    <3>4. CASE ~(x <= t)
      <4>1. \A y \in T \cup {x} : y <= x
        BY <3>1, <3>2, <3>4
      <4> QED BY <4>1
    <3> QED BY <3>3, <3>4
  <2> QED BY <2>1, <2>2
<1> HIDE DEF G
<1>3. P \in G
  <2>1. G \in SUBSET SUBSET P
    BY DEF G
  <2> QED BY <1>1, <1>2, <2>1, FiniteInduction
<1>4. \E x \in P : \A y \in P : x >= y
  BY <1>3 DEF G
<1> QED BY <1>4 DEF Max
(* Months by rank: the i-th has i - 1 before it.                            *)
Rank(P, m) == Cardinality({k \in P : k <= m})

LEMMA RankGrows ==
    ASSUME NEW P \in SUBSET Nat, IsFiniteSet(P), NEW m \in P, NEW n \in P, m < n
    PROVE  Rank(P, m) < Rank(P, n)
<1> DEFINE M == {k \in P : k <= m}
           N == {k \in P : k <= n}
<1>1. m \in Nat /\ n \in Nat /\ \A k \in P : k \in Nat
  OBVIOUS
<1>2. IsFiniteSet(M) /\ IsFiniteSet(N) /\ Cardinality(M) \in Nat /\ Cardinality(N) \in Nat
  <2>1. M \in SUBSET P /\ N \in SUBSET P
    OBVIOUS
  <2> HIDE DEF M, N
  <2> QED BY <2>1, FS_Subset, FS_CardinalityType
<1>3. n \notin M /\ M \cup {n} \in SUBSET N
  <2>1. \A k \in P : k <= m => k <= n
    BY <1>1
  <2>2. ~(n <= m) /\ n <= n
    BY <1>1
  <2> QED BY <2>1, <2>2
<1> HIDE DEF M, N
<1>4. Cardinality(M \cup {n}) = Cardinality(M) + 1 /\ IsFiniteSet(M \cup {n})
  BY <1>2, <1>3, FS_AddElement
<1>5. Cardinality(M \cup {n}) <= Cardinality(N)
  BY <1>2, <1>3, FS_Subset
<1> QED BY <1>2, <1>4, <1>5 DEF Rank, M, N

LEMMA RankIsPlace ==
    ASSUME NEW P \in SUBSET Nat, IsFiniteSet(P), NEW m \in P
    PROVE  Rank(P, m) \in 1..Cardinality(P)
<1> DEFINE M == {k \in P : k <= m}
<1>1. m \in M /\ M \in SUBSET P
  OBVIOUS
<1> HIDE DEF M
<1>2. IsFiniteSet(M) /\ Cardinality(M) <= Cardinality(P)
  BY <1>1, FS_Subset
<1>3. Cardinality(M) \in Nat /\ Cardinality(P) \in Nat /\ Cardinality(M) # 0
  BY <1>1, <1>2, FS_CardinalityType, FS_EmptySet
<1> QED BY <1>2, <1>3 DEF Rank, M

LEMMA RanksDiffer ==
    ASSUME NEW P \in SUBSET Nat, IsFiniteSet(P), NEW m \in P, NEW n \in P
    PROVE  /\ Rank(P, m) = Rank(P, n) => m = n
           /\ Rank(P, m) < Rank(P, n) => m < n
<1>1. m \in Nat /\ n \in Nat /\ (m < n \/ m = n \/ n < m)
  OBVIOUS
<1>2. Rank(P, m) \in Nat /\ Rank(P, n) \in Nat
  <2>1. Rank(P, m) \in 1..Cardinality(P) /\ Rank(P, n) \in 1..Cardinality(P)
    BY RankIsPlace
  <2>2. Cardinality(P) \in Nat
    BY FS_CardinalityType
  <2> QED BY <2>1, <2>2
<1>3. (m < n => Rank(P, m) < Rank(P, n)) /\ (n < m => Rank(P, n) < Rank(P, m))
  BY RankGrows
<1> QED BY <1>1, <1>2, <1>3

LEMMA EveryRankIsTaken ==
    ASSUME NEW P \in SUBSET Nat, IsFiniteSet(P), NEW i \in 1..Cardinality(P)
    PROVE  \E m \in P : Rank(P, m) = i
<1> SUFFICES ASSUME \A m \in P : Rank(P, m) # i PROVE FALSE
  OBVIOUS
<1> DEFINE N == Cardinality(P)
           f == [m \in P |-> Rank(P, m)]
           T == (1..N) \ {i}
<1>1. N \in Nat
  BY FS_CardinalityType
<1>2. f \in [P -> T]
  BY RankIsPlace
<1>3. IsFiniteSet(1..N) /\ Cardinality(1..N) = N
  BY <1>1, FS_Interval
<1>4. IsFiniteSet(T) /\ Cardinality(T) = N - 1
  <2>1. i \in 1..N
    OBVIOUS
  <2> DEFINE I == 1..N
  <2> HIDE DEF I
  <2>2. IsFiniteSet(I) /\ Cardinality(I) = N /\ i \in I
    BY <1>3, <2>1 DEF I
  <2>3. IsFiniteSet(I \ {i}) /\ Cardinality(I \ {i}) = Cardinality(I) - 1
    BY <2>2, FS_RemoveElement
  <2> QED BY <2>2, <2>3 DEF I
<1>5. \A m \in P : f[m] = Rank(P, m)
  OBVIOUS
<1> HIDE DEF f, T
<1>6. Cardinality(T) < Cardinality(P)
  BY <1>1, <1>4
<1>7. PICK m, n \in P : m # n /\ f[m] = f[n]
  BY <1>2, <1>4, <1>6, FS_PigeonHole
<1> QED BY <1>5, <1>7, RanksDiffer

LEMMA NthIsRanked ==
    ASSUME NEW P \in SUBSET Nat, IsFiniteSet(P)
    PROVE  /\ \A i \in 1..Cardinality(P) : Nth(P, i) \in P /\ Rank(P, Nth(P, i)) = i
           /\ \A m \in P : Nth(P, Rank(P, m)) = m
           /\ P # {} => Nth(P, Cardinality(P)) = Max(P)
<1>1. ASSUME NEW i \in 1..Cardinality(P) PROVE Nth(P, i) \in P /\ Rank(P, Nth(P, i)) = i
  <2>1. \E m \in P : Rank(P, m) = i
    BY EveryRankIsTaken
  <2> QED BY <2>1 DEF Nth, Rank
<1>2. ASSUME NEW m \in P PROVE Nth(P, Rank(P, m)) = m
  <2>1. Rank(P, m) \in 1..Cardinality(P)
    BY RankIsPlace
  <2> QED BY <1>1, <2>1, RanksDiffer
<1>3. ASSUME P # {} PROVE Nth(P, Cardinality(P)) = Max(P)
  <2>1. Max(P) \in P /\ \A m \in P : m <= Max(P)
    BY <1>3, GreatestNumber
  <2>2. {k \in P : k <= Max(P)} = P
    BY <2>1
  <2>3. Rank(P, Max(P)) = Cardinality(P)
    BY <2>2 DEF Rank
  <2> QED BY <1>2, <2>1, <2>3
<1> QED BY <1>1, <1>2, <1>3

(* The month after one with none between has the next rank.                 *)
LEMMA NextRank ==
    ASSUME NEW P \in SUBSET Nat, IsFiniteSet(P), NEW m \in P, NEW k \in Nat \ {0}, m + k \in P,
           \A j \in 1..(k - 1) : m + j \notin P
    PROVE  Rank(P, m + k) = Rank(P, m) + 1
<1> DEFINE M == {i \in P : i <= m}
<1>1. m \in Nat
  OBVIOUS
<1>2. {i \in P : i <= m + k} = M \cup {m + k}
  <2>1. ASSUME NEW i \in P, i <= m + k, i # m + k PROVE i <= m
    <3> SUFFICES ASSUME ~(i <= m) PROVE FALSE
      OBVIOUS
    <3>1. i \in Nat /\ i - m \in 1..(k - 1) /\ m + (i - m) = i
      BY <1>1, <2>1
    <3> QED BY <3>1
  <2>2. \A i \in P : i <= m => i <= m + k
    BY <1>1
  <2>3. m + k \in P /\ m + k <= m + k
    BY <1>1
  <2>4. \A i : i \in {j \in P : j <= m + k} <=> i \in M \cup {m + k}
    BY <2>1, <2>2, <2>3
  <2> QED BY <2>4
<1>3. m + k \notin M
  BY <1>1
<1>4. IsFiniteSet(M)
  BY FS_Subset
<1> HIDE DEF M
<1>5. Cardinality(M \cup {m + k}) = Cardinality(M) + 1
  BY <1>3, <1>4, FS_AddElement
<1> QED BY <1>2, <1>5 DEF Rank, M

(* Order statistics: of n numbers, the k-th smallest.                       *)
UpTo(gap, n, g) == {i \in 1..n : gap[i] <= g}

LEMMA SmallestIsLeast ==
    ASSUME NEW n \in Nat, NEW gap \in [1..n -> Nat], NEW k \in 1..n
    PROVE  /\ \E i \in 1..n : Smallest(k, gap) = gap[i]
           /\ k <= Cardinality(UpTo(gap, n, Smallest(k, gap)))
           /\ \A i \in 1..n : k <= Cardinality(UpTo(gap, n, gap[i])) => Smallest(k, gap) <= gap[i]
<1> DEFINE R == {gap[i] : i \in 1..n}
           S == {g \in R : k <= Cardinality(UpTo(gap, n, g))}
<1>1. Smallest(k, gap) = Min(S)
  BY DEF Smallest, UpTo, Range
<1>2. IsFiniteSet(1..n) /\ Cardinality(1..n) = n
  <2>1. Cardinality(1..n) = IF 1 > n THEN 0 ELSE n - 1 + 1
    BY FS_Interval
  <2> QED BY <2>1, FS_Interval
<1>3. R \in SUBSET Nat /\ R # {}
  OBVIOUS
<1>4. IsFiniteSet(R)
  BY <1>2, ImageIsFinite
<1> DEFINE top == Max(R)
<1>5. top \in R /\ \A g \in R : g <= top
  <2> HIDE DEF R
  <2> QED BY <1>3, <1>4, GreatestNumber
<1> HIDE DEF top
<1>6. UpTo(gap, n, top) = 1..n
  BY <1>5 DEF UpTo
<1>7. top \in S
  BY <1>2, <1>5, <1>6
<1>8. S \in SUBSET Nat /\ S # {}
  BY <1>3, <1>7
<1>9. \E g \in S : \A h \in S : g <= h
  <2> HIDE DEF S
  <2> QED BY <1>8, LeastNumber
<1>10. Min(S) \in S /\ \A g \in S : Min(S) <= g
  <2> HIDE DEF S
  <2> QED BY <1>9 DEF Min
<1> QED BY <1>1, <1>10

(* The median of numbers most of which lie in a range lies in it.           *)
LEMMA MedianFollowsMost ==
    ASSUME NEW n \in Nat, NEW gap \in [1..n -> Nat], NEW low \in Nat, NEW high \in Nat,
           NEW Q \in SUBSET (1..n), \A i \in Q : gap[i] \in low..high,
           NEW k \in 1..n, k <= Cardinality(Q), n < k + Cardinality(Q)
    PROVE  Smallest(k, gap) \in low..high
<1> DEFINE x == Smallest(k, gap)
           A == UpTo(gap, n, x)
<1>1. /\ \E i \in 1..n : x = gap[i]
      /\ k <= Cardinality(A)
      /\ \A i \in 1..n : k <= Cardinality(UpTo(gap, n, gap[i])) => x <= gap[i]
  BY SmallestIsLeast
<1> HIDE DEF x
<1>2. x \in Nat
  BY <1>1
<1>3. /\ IsFiniteSet(1..n) /\ Cardinality(1..n) = n
      /\ IsFiniteSet(Q) /\ Cardinality(Q) \in Nat
      /\ A \in SUBSET (1..n) /\ IsFiniteSet(A) /\ Cardinality(A) \in Nat
  <2>1. Cardinality(1..n) = IF 1 > n THEN 0 ELSE n - 1 + 1
    BY FS_Interval
  <2>2. IsFiniteSet(1..n) /\ Cardinality(1..n) = n
    BY <2>1, FS_Interval
  <2>3. A \in SUBSET (1..n)
    BY DEF UpTo
  <2> HIDE DEF A
  <2> QED BY <2>2, <2>3, FS_Subset, FS_CardinalityType
<1>4. low <= x
  <2> SUFFICES ASSUME x < low PROVE FALSE
    BY <1>2
  <2>1. A \cap Q = {}
    <3>1. \A i \in Q : ~(gap[i] <= x)
      BY <1>2
    <3> QED BY <3>1 DEF UpTo
  <2> HIDE DEF A
  <2>2. Cardinality(A \cup Q) = Cardinality(A) + Cardinality(Q)
    <3>1. Cardinality(A \cup Q) = Cardinality(A) + Cardinality(Q) - Cardinality(A \cap Q)
      BY <1>3, FS_Union
    <3>2. Cardinality(A \cap Q) = 0
      BY <2>1, FS_EmptySet
    <3> QED BY <1>3, <3>1, <3>2
  <2>3. Cardinality(A \cup Q) <= n
    <3>1. A \cup Q \in SUBSET (1..n)
      BY <1>3
    <3>2. Cardinality(A \cup Q) <= Cardinality(1..n)
      BY <1>3, <3>1, FS_Subset
    <3> QED BY <1>3, <3>2
  <2> QED BY <1>1, <1>3, <2>2, <2>3
<1>5. x <= high
  <2> DEFINE V == {gap[i] : i \in Q}
  <2>1. Q # {}
    <3>1. Cardinality(Q) # 0
      BY <1>3
    <3> QED BY <3>1, FS_EmptySet
  <2>2. V \in SUBSET Nat /\ V # {}
    BY <2>1
  <2>3. IsFiniteSet(V)
    <3> DEFINE f == [i \in Q |-> gap[i]]
    <3>1. DOMAIN f = Q /\ f = [i \in Q |-> f[i]] /\ V = {f[i] : i \in Q}
      OBVIOUS
    <3> HIDE DEF f, V
    <3> QED BY <1>3, <3>1, ImageIsFinite
  <2>4. Max(V) \in V /\ \A v \in V : v <= Max(V)
    <3> HIDE DEF V
    <3> QED BY <2>2, <2>3, GreatestNumber
  <2>5. PICK q \in Q : Max(V) = gap[q]
    BY <2>4
  <2>6. Q \in SUBSET UpTo(gap, n, gap[q])
    BY <2>4, <2>5 DEF UpTo
  <2>7. Cardinality(Q) <= Cardinality(UpTo(gap, n, gap[q])) /\ Cardinality(UpTo(gap, n, gap[q])) \in Nat
    <3>1. UpTo(gap, n, gap[q]) \in SUBSET (1..n)
      BY DEF UpTo
    <3>2. IsFiniteSet(UpTo(gap, n, gap[q]))
      BY <1>3, <3>1, FS_Subset
    <3> QED BY <2>6, <3>2, FS_Subset, FS_CardinalityType
  <2>8. x <= gap[q]
    <3>1. k <= Cardinality(UpTo(gap, n, gap[q]))
      BY <1>3, <2>7
    <3> QED BY <1>1, <3>1
  <2>9. gap[q] \in Nat /\ gap[q] <= high
    OBVIOUS
  <2> QED BY <1>2, <2>8, <2>9
<1> QED BY <1>2, <1>4, <1>5 DEF x
(* The history of a set of months, and the gaps between its dates.          *)
LEMMA HistoryOfMonths ==
    ASSUME NEW P \in SUBSET (0..LastMonth), P # {}
    PROVE  /\ P \in SUBSET Nat /\ IsFiniteSet(P) /\ Cardinality(P) \in Nat \ {0}
           /\ Max(P) \in 0..LastMonth
           /\ \A i \in 1..Cardinality(P) : Nth(P, i) \in P
           /\ Len(History(P)) = Cardinality(P)
           /\ \A i \in 1..Cardinality(P) : History(P)[i] = [month |-> Nth(P, i), day |-> 1]
           /\ Last(History(P)) = [month |-> Max(P), day |-> 1]
<1> DEFINE N == Cardinality(P)
           H == History(P)
<1>1. LastMonth \in Nat
  BY ForecastAssumption
<1>2. P \in SUBSET Nat
  BY <1>1
<1>3. IsFiniteSet(P)
  <2>1. IsFiniteSet(0..LastMonth)
    BY <1>1, FS_Interval
  <2> QED BY <2>1, FS_Subset
<1>4. N \in Nat /\ N # 0
  BY <1>3, FS_CardinalityType, FS_EmptySet
<1>5. Max(P) \in P
  BY <1>2, <1>3, GreatestNumber
<1>6. (\A i \in 1..N : Nth(P, i) \in P) /\ Nth(P, N) = Max(P)
  BY <1>2, <1>3, NthIsRanked
<1> HIDE DEF N
<1>7. H = [i \in 1..N |-> [month |-> Nth(P, i), day |-> 1]]
  BY DEF History, N
<1>8. Len(H) = N
  BY <1>4, <1>7
<1>9. N \in 1..N
  BY <1>4
<1>10. Last(H) = [month |-> Max(P), day |-> 1]
  BY <1>6, <1>7, <1>8, <1>9 DEF Last
<1> QED BY <1>2, <1>3, <1>4, <1>5, <1>6, <1>7, <1>8, <1>10 DEF N

LEMMA GapsBetweenMonths ==
    ASSUME NEW P \in SUBSET (0..LastMonth), P # {}
    PROVE  /\ Gaps(History(P)) \in [1..(Cardinality(P) - 1) -> Nat]
           /\ \A i \in 1..(Cardinality(P) - 1) :
                 /\ Gaps(History(P))[i] = StartOf[Nth(P, i + 1)] - StartOf[Nth(P, i)]
                 /\ Gaps(History(P))[i] >= 28
<1> DEFINE N == Cardinality(P)
           n == N - 1
           H == History(P)
           gap == Gaps(H)
<1>1. /\ P \in SUBSET Nat /\ IsFiniteSet(P) /\ N \in Nat \ {0}
      /\ \A i \in 1..N : Nth(P, i) \in P
      /\ Len(H) = N
      /\ \A i \in 1..N : H[i] = [month |-> Nth(P, i), day |-> 1]
  BY HistoryOfMonths
<1>2. \A i \in 1..N : Nth(P, i) \in P /\ Rank(P, Nth(P, i)) = i
  BY <1>1, NthIsRanked
<1>3. \A m \in P : m \in 0..End
  BY ForecastAssumption DEF End
<1>4. gap = [i \in 1..n |-> DayNumber(H[i + 1]) - DayNumber(H[i])]
  BY <1>1 DEF Gaps
<1> HIDE DEF N, H, gap
<1>5. ASSUME NEW i \in 1..n
      PROVE  /\ gap[i] = StartOf[Nth(P, i + 1)] - StartOf[Nth(P, i)]
             /\ gap[i] \in Nat /\ gap[i] >= 28
  <2> DEFINE a == Nth(P, i)
             b == Nth(P, i + 1)
  <2>1. i \in 1..N /\ i + 1 \in 1..N /\ i < i + 1
    BY <1>1
  <2>2. a \in P /\ b \in P /\ Rank(P, a) = i /\ Rank(P, b) = i + 1
    BY <1>2, <2>1
  <2>3. H[i] = [month |-> a, day |-> 1] /\ H[i + 1] = [month |-> b, day |-> 1]
    BY <1>1, <2>1
  <2> HIDE DEF a, b
  <2>4. a < b
    BY <1>1, <2>1, <2>2, RanksDiffer
  <2>5. a \in 0..End /\ b \in 0..End
    BY <1>3, <2>2
  <2>6. StartOf[a] + 28 <= StartOf[b] /\ StartOf[a] \in Nat /\ StartOf[b] \in Nat
    BY <2>4, <2>5, StartGrows, StartFollows
  <2>7. gap[i] = DayNumber(H[i + 1]) - DayNumber(H[i])
    BY <1>4
  <2>8. DayNumber(H[i]) = StartOf[a] + 1 /\ DayNumber(H[i + 1]) = StartOf[b] + 1
    BY <2>3 DEF DayNumber
  <2>9. gap[i] = StartOf[b] - StartOf[a]
    BY <2>6, <2>7, <2>8
  <2> QED BY <2>6, <2>9 DEF a, b
<1>6. gap \in [1..n -> Nat]
  <2>1. gap = [i \in 1..n |-> gap[i]]
    BY <1>4
  <2> QED BY <1>5, <2>1
<1> QED BY <1>5, <1>6 DEF N, H, gap

(* How many days one month, or three, can have.                             *)
Shortest(k) == IF k = 1 THEN 28 ELSE 88
Longest(k) == IF k = 1 THEN 31 ELSE 95

LEMMA DaysOfMonths ==
    ASSUME NEW m \in Nat, NEW k \in {1, 3}, m + k <= End
    PROVE  StartOf[m + k] - StartOf[m] \in Shortest(k)..Longest(k)
<1>1. End \in Nat
  BY ForecastAssumption DEF End
<1>2. ASSUME NEW i \in Nat, i + 1 <= End
      PROVE  StartOf[i] \in Nat /\ StartOf[i + 1] \in Nat /\ StartOf[i + 1] = StartOf[i] + DaysIn(i)
  <2>1. i \in 0..End /\ i + 1 \in 1..End /\ i + 1 \in 0..End /\ (i + 1) - 1 = i
    BY <1>1, <1>2
  <2> QED BY <2>1, StartFollows
<1>3. CASE k = 1
  BY <1>2, <1>3, MonthsAreShort DEF Shortest, Longest
<1>4. CASE k = 3
  <2>1. /\ m + 1 \in Nat /\ m + 2 \in Nat /\ (m + 1) + 1 = m + 2 /\ (m + 2) + 1 = m + 3
        /\ m + 1 <= End /\ m + 2 <= End /\ m + 3 <= End
    BY <1>1, <1>4
  <2>2. /\ StartOf[m] \in Nat /\ StartOf[m + 3] \in Nat
        /\ StartOf[m + 1] = StartOf[m] + DaysIn(m)
        /\ StartOf[m + 2] = StartOf[m + 1] + DaysIn(m + 1)
        /\ StartOf[m + 3] = StartOf[m + 2] + DaysIn(m + 2)
    <3>1. StartOf[(m + 1) + 1] = StartOf[m + 1] + DaysIn(m + 1)
      BY <1>2, <2>1
    <3>2. StartOf[(m + 2) + 1] = StartOf[m + 2] + DaysIn(m + 2) /\ StartOf[(m + 2) + 1] \in Nat
      BY <1>2, <2>1
    <3> QED BY <1>2, <2>1, <3>1, <3>2
  <2>3. DaysIn(m) \in Nat /\ DaysIn(m + 1) \in Nat /\ DaysIn(m + 2) \in Nat
    BY <2>1, MonthsAreShort
  <2>4. DaysIn(m) + DaysIn(m + 1) + DaysIn(m + 2) \in 88..95
    BY QuartersAreLong
  <2>5. StartOf[m + 3] - StartOf[m] \in 88..95
    BY <2>2, <2>3, <2>4
  <2> QED BY <1>4, <2>5 DEF Shortest, Longest
<1> QED BY <1>3, <1>4
(* How many months of a set are followed by the k-th after, none between.   *)
Steps(P, k) == {m \in P : m + k \in P /\ \A j \in 1..(k - 1) : m + j \notin P}

(* Each such step is a gap of as many days as k months can have.            *)
LEMMA StepsAreGaps ==
    ASSUME NEW P \in SUBSET (0..LastMonth), P # {}, NEW k \in {1, 3}
    PROVE  LET n == Cardinality(P) - 1
               Q == {i \in 1..n : Gaps(History(P))[i] \in Shortest(k)..Longest(k)}
           IN  /\ Cardinality(Steps(P, k)) \in Nat /\ Cardinality(Q) \in Nat
               /\ Cardinality(Steps(P, k)) <= Cardinality(Q) /\ Cardinality(Q) <= n
<1> DEFINE N == Cardinality(P)
           n == N - 1
           gap == Gaps(History(P))
           Q == {i \in 1..n : gap[i] \in Shortest(k)..Longest(k)}
           S == Steps(P, k)
           f == [m \in S |-> Rank(P, m)]
<1>1. P \in SUBSET Nat /\ IsFiniteSet(P) /\ N \in Nat \ {0}
  BY HistoryOfMonths
<1>2. \A i \in 1..n : gap[i] = StartOf[Nth(P, i + 1)] - StartOf[Nth(P, i)]
  BY GapsBetweenMonths
<1>3. \A m \in P : Nth(P, Rank(P, m)) = m
  BY <1>1, NthIsRanked
<1>4. S \in SUBSET P /\ k \in Nat \ {0}
  BY DEF Steps
<1>5. ASSUME NEW m \in S PROVE Rank(P, m) \in Q
  <2>1. m \in P /\ m + k \in P /\ \A j \in 1..(k - 1) : m + j \notin P
    BY DEF Steps
  <2> HIDE DEF S, Q, N, gap
  <2>2. Rank(P, m + k) = Rank(P, m) + 1
    BY <1>1, <1>4, <2>1, NextRank
  <2>3. Rank(P, m) \in 1..N /\ Rank(P, m + k) \in 1..N
    BY <1>1, <2>1, RankIsPlace DEF N
  <2>4. Rank(P, m) \in 1..n
    BY <1>1, <2>2, <2>3
  <2>5. gap[Rank(P, m)] = StartOf[m + k] - StartOf[m]
    <3>1. Nth(P, Rank(P, m) + 1) = m + k /\ Nth(P, Rank(P, m)) = m
      BY <1>3, <2>1, <2>2
    <3> QED BY <1>2, <2>4, <3>1
  <2>6. m \in Nat /\ m + k <= End
    BY <1>1, <2>1, ForecastAssumption DEF End
  <2>7. StartOf[m + k] - StartOf[m] \in Shortest(k)..Longest(k)
    BY <2>6, DaysOfMonths
  <2> QED BY <2>4, <2>5, <2>7 DEF Q
<1>6. IsFiniteSet(Q) /\ Cardinality(Q) \in Nat /\ Cardinality(Q) <= n
  <2>1. n \in Nat
    BY <1>1
  <2> HIDE DEF n
  <2>2. Q \in SUBSET (1..n)
    OBVIOUS
  <2> HIDE DEF Q
  <2>3. Cardinality(1..n) = IF 1 > n THEN 0 ELSE n - 1 + 1
    BY <2>1, FS_Interval
  <2>4. IsFiniteSet(1..n) /\ Cardinality(1..n) = n
    BY <2>1, <2>3, FS_Interval
  <2>5. IsFiniteSet(Q) /\ Cardinality(Q) <= Cardinality(1..n)
    BY <2>2, <2>4, FS_Subset
  <2> QED BY <2>4, <2>5, FS_CardinalityType
<1>7. f \in Injection(S, Q)
  <2> HIDE DEF S, Q
  <2>1. f \in [S -> Q]
    BY <1>5
  <2>2. \A a, b \in S : f[a] = f[b] => a = b
    BY <1>1, <1>4, RanksDiffer
  <2> HIDE DEF f
  <2> QED BY <2>1, <2>2 DEF Injection, IsInjective
<1> HIDE DEF S, Q, f
<1>8. Cardinality(S) <= Cardinality(Q) /\ IsFiniteSet(S)
  BY <1>6, <1>7, FS_Injection
<1>9. Cardinality(S) \in Nat
  BY <1>8, FS_CardinalityType
<1> QED BY <1>6, <1>8, <1>9 DEF S, Q

(* The step a forecast takes from the spacing of its history.               *)
LEMMA StepOfHistory ==
    ASSUME NEW P \in SUBSET (0..LastMonth), P # {}
    PROVE  LET step == TwiceMedianGap(History(P))
           IN  /\ step \in Nat /\ step >= 56
               /\ \A k \in {1, 3} : 2 * Cardinality(Steps(P, k)) > Cardinality(P) - 1 =>
                     2 * Shortest(k) <= step /\ step <= 2 * Longest(k)
<1> DEFINE n == Cardinality(P) - 1
           gap == Gaps(History(P))
           step == TwiceMedianGap(History(P))
           first == Smallest((n + 1) \div 2, gap)
           second == Smallest(n \div 2 + 1, gap)
           Q(k) == {i \in 1..n : gap[i] \in Shortest(k)..Longest(k)}
<1>1. n \in Nat /\ Len(History(P)) - 1 = n
  <2>1. Cardinality(P) \in Nat \ {0} /\ Len(History(P)) = Cardinality(P)
    BY HistoryOfMonths
  <2> QED BY <2>1
<1>2. gap \in [1..n -> Nat] /\ \A i \in 1..n : gap[i] >= 28
  BY GapsBetweenMonths
<1>3. step = IF n = 0 THEN 60 ELSE first + second
  BY <1>1 DEF TwiceMedianGap
<1>4. \A k \in {1, 3} : /\ Cardinality(Steps(P, k)) \in Nat /\ Cardinality(Q(k)) \in Nat
                        /\ Cardinality(Steps(P, k)) <= Cardinality(Q(k)) /\ Cardinality(Q(k)) <= n
  BY StepsAreGaps
<1> HIDE DEF n, gap, step, Q
<1>5. n = 0 \/ ((n + 1) \div 2 \in 1..n /\ n \div 2 + 1 \in 1..n)
  BY <1>1
<1>6. step \in Nat /\ step >= 56
  <2>1. CASE n = 0
    BY <1>3, <2>1
  <2>2. CASE n # 0
    <3>1. (\E i \in 1..n : first = gap[i]) /\ (\E i \in 1..n : second = gap[i])
      BY <1>1, <1>2, <1>5, <2>2, SmallestIsLeast
    <3>2. first \in Nat /\ second \in Nat /\ first >= 28 /\ second >= 28
      BY <1>2, <3>1
    <3> QED BY <1>3, <2>2, <3>2
  <2> QED BY <2>1, <2>2
<1>7. ASSUME NEW k \in {1, 3}, 2 * Cardinality(Steps(P, k)) > n
      PROVE  2 * Shortest(k) <= step /\ step <= 2 * Longest(k)
  <2> DEFINE C == Cardinality(Q(k))
             low == Shortest(k)
             high == Longest(k)
  <2>1. C \in Nat /\ 2 * C > n /\ C <= n
    <3>1. /\ Cardinality(Steps(P, k)) \in Nat /\ C \in Nat
          /\ Cardinality(Steps(P, k)) <= C /\ C <= n
      BY <1>4
    <3> HIDE DEF C
    <3> QED BY <1>1, <1>7, <3>1
  <2>2. low \in Nat /\ high \in Nat
    BY DEF Shortest, Longest
  <2>3. Q(k) \in SUBSET (1..n) /\ \A i \in Q(k) : gap[i] \in low..high
    BY DEF Q
  <2> HIDE DEF C, low, high
  <2>4. /\ n # 0
        /\ (n + 1) \div 2 <= C /\ n < (n + 1) \div 2 + C
        /\ n \div 2 + 1 <= C /\ n < n \div 2 + 1 + C
    BY <1>1, <2>1
  <2>5. first \in low..high
    BY <1>1, <1>2, <1>5, <2>2, <2>3, <2>4, MedianFollowsMost DEF C
  <2>6. second \in low..high
    BY <1>1, <1>2, <1>5, <2>2, <2>3, <2>4, MedianFollowsMost DEF C
  <2> HIDE DEF first, second
  <2>7. step = first + second
    BY <1>3, <2>4
  <2>8. 2 * low <= step /\ step <= 2 * high
    BY <2>2, <2>5, <2>6, <2>7
  <2> QED BY <2>8 DEF low, high
<1> QED BY <1>6, <1>7 DEF n, step
(* The forecast of a history, one day number per period.                    *)
LEMMA ForecastOfHistory ==
    ASSUME NEW P \in SUBSET (0..LastMonth), P # {}
    PROVE  LET next == NextPeriods(History(P))
               step == TwiceMedianGap(History(P))
               first == StartOf[Max(P)] + 1
               months == IF 54 <= step /\ step <= 64 THEN 1 ELSE IF 176 <= step /\ step <= 190 THEN 3
                         ELSE IF 720 <= step /\ step <= 740 THEN 12 ELSE 0
           IN  \A i \in 1..Horizon :
                  next[i] = IF months = 0 THEN first + (i * step) \div 2
                            ELSE StartOf[Max(P) + months * i] + 1
<1> DEFINE H == History(P)
           step == TwiceMedianGap(H)
           last == Max(P)
           months == IF 54 <= step /\ step <= 64 THEN 1 ELSE IF 176 <= step /\ step <= 190 THEN 3
                     ELSE IF 720 <= step /\ step <= 740 THEN 12 ELSE 0
<1>1. step \in Nat
  BY StepOfHistory
<1>2. last \in 0..LastMonth /\ Last(H) = [month |-> last, day |-> 1]
  BY HistoryOfMonths
<1>3. last \in Nat
  BY <1>2, ForecastAssumption
<1> HIDE DEF H, step, last
<1>4. months = IF Between(27, step, 32) THEN 1 ELSE IF Between(88, step, 95) THEN 3
               ELSE IF Between(360, step, 370) THEN 12 ELSE 0
  BY <1>1 DEF Between
<1>5. DayNumber(Last(H)) = StartOf[last] + 1
  BY <1>2 DEF DayNumber
<1>6. ASSUME NEW j \in Nat PROVE DayNumber(AddMonths(Last(H), j)) = StartOf[last + j] + 1
  <2>1. DaysIn(last + j) \in 28..31
    BY <1>3, MonthsAreShort
  <2>2. 1 <= DaysIn(last + j)
    BY <2>1
  <2>3. AddMonths(Last(H), j) = [month |-> last + j, day |-> 1]
    BY <1>2, <2>2 DEF AddMonths
  <2> QED BY <2>3 DEF DayNumber
<1>7. ASSUME NEW i \in 1..Horizon
      PROVE  NextPeriods(H)[i] = IF months = 0 THEN StartOf[last] + 1 + (i * step) \div 2
                                 ELSE StartOf[last + months * i] + 1
  <2>1. NextByGap(H)[i] = StartOf[last] + 1 + (i * step) \div 2
    BY <1>5 DEF NextByGap, step
  <2>2. months * i \in Nat
    <3>1. months \in {0, 1, 3, 12}
      OBVIOUS
    <3> HIDE DEF months
    <3> QED BY <3>1, ForecastAssumption
  <2>3. NextPeriods(H)[i] = IF months = 0 THEN NextByGap(H)[i] ELSE DayNumber(AddMonths(Last(H), months * i))
    <3> HIDE DEF months
    <3> QED BY <1>4 DEF NextPeriods, step
  <2> HIDE DEF months
  <2> QED BY <1>6, <2>1, <2>2, <2>3
<1> QED BY <1>7 DEF H, step, last

(* Half a multiple grows by half the step, which is never less than a day.  *)
LEMMA HalvesGrow ==
    ASSUME NEW i \in Nat, NEW step \in Nat, step >= 2
    PROVE  /\ (i * step) \div 2 \in Nat
           /\ (i * step) \div 2 < ((i + 1) * step) \div 2
<1>1. i * step \in Nat /\ (i + 1) * step = i * step + step
  OBVIOUS
<1> DEFINE a == i * step
<1>2. a \in Nat
  BY <1>1
<1> HIDE DEF a
<1>3. a \div 2 \in Nat /\ a \div 2 < (a + step) \div 2
  BY <1>2
<1> QED BY <1>1, <1>3 DEF a

(* Whichever months of a history have a value, and however long it is, its  *)
(* forecast is dated after it and in order, and keeps to the calendar where *)
(* most of its months, or of its quarters, follow one another.              *)
THEOREM ForecastsKeepToTheCalendar ==
    ASSUME input \in [months : (SUBSET (0..LastMonth)) \ {{}}]
    PROVE  ForecastFollowsCalendar
<1> DEFINE P == input.months
           step == TwiceMedianGap(History(P))
           last == Max(P)
           next == NextPeriods(History(P))
           first == StartOf[last] + 1
           months == IF 54 <= step /\ step <= 64 THEN 1 ELSE IF 176 <= step /\ step <= 190 THEN 3
                     ELSE IF 720 <= step /\ step <= 740 THEN 12 ELSE 0
<1>1. P \in SUBSET (0..LastMonth) /\ P # {}
  OBVIOUS
<1> HIDE DEF P
<1>2. last \in 0..LastMonth
  BY <1>1, HistoryOfMonths
<1>3. /\ step \in Nat /\ step >= 56
      /\ \A k \in {1, 3} : 2 * Cardinality(Steps(P, k)) > Cardinality(P) - 1 =>
            2 * Shortest(k) <= step /\ step <= 2 * Longest(k)
  BY <1>1, StepOfHistory
<1>4. \A i \in 1..Horizon : next[i] = IF months = 0 THEN first + (i * step) \div 2
                                      ELSE StartOf[last + months * i] + 1
  BY <1>1, ForecastOfHistory
<1>5. Horizon \in Nat /\ LastMonth \in Nat /\ last \in Nat /\ first \in Nat
  <2>1. last \in 0..End
    BY <1>2, ForecastAssumption DEF End
  <2>2. StartOf[last] \in Nat
    BY <2>1, StartFollows
  <2> QED BY <1>2, <2>2, ForecastAssumption
<1> HIDE DEF step, last, next, first
<1>6. months \in {0, 1, 3, 12}
  OBVIOUS
<1>7. ASSUME NEW i \in 1..Horizon
      PROVE  next[i] > (IF i = 1 THEN first ELSE next[i - 1])
  <2> DEFINE before == IF i = 1 THEN first ELSE next[i - 1]
  <2>1. i \in Nat /\ i - 1 \in Nat /\ (i - 1) + 1 = i /\ (i = 1 \/ i - 1 \in 1..Horizon)
    BY <1>5
  <2>2. CASE months = 0
    <3> DEFINE half(j) == (j * step) \div 2
    <3> HIDE DEF months
    <3>1. half(i - 1) \in Nat /\ half(i - 1) < half((i - 1) + 1)
      BY <1>3, <2>1, HalvesGrow
    <3>2. half(i) \in Nat
      BY <1>3, <2>1, HalvesGrow
    <3>3. next[i] = first + half(i)
      BY <1>4, <2>2
    <3>4. before = first + half(i - 1)
      <4>1. CASE i = 1
        <5>1. half(0) = 0
          BY <1>3
        <5>2. before = first /\ i - 1 = 0
          BY <4>1
        <5> HIDE DEF half, before
        <5> QED BY <1>5, <5>1, <5>2
      <4>2. CASE i # 1
        BY <1>4, <2>1, <2>2, <4>2
      <4> QED BY <4>1, <4>2
    <3> HIDE DEF half, before
    <3>5. half(i - 1) < half(i)
      BY <2>1, <3>1
    <3>6. next[i] > before
      BY <1>5, <3>1, <3>2, <3>3, <3>4, <3>5
    <3> QED BY <3>6 DEF before
  <2>3. CASE months # 0
    <3> DEFINE m == last + months * (i - 1)
               n == last + months * i
    <3> HIDE DEF months
    <3>1. m \in 0..End /\ n \in 0..End /\ m < n
      <4>1. CASE months = 1
        BY <1>2, <1>5, <4>1 DEF End
      <4>2. CASE months = 3
        BY <1>2, <1>5, <4>2 DEF End
      <4>3. CASE months = 12
        BY <1>2, <1>5, <4>3 DEF End
      <4> QED BY <1>6, <2>3, <4>1, <4>2, <4>3
    <3>2. next[i] = StartOf[n] + 1
      BY <1>4, <2>3
    <3>3. before = StartOf[m] + 1
      <4>1. CASE i = 1
        <5>1. m = last
          BY <1>5, <1>6, <4>1
        <5> QED BY <4>1, <5>1 DEF first
      <4>2. CASE i # 1
        BY <1>4, <2>1, <2>3, <4>2
      <4> QED BY <4>1, <4>2
    <3> HIDE DEF m, n, before
    <3>4. StartOf[m] \in Nat /\ StartOf[n] \in Nat /\ StartOf[m] + 28 <= StartOf[n]
      BY <3>1, StartGrows, StartFollows
    <3>5. next[i] > before
      BY <3>2, <3>3, <3>4
    <3> QED BY <3>5 DEF before
  <2> QED BY <2>2, <2>3
<1>8. ASSUME NEW k \in {1, 3}, 2 * Cardinality(Steps(P, k)) > Cardinality(P) - 1
      PROVE  \A i \in 1..Horizon : next[i] = StartOf[last + k * i] + 1
  <2>1. 2 * Shortest(k) <= step /\ step <= 2 * Longest(k)
    BY <1>3, <1>8
  <2>2. months = k
    BY <1>3, <2>1 DEF Shortest, Longest
  <2> HIDE DEF months
  <2> QED BY <1>4, <2>2
<1> HIDE DEF months
<1>9. DayNumber([month |-> last, day |-> 1]) = first
  BY DEF DayNumber, first
<1>10. \A j : DayNumber([month |-> j, day |-> 1]) = StartOf[j] + 1
  BY DEF DayNumber
<1>11. FollowsCalendar(P)
  BY <1>7, <1>8, <1>9, <1>10 DEF FollowsCalendar, Forecasts, Steps, next, last
<1> QED BY <1>11 DEF ForecastFollowsCalendar, P
=============================================================================
