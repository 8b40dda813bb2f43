------------------------------ MODULE FoldLemmas -----------------------------
(***************************************************************************)
(* Lemmas that the proofs of the components share: how finite sets grow,   *)
(* induction, and the folds the models count and add with, which are sums  *)
(* over finite sets, sums by group, least and greatest elements.           *)
(*                                                                         *)
(* Folds go by induction, stated for a set instead of a predicate: a set of *)
(* naturals that holds 0 and the successor of each of its members holds    *)
(* every natural (CountingUp), and a set of finite subsets that holds each *)
(* one from which any element can be taken within it holds them all        *)
(* (TakingAway).  CountingUp is the pigeonhole principle, and TakingAway   *)
(* counts elements.  A fold over a finite set is a function by recursion   *)
(* on the set; FoldExists builds it, which makes its equation usable.      *)
(***************************************************************************)
EXTENDS Integers, FiniteSets, Sequences, SequencesExt, FiniteSetTheorems, TLAPS

\* What is added bounds how a finite set grows.
LEMMA UnionBound ==
  ASSUME NEW S, NEW D, NEW T, IsFiniteSet(S), IsFiniteSet(D), T \subseteq S \cup D
  PROVE  IsFiniteSet(T) /\ Cardinality(T) <= Cardinality(S) + Cardinality(D)
<1>1. IsFiniteSet(S \cup D) /\ IsFiniteSet(S \cap D)
  BY FS_Union, FS_Intersection
<1>2. Cardinality(S \cup D) = Cardinality(S) + Cardinality(D) - Cardinality(S \cap D)
  BY FS_Union
<1>3. IsFiniteSet(T) /\ Cardinality(T) <= Cardinality(S \cup D)
  BY <1>1, FS_Subset
<1>. QED
  BY <1>1, <1>2, <1>3, FS_CardinalityType

\* One element more, at most.
LEMMA OneMore ==
  ASSUME NEW S, NEW x, NEW T, IsFiniteSet(S), T \subseteq S \cup {x}
  PROVE  IsFiniteSet(T) /\ Cardinality(T) <= Cardinality(S) + 1
BY UnionBound, FS_Singleton

\* And one element less.
LEMMA OneLess ==
  ASSUME NEW S, NEW x \in S, NEW T, IsFiniteSet(S), T \subseteq S \ {x}
  PROVE  IsFiniteSet(T) /\ Cardinality(T) <= Cardinality(S) - 1
<1>1. IsFiniteSet(S \ {x}) /\ Cardinality(S \ {x}) = Cardinality(S) - 1
  BY FS_RemoveElement
<1>. QED
  BY <1>1, FS_Subset

-----------------------------------------------------------------------------
\* Induction over the natural numbers.
LEMMA CountingUp ==
  ASSUME NEW A, 0 \in A, \A i \in Nat : i \in A => i + 1 \in A
  PROVE  \A n \in Nat : n \in A
<1>. SUFFICES ASSUME NEW n \in Nat, n \notin A PROVE FALSE
  OBVIOUS
<1>. DEFINE f == [i \in 0..n |-> IF i \in A THEN i + 1 ELSE i]
<1>1. f \in [0..n -> 1..n]
  OBVIOUS
<1>2. \A i, j \in 0..n : f[i] = f[j] => i = j
  OBVIOUS
<1>3. /\ IsFiniteSet(0..n) /\ Cardinality(0..n) = n + 1
      /\ IsFiniteSet(1..n) /\ Cardinality(1..n) = n
  BY FS_Interval
<1>4. Cardinality(1..n) < Cardinality(0..n)
  BY <1>3
<1>. HIDE DEF f
<1>5. \E i, j \in 0..n : i # j /\ f[i] = f[j]
  BY <1>1, <1>3, <1>4, FS_PigeonHole
<1>. QED
  BY <1>2, <1>5

\* The successor of a natural number is one.
LEMMA NextNat == \A n \in Nat : n + 1 \in Nat
OBVIOUS

\* A finite set loses one element.
LEMMA ElementOut ==
  ASSUME NEW U, IsFiniteSet(U), NEW s \in SUBSET U, NEW n \in Nat, Cardinality(s) = n + 1
  PROVE  /\ s # {}
         /\ \A x \in s : s \ {x} \in SUBSET U
         /\ \A x \in s : Cardinality(s \ {x}) = n
<1>1. IsFiniteSet(s)
  BY FS_Subset
<1>2. s # {}
  BY FS_EmptySet
<1>3. ASSUME NEW x \in s PROVE Cardinality(s \ {x}) = n
  <2>1. Cardinality(s \ {x}) = Cardinality(s) - 1
    BY <1>1, FS_RemoveElement
  <2>. QED
    BY <2>1
<1>. QED
  BY <1>2, <1>3

\* Induction over the subsets of a finite set: a subset is in A once those with one
\* element less are.
LEMMA TakingAway ==
  ASSUME NEW S, IsFiniteSet(S), NEW A,
         \A T \in SUBSET S : (\A x \in T : T \ {x} \in A) => T \in A
  PROVE  \A T \in SUBSET S : T \in A
<1>. DEFINE B == {n \in Nat : \A T \in SUBSET S : Cardinality(T) = n => T \in A}
<1>0. \A T \in SUBSET S : IsFiniteSet(T) /\ Cardinality(T) \in Nat /\ (Cardinality(T) = 0 <=> T = {})
  BY FS_Subset, FS_CardinalityType, FS_EmptySet
<1>1. 0 \in B
  BY <1>0
<1>2. ASSUME NEW n \in Nat, n \in B PROVE n + 1 \in B
  <2>1. ASSUME NEW T \in SUBSET S, Cardinality(T) = n + 1 PROVE T \in A
    <3>1. /\ \A x \in T : T \ {x} \in SUBSET S
          /\ \A x \in T : Cardinality(T \ {x}) = n
      BY <2>1, ElementOut, Zenon
    <3>2. \A x \in T : T \ {x} \in A
      BY <1>2, <3>1
    <3>. QED
      BY <3>2
  <2>2. n + 1 \in Nat
    BY NextNat
  <2>. QED
    BY <2>1, <2>2, Zenon
<1>. HIDE DEF B
<1>3. \A n \in Nat : n \in B
  BY <1>1, <1>2, CountingUp
<1>. QED
  BY <1>0, <1>3 DEF B


\* g folds subsets of S: base for none, and a step from the one that is first.
Folds(g, S, first, base, step) ==
  g = [s \in SUBSET S |-> IF s = {} THEN base ELSE step[first[s], g[s \ {first[s]}]]]

\* There is a fold over the subsets of a finite set: what is first in a subset is
\* combined with the fold of what is left.
LEMMA FoldExists ==
  ASSUME NEW S, IsFiniteSet(S), NEW first, \A s \in SUBSET S : s # {} => first[s] \in s,
         NEW V, NEW base \in V, NEW step \in [S \X V -> V]
  PROVE  \E g \in [SUBSET S -> V] : Folds(g, S, first, base, step)
<1>. DEFINE Small(n) == {s \in SUBSET S : Cardinality(s) <= n}
            Next(g, s) == IF s = {} THEN base ELSE step[first[s], g[s \ {first[s]}]]
            B == {n \in Nat : \E g \in [Small(n) -> V] : \A s \in Small(n) : g[s] = Next(g, s)}
<1>0. \A s \in SUBSET S : IsFiniteSet(s) /\ Cardinality(s) \in Nat /\ (Cardinality(s) = 0 <=> s = {})
  BY FS_Subset, FS_CardinalityType, FS_EmptySet
<1>1. \A s \in SUBSET S : s # {} => /\ first[s] \in S /\ s \ {first[s]} \in SUBSET S
                                    /\ Cardinality(s \ {first[s]}) = Cardinality(s) - 1
  BY <1>0, FS_RemoveElement
<1>2. 0 \in B
  <2>1. \A s \in Small(0) : s = {}
    BY <1>0
  <2>2. [s \in Small(0) |-> base] \in [Small(0) -> V]
    OBVIOUS
  <2>. QED
    BY <2>1, <2>2
<1>3. ASSUME NEW n \in Nat, n \in B PROVE n + 1 \in B
  <2>1. PICK g \in [Small(n) -> V] : \A s \in Small(n) : g[s] = Next(g, s)
    BY <1>3
  <2>. DEFINE h == [s \in Small(n + 1) |-> Next(g, s)]
  <2>2. \A s \in Small(n + 1) : s # {} => s \ {first[s]} \in Small(n)
    BY <1>0, <1>1
  <2>3. h \in [Small(n + 1) -> V]
    BY <1>1, <2>2
  <2>6. \A s \in Small(n) : s \in Small(n + 1)
    BY <1>0
  <2>4. \A s \in Small(n) : s \in Small(n + 1) /\ h[s] = g[s]
    BY <2>6, <2>1
  <2>5. \A s \in Small(n + 1) : h[s] = Next(h, s)
    <3>. TAKE s \in Small(n + 1)
    <3>1. CASE s = {}
      BY <3>1
    <3>2. CASE s # {}
      <4>1. h[s \ {first[s]}] = g[s \ {first[s]}]
        BY <3>2, <2>2, <2>4
      <4>2. h[s] = Next(g, s)
        OBVIOUS
      <4>. QED
        BY <3>2, <4>1, <4>2
    <3>. QED
      BY <3>1, <3>2
  <2>. HIDE DEF h, Small, Next
  <2>. QED
    BY <2>3, <2>5
<1>. HIDE DEF B
<1>4. Cardinality(S) \in B
  BY <1>0, <1>2, <1>3, CountingUp
<1>5. PICK g \in [Small(Cardinality(S)) -> V] : \A s \in Small(Cardinality(S)) : g[s] = Next(g, s)
  BY <1>4 DEF B
<1>6. Small(Cardinality(S)) = SUBSET S
  BY FS_Subset
<1>7. g \in [SUBSET S -> V] /\ \A s \in SUBSET S : g[s] = Next(g, s)
  BY <1>5, <1>6
<1>8. Folds(g, S, first, base, step)
  BY <1>7 DEF Folds
<1>. QED
  BY <1>7, <1>8

\* Two functions on the subsets agree when they agree on the empty set and from each
\* subset to one with one element less.
LEMMA FoldsAgree ==
  ASSUME NEW U, IsFiniteSet(U), NEW g, NEW h, g[{}] = h[{}],
         \A s \in SUBSET U : s # {} => \E x \in s : g[s \ {x}] = h[s \ {x}] => g[s] = h[s]
  PROVE  g[U] = h[U]
<1>. DEFINE A == {s \in SUBSET U : g[s] = h[s]}
<1>1. ASSUME NEW s \in SUBSET U, \A x \in s : s \ {x} \in A PROVE s \in A
  BY <1>1
<1>2. U \in SUBSET U
  OBVIOUS
<1>. HIDE DEF A
<1>3. U \in A
  BY <1>1, <1>2, TakingAway
<1>. QED
  BY <1>3 DEF A

\* An element of each subset.
Some(S) == [s \in SUBSET S |-> CHOOSE x \in s : TRUE]

\* A value added to a sum.
Plus(f, S, V) == [p \in S \X V |-> f[p[1]] + p[2]]

\* g is the sum of f over each subset of S.
Sums(g, f, S) ==
  g = [s \in SUBSET S |-> IF s = {} THEN 0
                          ELSE LET x == CHOOSE x \in s : TRUE IN f[x] + g[s \ {x}]]

\* What is chosen from a subset is in it.
LEMMA SomeIsIn ==
  ASSUME NEW S, NEW s \in SUBSET S, s # {}
  PROVE  Some(S)[s] \in s /\ Some(S)[s] \in S /\ Some(S)[s] = CHOOSE x \in s : TRUE
BY DEF Some

\* A sum is a fold.
LEMMA SumsAreFolds ==
  ASSUME NEW f, NEW S, NEW V, NEW g \in [SUBSET S -> V]
  PROVE  Sums(g, f, S) <=> Folds(g, S, Some(S), 0, Plus(f, S, V))
<1>1. ASSUME NEW s \in SUBSET S, s # {}
      PROVE  Plus(f, S, V)[Some(S)[s], g[s \ {Some(S)[s]}]]
                 = LET x == CHOOSE x \in s : TRUE IN f[x] + g[s \ {x}]
    <2>1. Some(S)[s] \in S /\ g[s \ {Some(S)[s]}] \in V /\ Some(S)[s] = CHOOSE x \in s : TRUE
      BY <1>1, SomeIsIn
    <2>. QED
      BY <2>1 DEF Plus
<1>. QED
  BY <1>1 DEF Sums, Folds

\* The library's sum over a set is the one its recursion defines.
LEMMA SumFolds ==
  ASSUME NEW S, IsFiniteSet(S), NEW f, \A x \in S : f[x] \in Int
  PROVE  \E g \in [SUBSET S -> Int] : Sums(g, f, S) /\ SumFunctionOnSet(f, S) = g[S]
<1>1. PICK g \in [SUBSET S -> Int] : Sums(g, f, S)
  <2>0. 0 \in Int
    OBVIOUS
  <2>1. \A s \in SUBSET S : s # {} => Some(S)[s] \in s
    BY SomeIsIn
  <2>2. Plus(f, S, Int) \in [S \X Int -> Int]
    BY DEF Plus
  <2>3. \E g \in [SUBSET S -> Int] : Folds(g, S, Some(S), 0, Plus(f, S, Int))
    BY <2>0, <2>1, <2>2, FoldExists, Zenon
  <2>. QED
    BY <2>3, SumsAreFolds
<1>. DEFINE h == CHOOSE h : Sums(h, f, S)
<1>2. Sums(h, f, S)
  BY <1>1
<1>3. SumFunctionOnSet(f, S) = h[S]
  BY DEF SumFunctionOnSet, FoldFunctionOnSet, MapThenFoldSet, Sums
<1>. HIDE DEF h
<1>5. h[S] = g[S]
  <2>1. /\ \A s \in SUBSET S : h[s] = IF s = {} THEN 0
                                      ELSE LET x == CHOOSE x \in s : TRUE IN f[x] + h[s \ {x}]
        /\ \A s \in SUBSET S : g[s] = IF s = {} THEN 0
                                      ELSE LET x == CHOOSE x \in s : TRUE IN f[x] + g[s \ {x}]
    BY <1>1, <1>2, Zenon DEF Sums
  <2>2. \A s \in SUBSET S : s # {} => \E x \in s : h[s \ {x}] = g[s \ {x}] => h[s] = g[s]
    <3>. SUFFICES ASSUME NEW s \in SUBSET S, s # {}
                  PROVE  \E x \in s : h[s \ {x}] = g[s \ {x}] => h[s] = g[s]
      OBVIOUS
    <3>. WITNESS (CHOOSE x \in s : TRUE) \in s
    <3>. QED
      BY <2>1
  <2>3. h[{}] = g[{}]
    BY <2>1
  <2>. QED
    BY <2>2, <2>3, FoldsAgree
<1>. QED
  BY <1>1, <1>3, <1>5

\* Nothing adds up to 0.
LEMMA SumNone == \A f : SumFunctionOnSet(f, {}) = 0
<1>. TAKE f
<1>1. PICK g \in [SUBSET {} -> Int] : Sums(g, f, {}) /\ SumFunctionOnSet(f, {}) = g[{}]
  BY SumFolds, FS_EmptySet
<1>. QED
  BY <1>1 DEF Sums

\* A sum is the value of the element that is chosen plus the sum of the others.
LEMMA SumFirst ==
  ASSUME NEW S, IsFiniteSet(S), NEW f, \A x \in S : f[x] \in Int, S # {}
  PROVE  \E x \in S : SumFunctionOnSet(f, S) = f[x] + SumFunctionOnSet(f, S \ {x})
<1>. DEFINE y == CHOOSE x \in S : TRUE
            T == S \ {y}
<1>1. y \in S
  OBVIOUS
<1>2. PICK g \in [SUBSET S -> Int] : Sums(g, f, S) /\ SumFunctionOnSet(f, S) = g[S]
  BY SumFolds
<1>3. IsFiniteSet(T)
  BY FS_Subset
<1>4. PICK h \in [SUBSET T -> Int] : Sums(h, f, T) /\ SumFunctionOnSet(f, T) = h[T]
  BY <1>3, SumFolds
<1>5. g[S] = f[y] + g[T]
  <2>1. S \in SUBSET S
    OBVIOUS
  <2>. QED
    BY <1>2, <2>1 DEF Sums
<1>6. g[T] = h[T]
  <2>1. /\ \A s \in SUBSET T : h[s] = IF s = {} THEN 0
                                      ELSE LET x == CHOOSE x \in s : TRUE IN f[x] + h[s \ {x}]
        /\ \A s \in SUBSET S : g[s] = IF s = {} THEN 0
                                      ELSE LET x == CHOOSE x \in s : TRUE IN f[x] + g[s \ {x}]
    BY <1>2, <1>4, Zenon DEF Sums
  <2>2. \A s \in SUBSET T : s # {} => \E x \in s : g[s \ {x}] = h[s \ {x}] => g[s] = h[s]
    <3>. SUFFICES ASSUME NEW s \in SUBSET T, s # {}
                  PROVE  \E x \in s : g[s \ {x}] = h[s \ {x}] => g[s] = h[s]
      OBVIOUS
    <3>. WITNESS (CHOOSE x \in s : TRUE) \in s
    <3>1. s \in SUBSET S
      OBVIOUS
    <3>. QED
      BY <2>1, <3>1
  <2>3. g[{}] = h[{}]
    BY <2>1
  <2>. QED
    BY <1>3, <2>2, <2>3, FoldsAgree
<1>. QED
  BY <1>1, <1>2, <1>4, <1>5, <1>6

\* The sum of integers is an integer.
LEMMA SumIsInt ==
  ASSUME NEW S, IsFiniteSet(S), NEW f, \A x \in S : f[x] \in Int
  PROVE  SumFunctionOnSet(f, S) \in Int
<1>1. PICK g \in [SUBSET S -> Int] : Sums(g, f, S) /\ SumFunctionOnSet(f, S) = g[S]
  BY SumFolds
<1>. QED
  BY <1>1

\* A sum is the value of any element plus the sum of the others.
LEMMA SumRemove ==
  ASSUME NEW S, IsFiniteSet(S), NEW f, \A x \in S : f[x] \in Int
  PROVE  \A x \in S : SumFunctionOnSet(f, S) = f[x] + SumFunctionOnSet(f, S \ {x})
<1>. DEFINE Sum(T) == SumFunctionOnSet(f, T)
            A == {T \in SUBSET S : \A x \in T : Sum(T) = f[x] + Sum(T \ {x})}
<1>0. \A T \in SUBSET S : IsFiniteSet(T)
  BY FS_Subset
<1>1. \A T \in SUBSET S : Sum(T) \in Int
  BY <1>0, SumIsInt
<1>3. ASSUME NEW T \in SUBSET S, \A y \in T : T \ {y} \in A, NEW x \in T
      PROVE  Sum(T) = f[x] + Sum(T \ {x})
  <2>1. PICK y \in T : Sum(T) = f[y] + Sum(T \ {y})
    BY <1>0, SumFirst
  <2>2. CASE x = y
    BY <2>1, <2>2
  <2>3. CASE x # y
    <3>1. x \in T \ {y} /\ y \in T \ {x}
      BY <2>3
    <3>2. Sum(T \ {y}) = f[x] + Sum((T \ {y}) \ {x})
      BY <1>3, <3>1
    <3>3. Sum(T \ {x}) = f[y] + Sum((T \ {x}) \ {y})
      BY <1>3, <3>1
    <3>4. (T \ {y}) \ {x} = (T \ {x}) \ {y} /\ (T \ {x}) \ {y} \in SUBSET S
      OBVIOUS
    <3>5. f[x] \in Int /\ f[y] \in Int /\ Sum((T \ {x}) \ {y}) \in Int
      BY <1>1, <3>4
    <3>6. Sum((T \ {y}) \ {x}) = Sum((T \ {x}) \ {y})
      BY <3>4
    <3>. QED
      BY <2>1, <3>2, <3>3, <3>5, <3>6
  <2>. QED
    BY <2>2, <2>3
<1>4. \A T \in SUBSET S : (\A x \in T : T \ {x} \in A) => T \in A
  BY <1>3
<1>5. S \in SUBSET S
  OBVIOUS
<1>. HIDE DEF A
<1>6. S \in A
  BY <1>4, <1>5, TakingAway
<1>. QED
  BY <1>6 DEF A

\* The sum of naturals is a natural.
LEMMA SumIsNat ==
  ASSUME NEW S, IsFiniteSet(S), NEW f, \A x \in S : f[x] \in Nat
  PROVE  SumFunctionOnSet(f, S) \in Nat
<1>. DEFINE Sum(T) == SumFunctionOnSet(f, T)
            A == {T \in SUBSET S : Sum(T) \in Nat}
<1>1. ASSUME NEW T \in SUBSET S, \A x \in T : T \ {x} \in A PROVE T \in A
  <2>1. CASE T = {}
    BY <2>1, SumNone
  <2>2. CASE T # {}
    <3>1. IsFiniteSet(T) /\ \A x \in T : f[x] \in Int
      BY FS_Subset
    <3>2. PICK x \in T : Sum(T) = f[x] + Sum(T \ {x})
      BY <2>2, <3>1, SumFirst
    <3>3. f[x] \in Nat /\ Sum(T \ {x}) \in Nat
      BY <1>1
    <3>. QED
      BY <3>2, <3>3
  <2>. QED
    BY <2>1, <2>2
<1>2. S \in SUBSET S
  OBVIOUS
<1>. HIDE DEF A
<1>3. S \in A
  BY <1>1, <1>2, TakingAway
<1>. QED
  BY <1>3 DEF A

\* A sum is at most the sum of values that are not smaller.
LEMMA SumAtMost ==
  ASSUME NEW S, IsFiniteSet(S), NEW f, NEW h,
         \A x \in S : f[x] \in Int /\ h[x] \in Int /\ f[x] <= h[x]
  PROVE  SumFunctionOnSet(f, S) <= SumFunctionOnSet(h, S)
<1>. DEFINE Sum(g, T) == SumFunctionOnSet(g, T)
            A == {T \in SUBSET S : Sum(f, T) <= Sum(h, T)}
<1>1. ASSUME NEW T \in SUBSET S, \A x \in T : T \ {x} \in A PROVE T \in A
  <2>1. CASE T = {}
    BY <2>1, SumNone
  <2>2. CASE T # {}
    <3>1. IsFiniteSet(T) /\ \A x \in T : f[x] \in Int /\ h[x] \in Int
      BY FS_Subset
    <3>2. PICK x \in T : TRUE
      BY <2>2
    <3>3. Sum(f, T) = f[x] + Sum(f, T \ {x}) /\ Sum(h, T) = h[x] + Sum(h, T \ {x})
      BY <3>1, SumRemove
    <3>4. IsFiniteSet(T \ {x})
      BY <3>1, FS_Subset
    <3>5. Sum(f, T \ {x}) \in Int /\ Sum(h, T \ {x}) \in Int
      BY <3>1, <3>4, SumIsInt
    <3>6. Sum(f, T \ {x}) <= Sum(h, T \ {x})
      BY <1>1
    <3>. QED
      BY <3>3, <3>5, <3>6
  <2>. QED
    BY <2>1, <2>2
<1>2. S \in SUBSET S
  OBVIOUS
<1>. HIDE DEF A
<1>3. S \in A
  BY <1>1, <1>2, TakingAway
<1>. QED
  BY <1>3 DEF A

\* Equal values have equal sums.
LEMMA SumSame ==
  ASSUME NEW S, IsFiniteSet(S), NEW f, NEW h, \A x \in S : f[x] \in Int /\ f[x] = h[x]
  PROVE  SumFunctionOnSet(f, S) = SumFunctionOnSet(h, S)
<1>1. SumFunctionOnSet(f, S) <= SumFunctionOnSet(h, S) /\ SumFunctionOnSet(h, S) <= SumFunctionOnSet(f, S)
  BY SumAtMost
<1>2. SumFunctionOnSet(f, S) \in Int /\ SumFunctionOnSet(h, S) \in Int
  BY SumIsInt
<1>. QED
  BY <1>1, <1>2

\* The sum over two sets apart is the sum of their sums.
LEMMA SumApart ==
  ASSUME NEW S, IsFiniteSet(S), NEW R, IsFiniteSet(R), S \cap R = {},
         NEW f, \A x \in S \cup R : f[x] \in Int
  PROVE  SumFunctionOnSet(f, S \cup R) = SumFunctionOnSet(f, S) + SumFunctionOnSet(f, R)
<1>. DEFINE Sum(T) == SumFunctionOnSet(f, T)
            A == {T \in SUBSET S : Sum(T \cup R) = Sum(T) + Sum(R)}
<1>0. Sum(R) \in Int
  BY SumIsInt
<1>1. ASSUME NEW T \in SUBSET S, \A x \in T : T \ {x} \in A PROVE T \in A
  <2>1. CASE T = {}
    <3>1. T \cup R = R /\ Sum(T) = 0
      BY <2>1, SumNone
    <3>2. Sum(T \cup R) = Sum(R)
      BY <3>1
    <3>. QED
      BY <1>0, <3>1, <3>2
  <2>2. CASE T # {}
    <3>1. IsFiniteSet(T) /\ IsFiniteSet(T \cup R)
      BY FS_Subset, FS_Union
    <3>2. PICK x \in T : TRUE
      BY <2>2
    <3>3. Sum(T) = f[x] + Sum(T \ {x})
      BY <3>1, SumRemove
    <3>4. Sum(T \cup R) = f[x] + Sum((T \cup R) \ {x})
      <4>1. x \in T \cup R /\ \A y \in T \cup R : f[y] \in Int
        OBVIOUS
      <4>. QED
        BY <3>1, <4>1, SumRemove
    <3>5. (T \cup R) \ {x} = (T \ {x}) \cup R
      OBVIOUS
    <3>6. Sum((T \ {x}) \cup R) = Sum(T \ {x}) + Sum(R)
      BY <1>1
    <3>7. IsFiniteSet(T \ {x})
      BY <3>1, FS_Subset
    <3>8. f[x] \in Int /\ Sum(T \ {x}) \in Int
      BY <3>7, SumIsInt
    <3>9. Sum((T \cup R) \ {x}) = Sum((T \ {x}) \cup R)
      BY <3>5
    <3>. QED
      BY <1>0, <3>3, <3>4, <3>6, <3>8, <3>9
  <2>. QED
    BY <2>1, <2>2
<1>2. S \in SUBSET S
  OBVIOUS
<1>. HIDE DEF A
<1>3. S \in A
  BY <1>1, <1>2, TakingAway
<1>. QED
  BY <1>3 DEF A

\* Over a part of a set, naturals add up to no more.
LEMMA SumWithin ==
  ASSUME NEW S, IsFiniteSet(S), NEW T \in SUBSET S, NEW f, \A x \in S : f[x] \in Nat
  PROVE  SumFunctionOnSet(f, T) <= SumFunctionOnSet(f, S)
<1>1. IsFiniteSet(T) /\ IsFiniteSet(S \ T) /\ T \cap (S \ T) = {} /\ T \cup (S \ T) = S
  BY FS_Subset
<1>2. SumFunctionOnSet(f, S) = SumFunctionOnSet(f, T) + SumFunctionOnSet(f, S \ T)
  BY <1>1, SumApart
<1>3. SumFunctionOnSet(f, T) \in Nat /\ SumFunctionOnSet(f, S \ T) \in Nat
  BY <1>1, SumIsNat
<1>. QED
  BY <1>2, <1>3

\* A count is a sum of ones.
LEMMA SumOfOnes ==
  ASSUME NEW S, IsFiniteSet(S), NEW f, \A x \in S : f[x] = 1
  PROVE  SumFunctionOnSet(f, S) = Cardinality(S)
<1>. DEFINE Sum(T) == SumFunctionOnSet(f, T)
            A == {T \in SUBSET S : Sum(T) = Cardinality(T)}
<1>1. ASSUME NEW T \in SUBSET S, \A x \in T : T \ {x} \in A PROVE T \in A
  <2>1. CASE T = {}
    BY <2>1, SumNone, FS_EmptySet
  <2>2. CASE T # {}
    <3>1. IsFiniteSet(T) /\ \A x \in T : f[x] \in Int
      BY FS_Subset
    <3>2. PICK x \in T : Sum(T) = f[x] + Sum(T \ {x})
      BY <2>2, <3>1, SumFirst
    <3>3. Cardinality(T \ {x}) = Cardinality(T) - 1 /\ Cardinality(T) \in Nat
      BY <3>1, FS_RemoveElement, FS_CardinalityType
    <3>4. f[x] = 1 /\ Sum(T \ {x}) = Cardinality(T \ {x})
      BY <1>1
    <3>. QED
      BY <3>2, <3>3, <3>4
  <2>. QED
    BY <2>1, <2>2
<1>2. S \in SUBSET S
  OBVIOUS
<1>. HIDE DEF A
<1>3. S \in A
  BY <1>1, <1>2, TakingAway
<1>. QED
  BY <1>3 DEF A

\* Each total is the sum over the elements of one key.
GroupSums(totals, K, keyOf, f, S) ==
  \A k \in K : totals[k] = SumFunctionOnSet(f, {x \in S : keyOf[x] = k})

\* Each total is the count of the elements of one key.
GroupCounts(totals, K, keyOf, S) ==
  \A k \in K : totals[k] = Cardinality({x \in S : keyOf[x] = k})

\* The sums of the groups add up to the sum of the whole.
LEMMA SumOfGroups ==
  ASSUME NEW S, IsFiniteSet(S), NEW f, \A x \in S : f[x] \in Int,
         NEW K, IsFiniteSet(K), NEW keyOf, \A x \in S : keyOf[x] \in K,
         NEW totals, GroupSums(totals, K, keyOf, f, S)
  PROVE  SumFunctionOnSet(totals, K) = SumFunctionOnSet(f, S)
<1>. DEFINE In(L) == {x \in S : keyOf[x] \in L}
            A == {L \in SUBSET K : SumFunctionOnSet(totals, L) = SumFunctionOnSet(f, In(L))}
<1>4. \A k \in K : totals[k] = SumFunctionOnSet(f, {x \in S : keyOf[x] = k})
  BY DEF GroupSums
<1>0. \A T \in SUBSET S : IsFiniteSet(T) /\ SumFunctionOnSet(f, T) \in Int
  BY FS_Subset, SumIsInt
<1>1. ASSUME NEW L \in SUBSET K, \A k \in L : L \ {k} \in A PROVE L \in A
  <2>1. CASE L = {}
    <3>1. In(L) = {}
      BY <2>1
    <3>. QED
      BY <2>1, <3>1, SumNone
  <2>2. CASE L # {}
    <3>1. IsFiniteSet(L) /\ \A k \in L : totals[k] \in Int
      BY <1>0, <1>4, FS_Subset
    <3>2. PICK k \in L : SumFunctionOnSet(totals, L) = totals[k] + SumFunctionOnSet(totals, L \ {k})
      BY <2>2, <3>1, SumFirst
    <3>. DEFINE one == {x \in S : keyOf[x] = k}
                others == In(L \ {k})
    <3>3. one \cap others = {} /\ one \cup others = In(L) /\ one \in SUBSET S /\ others \in SUBSET S
      OBVIOUS
    <3>4. SumFunctionOnSet(f, one \cup others) = SumFunctionOnSet(f, one) + SumFunctionOnSet(f, others)
      <4>. HIDE DEF one, others
      <4>1. IsFiniteSet(one) /\ IsFiniteSet(others) /\ \A x \in one \cup others : f[x] \in Int
        BY <1>0, <3>3
      <4>. QED
        BY <3>3, <4>1, SumApart
    <3>5. SumFunctionOnSet(totals, L \ {k}) = SumFunctionOnSet(f, others)
      BY <1>1
    <3>6. totals[k] = SumFunctionOnSet(f, one)
      BY <1>4
    <3>. HIDE DEF one, others, In
    <3>7. SumFunctionOnSet(f, In(L)) = SumFunctionOnSet(f, one) + SumFunctionOnSet(f, others)
      BY <3>3, <3>4
    <3>. QED
      BY <3>2, <3>5, <3>6, <3>7
  <2>. QED
    BY <2>1, <2>2
<1>2. K \in SUBSET K /\ In(K) = S
  OBVIOUS
<1>. HIDE DEF A
<1>3. K \in A
  BY <1>1, <1>2, TakingAway
<1>. QED
  BY <1>2, <1>3 DEF A

\* The counts of the groups add up to the count of the whole.
LEMMA CountOfGroups ==
  ASSUME NEW S, IsFiniteSet(S), NEW K, IsFiniteSet(K), NEW keyOf, \A x \in S : keyOf[x] \in K,
         NEW totals, GroupCounts(totals, K, keyOf, S)
  PROVE  SumFunctionOnSet(totals, K) = Cardinality(S)
<1>1. PICK f : \A x \in S : f[x] = 1 /\ f[x] \in Int
  <2>. WITNESS [x \in S |-> 1]
  <2>. QED
    OBVIOUS
<1>2. \A T \in SUBSET S : SumFunctionOnSet(f, T) = Cardinality(T)
  <2>. TAKE T \in SUBSET S
  <2>1. IsFiniteSet(T) /\ \A x \in T : f[x] = 1
    BY <1>1, FS_Subset
  <2>. QED
    BY <2>1, SumOfOnes
<1>3. GroupSums(totals, K, keyOf, f, S)
  <2>1. \A k \in K : {x \in S : keyOf[x] = k} \in SUBSET S
    OBVIOUS
  <2>. QED
    BY <1>2, <2>1 DEF GroupSums, GroupCounts
<1>4. \A x \in S : f[x] \in Int
  BY <1>1
<1>5. SumFunctionOnSet(totals, K) = SumFunctionOnSet(f, S)
  BY <1>3, <1>4, SumOfGroups
<1>6. S \in SUBSET S
  OBVIOUS
<1>. QED
  BY <1>2, <1>5, <1>6

\* A finite set of integers that is not empty has a least and a greatest element.
LEMMA LeastAndMost ==
  ASSUME NEW S, IsFiniteSet(S), S # {}, S \subseteq Int
  PROVE  /\ Min(S) \in S /\ \A y \in S : Min(S) <= y
         /\ Max(S) \in S /\ \A y \in S : Max(S) >= y
<1>. DEFINE A == {T \in SUBSET S : T # {} => \E l, m \in T : \A y \in T : l <= y /\ m >= y}
<1>1. ASSUME NEW T \in SUBSET S, \A x \in T : T \ {x} \in A, T # {}
      PROVE  \E l, m \in T : \A y \in T : l <= y /\ m >= y
  <2>1. PICK x \in T : TRUE
    BY <1>1
  <2>2. CASE T \ {x} = {}
    <3>1. x \in Int /\ \A y \in T : y = x
      BY <2>2
    <3>3. x <= x /\ x >= x
      BY <3>1
    <3>2. \A y \in T : x <= y /\ x >= y
      BY <3>1, <3>3, Zenon
    <3>. QED
      BY <3>2
  <2>3. CASE T \ {x} # {}
    <3>1. PICK l \in T \ {x}, m \in T \ {x} : \A y \in T \ {x} : l <= y /\ m >= y
      BY <1>1, <2>3
    <3>. DEFINE least == IF x <= l THEN x ELSE l
                most == IF x >= m THEN x ELSE m
    <3>2. x \in Int /\ l \in Int /\ m \in Int /\ l \in T /\ m \in T
      OBVIOUS
    <3>3. \A y \in T : y \in Int /\ (y = x \/ (l <= y /\ m >= y))
      BY <3>1
    <3>4. \A y \in T : least <= y /\ most >= y
      BY <3>2, <3>3
    <3>5. least \in T /\ most \in T
      BY <3>2
    <3>. QED
      BY <3>4, <3>5
  <2>. QED
    BY <2>2, <2>3
<1>2. \A T \in SUBSET S : (\A x \in T : T \ {x} \in A) => T \in A
  BY <1>1
<1>3. S \in SUBSET S
  OBVIOUS
<1>. HIDE DEF A
<1>4. S \in A
  BY <1>2, <1>3, TakingAway
<1>5. \E l, m \in S : \A y \in S : l <= y /\ m >= y
  BY <1>4 DEF A
<1>. QED
  BY <1>5 DEF Min, Max

-----------------------------------------------------------------------------
(* Functions by recursion on the naturals: from a base, a step from each   *)
(* value to the next.                                                      *)

\* g starts at base and takes a step from each of its values to the next.
Walks(g, n, base, step) ==
  /\ g[0] = base
  /\ \A i \in 1..n : g[i] = step[i, g[i - 1]]

\* Two functions agree up to n when they agree at 0 and from each number to the next.
LEMMA WalksAgree ==
  ASSUME NEW n \in Nat, NEW g, NEW h, g[0] = h[0],
         \A i \in 1..n : g[i - 1] = h[i - 1] => g[i] = h[i]
  PROVE  \A i \in 0..n : g[i] = h[i]
<1>. DEFINE A == {i \in Nat : i <= n => g[i] = h[i]}
<1>1. 0 \in A
  OBVIOUS
<1>2. \A i \in A : i + 1 \in A
  <2>. SUFFICES ASSUME NEW i \in A, i + 1 <= n PROVE g[i + 1] = h[i + 1]
    OBVIOUS
  <2>1. i + 1 \in 1..n /\ (i + 1) - 1 = i /\ g[i] = h[i]
    OBVIOUS
  <2>. QED
    BY <2>1
<1>. HIDE DEF A
<1>3. \A i \in Nat : i \in A
  BY <1>1, <1>2, CountingUp
<1>. QED
  BY <1>3 DEF A

\* There is a walk of any length.
LEMMA WalkOfLength ==
  ASSUME NEW V, NEW base \in V, NEW step \in [Nat \X V -> V]
  PROVE  \A n \in Nat : \E g \in [0..n -> V] : Walks(g, n, base, step)
<1>. DEFINE A == {n \in Nat : \E g \in [0..n -> V] : Walks(g, n, base, step)}
<1>1. 0 \in A
  <2>. DEFINE g == [i \in 0..0 |-> base]
  <2>1. g \in [0..0 -> V] /\ Walks(g, 0, base, step)
    BY DEF Walks
  <2>. QED
    BY <2>1
<1>2. \A n \in A : n + 1 \in A
  <2>. SUFFICES ASSUME NEW n \in A PROVE \E g \in [0..n + 1 -> V] : Walks(g, n + 1, base, step)
    OBVIOUS
  <2>1. PICK g \in [0..n -> V] : Walks(g, n, base, step)
    OBVIOUS
  <2>. DEFINE h == [i \in 0..n + 1 |-> IF i = n + 1 THEN step[n + 1, g[n]] ELSE g[i]]
  <2>2. n \in 0..n /\ n + 1 \in Nat
    OBVIOUS
  <2>3. step[n + 1, g[n]] \in V
    BY <2>2
  <2>4. \A i \in 0..n + 1 : i # n + 1 => i \in 0..n
    OBVIOUS
  <2>5. h \in [0..n + 1 -> V]
    BY <2>3, <2>4
  <2>6. Walks(h, n + 1, base, step)
    <3>1. h[0] = base
      <4>1. 0 \in 0..n + 1 /\ 0 # n + 1
        OBVIOUS
      <4>2. h[0] = g[0]
        BY <4>1
      <4>. QED
        BY <2>1, <4>2 DEF Walks
    <3>2. ASSUME NEW i \in 1..n + 1 PROVE h[i] = step[i, h[i - 1]]
      <4>1. i - 1 \in 0..n /\ i - 1 \in 0..n + 1 /\ i - 1 # n + 1 /\ i \in 0..n + 1
        OBVIOUS
      <4>2. h[i - 1] = g[i - 1]
        BY <4>1
      <4>3. CASE i = n + 1
        <5>1. h[i] = step[n + 1, g[n]] /\ i - 1 = n
          BY <4>1, <4>3
        <5>. QED
          BY <4>2, <4>3, <5>1
      <4>4. CASE i # n + 1
        <5>1. i \in 1..n
          BY <4>4
        <5>2. g[i] = step[i, g[i - 1]] /\ h[i] = g[i]
          BY <2>1, <4>1, <4>4, <5>1 DEF Walks
        <5>. QED
          BY <4>2, <5>2
      <4>. QED
        BY <4>3, <4>4
    <3>. QED
      BY <3>1, <3>2 DEF Walks
  <2>. QED
    BY <2>5, <2>6
<1>. HIDE DEF A
<1>3. \A n \in Nat : n \in A
  BY <1>1, <1>2, CountingUp
<1>. QED
  BY <1>3 DEF A

\* The same as an equation, for a walk that ends at n and for one that does not end.
WalkTo(g, n, base, step) == g = [i \in 0..n |-> IF i = 0 THEN base ELSE step[i, g[i - 1]]]

\* One that goes on for ever.
WalkOn(g, base, step) == g = [i \in Nat |-> IF i = 0 THEN base ELSE step[i, g[i - 1]]]

\* There is one without an end.
LEMMA WalkExists ==
  ASSUME NEW V, NEW base \in V, NEW step \in [Nat \X V -> V]
  PROVE  \E g \in [Nat -> V] : WalkOn(g, base, step)
<1>. DEFINE W == [n \in Nat |-> CHOOSE g \in [0..n -> V] : Walks(g, n, base, step)]
            G == [n \in Nat |-> W[n][n]]
<1>1. ASSUME NEW n \in Nat PROVE W[n] \in [0..n -> V] /\ Walks(W[n], n, base, step)
  BY WalkOfLength
<1>. HIDE DEF W
<1>2. G \in [Nat -> V]
  BY <1>1
<1>3. G[0] = base
  BY <1>1 DEF Walks
<1>4. ASSUME NEW i \in Nat, i # 0 PROVE G[i] = step[i, G[i - 1]]
  <2>1. i - 1 \in Nat /\ i \in 1..i /\ i - 1 \in 0..(i - 1) /\ i \in Nat
    BY <1>4
  <2>2. \A k \in 0..(i - 1) : W[i][k] = W[i - 1][k]
    <3>1. W[i][0] = W[i - 1][0]
      BY <1>1, <2>1 DEF Walks
    <3>2. ASSUME NEW k \in 1..(i - 1), W[i][k - 1] = W[i - 1][k - 1] PROVE W[i][k] = W[i - 1][k]
      <4>1. k \in 1..i
        OBVIOUS
      <4>2. W[i][k] = step[k, W[i][k - 1]]
        BY <1>1, <4>1 DEF Walks
      <4>3. W[i - 1][k] = step[k, W[i - 1][k - 1]]
        BY <1>1, <2>1 DEF Walks
      <4>. QED
        BY <3>2, <4>2, <4>3
    <3>. QED
      BY <2>1, <3>1, <3>2, WalksAgree
  <2>3. W[i][i] = step[i, W[i][i - 1]]
    BY <1>1, <2>1 DEF Walks
  <2>. QED
    BY <2>1, <2>2, <2>3
<1>5. WalkOn(G, base, step)
  BY <1>3, <1>4 DEF WalkOn
<1>. QED
  BY <1>2, <1>5

\* And one that ends at n.
LEMMA WalkEnds ==
  ASSUME NEW n \in Nat, NEW V, NEW base \in V, NEW step \in [(1..n) \X V -> V]
  PROVE  \E g \in [0..n -> V] : WalkTo(g, n, base, step)
<1>. DEFINE more == [p \in Nat \X V |-> IF p[1] \in 1..n THEN step[p] ELSE p[2]]
<1>1. more \in [Nat \X V -> V]
  OBVIOUS
<1>2. PICK g \in [0..n -> V] : Walks(g, n, base, more)
  <2>. HIDE DEF more
  <2>. QED
    BY <1>1, WalkOfLength
<1>3. ASSUME NEW i \in 1..n PROVE g[i] = step[i, g[i - 1]]
  <2>1. i - 1 \in 0..n /\ i \in Nat
    OBVIOUS
  <2>2. g[i - 1] \in V
    BY <2>1
  <2>3. more[i, g[i - 1]] = step[i, g[i - 1]]
    BY <2>1, <2>2
  <2>. QED
    BY <1>2, <2>3 DEF Walks
<1>4. g[0] = base
  BY <1>2 DEF Walks
<1>5. ASSUME NEW i \in 0..n PROVE g[i] = IF i = 0 THEN base ELSE step[i, g[i - 1]]
  <2>1. i = 0 \/ i \in 1..n
    OBVIOUS
  <2>. QED
    BY <1>3, <1>4, <2>1
<1>. QED
  BY <1>5 DEF WalkTo

-----------------------------------------------------------------------------
(* Sequences.                                                              *)

\* One element more at the end of a sequence.
LEMMA AppendFacts ==
  ASSUME NEW X, NEW s \in Seq(X), NEW x \in X
  PROVE  /\ Append(s, x) \in Seq(X) /\ Len(Append(s, x)) = Len(s) + 1
         /\ ToSet(Append(s, x)) = ToSet(s) \cup {x}
         /\ IsInjective(s) /\ x \notin ToSet(s) => IsInjective(Append(s, x))
<1>1. Append(s, x) \in Seq(X) /\ Len(Append(s, x)) = Len(s) + 1
  OBVIOUS
<1>2. \A i \in 1..Len(s) + 1 : Append(s, x)[i] = IF i = Len(s) + 1 THEN x ELSE s[i]
  OBVIOUS
<1>3. DOMAIN Append(s, x) = 1..Len(s) + 1 /\ DOMAIN s = 1..Len(s)
      /\ Len(s) \in Nat
  OBVIOUS
<1>4. \A i : i \in 1..Len(s) + 1 <=> i \in 1..Len(s) \/ i = Len(s) + 1
  BY <1>3
<1>5. ToSet(Append(s, x)) = ToSet(s) \cup {x}
  <2>1. \A i \in 1..Len(s) : i # Len(s) + 1
    BY <1>3
  <2>. QED
    BY <1>2, <1>3, <1>4, <2>1 DEF ToSet
<1>6. ASSUME IsInjective(s), x \notin ToSet(s) PROVE IsInjective(Append(s, x))
  BY <1>2, <1>3, <1>4, <1>6 DEF IsInjective, ToSet
<1>. QED
  BY <1>1, <1>5, <1>6

\* One sequence after another.
LEMMA ConcatFacts ==
  ASSUME NEW X, NEW a \in Seq(X), NEW b \in Seq(X)
  PROVE  /\ a \o b \in Seq(X) /\ Len(a \o b) = Len(a) + Len(b)
         /\ ToSet(a \o b) = ToSet(a) \cup ToSet(b)
         /\ IsInjective(a) /\ IsInjective(b) /\ ToSet(a) \cap ToSet(b) = {} => IsInjective(a \o b)
         /\ \A i \in DOMAIN a : i \in DOMAIN (a \o b) /\ (a \o b)[i] = a[i]
<1>1. /\ a \o b \in Seq(X) /\ Len(a \o b) = Len(a) + Len(b)
      /\ Len(a) \in Nat /\ Len(b) \in Nat
      /\ DOMAIN a = 1..Len(a) /\ DOMAIN b = 1..Len(b) /\ DOMAIN (a \o b) = 1..Len(a) + Len(b)
  OBVIOUS
<1>2. \A i \in 1..Len(a) : i \in 1..Len(a) + Len(b) /\ (a \o b)[i] = a[i]
  BY <1>1
<1>3. \A i \in 1..Len(b) : i + Len(a) \in 1..Len(a) + Len(b) /\ (a \o b)[i + Len(a)] = b[i]
  BY <1>1
<1>4. \A i \in 1..Len(a) + Len(b) :
        \/ i \in 1..Len(a) /\ (a \o b)[i] = a[i]
        \/ \E j \in 1..Len(b) : i = j + Len(a) /\ (a \o b)[i] = b[j]
  <2>. TAKE i \in 1..Len(a) + Len(b)
  <2>1. CASE i <= Len(a)
    BY <1>1, <1>2, <2>1
  <2>2. CASE i > Len(a)
    <3>1. i - Len(a) \in 1..Len(b) /\ i = (i - Len(a)) + Len(a)
      BY <1>1, <2>2
    <3>. QED
      BY <1>3, <3>1
  <2>. QED
    BY <1>1, <2>1, <2>2
<1>. DEFINE c == a \o b
            m == Len(a)
            n == Len(b)
<1>5. /\ DOMAIN a = 1..m /\ DOMAIN b = 1..n /\ DOMAIN c = 1..m + n
      /\ \A i \in 1..m : i \in 1..m + n /\ c[i] = a[i]
      /\ \A i \in 1..n : i + m \in 1..m + n /\ c[i + m] = b[i]
      /\ \A i \in 1..m + n : \/ i \in 1..m /\ c[i] = a[i]
                             \/ \E j \in 1..n : i = j + m /\ c[i] = b[j]
  BY <1>1, <1>2, <1>3, <1>4
<1>. HIDE DEF c, m, n
<1>6. ToSet(c) = ToSet(a) \cup ToSet(b)
  <2>1. ASSUME NEW x \in ToSet(c) PROVE x \in ToSet(a) \cup ToSet(b)
    BY <1>5, <2>1 DEF ToSet
  <2>2. ASSUME NEW x \in ToSet(a) PROVE x \in ToSet(c)
    BY <1>5, <2>2 DEF ToSet
  <2>3. ASSUME NEW x \in ToSet(b) PROVE x \in ToSet(c)
    BY <1>5, <2>3 DEF ToSet
  <2>. QED
    BY <2>1, <2>2, <2>3
<1>7. ASSUME IsInjective(a), IsInjective(b), ToSet(a) \cap ToSet(b) = {} PROVE IsInjective(c)
  <2>. SUFFICES ASSUME NEW i \in 1..m + n, NEW j \in 1..m + n, c[i] = c[j] PROVE i = j
    BY <1>5 DEF IsInjective
  <2>1. \A k \in 1..m, l \in 1..n : a[k] # b[l]
    <3>1. (\A k \in 1..m : a[k] \in ToSet(a)) /\ (\A l \in 1..n : b[l] \in ToSet(b))
      BY <1>5 DEF ToSet
    <3>. QED
      BY <1>7, <3>1
  <2>2. CASE i \in 1..m /\ c[i] = a[i] /\ j \in 1..m /\ c[j] = a[j]
    BY <1>5, <1>7, <2>2 DEF IsInjective
  <2>3. CASE (\E k \in 1..n : i = k + m /\ c[i] = b[k]) /\ \E k \in 1..n : j = k + m /\ c[j] = b[k]
    <3>1. PICK k \in 1..n, l \in 1..n : i = k + m /\ c[i] = b[k] /\ j = l + m /\ c[j] = b[l]
      BY <2>3
    <3>2. k = l
      BY <1>5, <1>7, <3>1 DEF IsInjective
    <3>. QED
      BY <3>1, <3>2
  <2>4. CASE i \in 1..m /\ c[i] = a[i] /\ \E k \in 1..n : j = k + m /\ c[j] = b[k]
    BY <2>1, <2>4
  <2>5. CASE j \in 1..m /\ c[j] = a[j] /\ \E k \in 1..n : i = k + m /\ c[i] = b[k]
    BY <2>1, <2>5
  <2>. QED
    BY <1>5, <2>2, <2>3, <2>4, <2>5
<1>. QED
  BY <1>1, <1>5, <1>6, <1>7 DEF c, m, n

\* Sequences after one another.
LEMMA FlattenFacts ==
  ASSUME NEW X, NEW ss \in Seq(Seq(X))
  PROVE  /\ FlattenSeq(ss) \in Seq(X)
         /\ (\A i \in DOMAIN ss : ss[i] = <<>>) => FlattenSeq(ss) = <<>>
<1>. DEFINE n == Len(ss)
            F(g) == g = [i \in 1..n |-> IF i = 1 THEN ss[i] ELSE g[i - 1] \o ss[i]]
            flat == CHOOSE g : F(g)
            step == [p \in (1..n) \X Seq(X) |-> p[2] \o ss[p[1]]]
<1>1. n \in Nat /\ DOMAIN ss = 1..n /\ <<>> \in Seq(X)
  OBVIOUS
<1>2. CASE n = 0
  <2>1. ss = <<>>
    BY <1>2
  <2>2. FlattenSeq(ss) = <<>>
    BY <1>2, <2>1 DEF FlattenSeq
  <2>. QED
    BY <1>1, <2>2
<1>3. CASE n # 0
  <2>1. FlattenSeq(ss) = flat[n]
    BY <1>3 DEF FlattenSeq
  <2>2. step \in [(1..n) \X Seq(X) -> Seq(X)]
    OBVIOUS
  <2>3. \E g : F(g)
    <3>1. PICK g \in [0..n -> Seq(X)] : WalkTo(g, n, <<>>, step)
      <4>. HIDE DEF step, n
      <4>. QED
        BY <1>1, <2>2, WalkEnds
    <3>. DEFINE h == [i \in 1..n |-> g[i]]
    <3>9. \A i \in 1..n : i \in 0..n /\ i # 0 /\ i - 1 \in 0..n
      BY <1>1
    <3>10. \A i \in 1..n : g[i - 1] \in Seq(X)
      BY <3>9
    <3>11. \A i \in 1..n : ss[i] \in Seq(X)
      BY <1>1
    <3>2. \A i \in 1..n : i \in 0..n /\ i # 0 /\ i - 1 \in 0..n /\ ss[i] \in Seq(X) /\ g[i - 1] \in Seq(X)
      BY <3>9, <3>10, <3>11
    <3>3. \A i \in 1..n : step[i, g[i - 1]] = g[i - 1] \o ss[i]
      BY <3>2
    <3>. HIDE DEF step, n
    <3>4. \A i \in 1..n : g[i] = g[i - 1] \o ss[i]
      BY <3>1, <3>2, <3>3 DEF WalkTo
    <3>5. g[0] = <<>>
      <4>1. 0 \in 0..n
        BY <1>1
      <4>. QED
        BY <3>1, <4>1 DEF WalkTo
    <3>6. \A i \in 1..n : i # 1 => i - 1 \in 1..n
      BY <1>1
    <3>7. \A i \in 1..n : i = 1 => g[i] = ss[i]
      <4>1. \A i \in 1..n : <<>> \o ss[i] = ss[i]
        BY <3>2
      <4>2. \A i \in 1..n : i = 1 => g[i - 1] = <<>>
        BY <3>5
      <4>3. \A i \in 1..n : i = 1 => g[i] = <<>> \o ss[i]
        BY <3>4, <4>2
      <4>. QED
        BY <4>1, <4>3
    <3>8. \A i \in 1..n : i # 1 => h[i] = h[i - 1] \o ss[i]
      BY <3>4, <3>6
    <3>. QED
      BY <3>7, <3>8
  <2>. HIDE DEF F
  <2>4. F(flat)
    BY <2>3
  <2>. HIDE DEF flat
  <2>5. \A i \in 1..n : flat[i] = IF i = 1 THEN ss[i] ELSE flat[i - 1] \o ss[i]
    BY <2>4 DEF F
  <2>. DEFINE P(i) == flat[i] \in Seq(X) /\ ((\A j \in DOMAIN ss : ss[j] = <<>>) => flat[i] = <<>>)
              A == {i \in Nat : i = 0 \/ i > n \/ P(i)}
  <2>. HIDE DEF P, n
  <2>6. 0 \in A
    OBVIOUS
  <2>7. \A i \in A : i + 1 \in A
    <3>. SUFFICES ASSUME NEW i \in A, i + 1 <= n PROVE P(i + 1)
      BY <1>1
    <3>1. i + 1 \in 1..n /\ (i + 1) - 1 = i /\ ss[i + 1] \in Seq(X) /\ (i = 0 <=> i + 1 = 1)
      BY <1>1
    <3>2. flat[i + 1] = IF i = 0 THEN ss[i + 1] ELSE flat[i] \o ss[i + 1]
      BY <2>5, <3>1
    <3>3. i = 0 \/ P(i)
      BY <1>1
    <3>4. CASE i = 0
      BY <1>1, <3>1, <3>2, <3>4 DEF P
    <3>5. CASE i # 0
      <4>1. P(i) /\ flat[i + 1] = flat[i] \o ss[i + 1]
        BY <3>2, <3>3, <3>5
      <4>2. flat[i] \in Seq(X)
        BY <4>1 DEF P
      <4>3. flat[i + 1] \in Seq(X)
        BY <3>1, <4>1, <4>2
      <4>4. ASSUME \A j \in DOMAIN ss : ss[j] = <<>> PROVE flat[i + 1] = <<>>
        <5>1. flat[i] = <<>> /\ ss[i + 1] = <<>>
          BY <1>1, <3>1, <4>1, <4>4 DEF P
        <5>2. <<>> \o <<>> = <<>>
          OBVIOUS
        <5>. QED
          BY <4>1, <5>1, <5>2
      <4>. QED
        BY <4>3, <4>4 DEF P
    <3>. QED
      BY <3>4, <3>5
  <2>. HIDE DEF A
  <2>8. \A i \in Nat : i \in A
    BY <2>6, <2>7, CountingUp
  <2>9. P(n)
    BY <1>1, <1>3, <2>8 DEF A
  <2>. QED
    BY <2>1, <2>9 DEF P
<1>. QED
  BY <1>2, <1>3

\* Sequences of a few words.
LEMMA ThreeWords ==
  ASSUME NEW X, NEW a \in X, NEW b \in X
  PROVE  <<a, b, b>> \in Seq(X) /\ <<b>> \in Seq(X)
OBVIOUS

\* A part of a sequence has what the sequence has there.
LEMMA PartFacts ==
  ASSUME NEW X, NEW s \in Seq(X), NEW a \in Nat \ {0}, NEW b \in Nat, b <= Len(s), a <= b + 1
  PROVE  /\ SubSeq(s, a, b) \in Seq(X) /\ Len(SubSeq(s, a, b)) = b - a + 1
         /\ \A i \in 1 .. b - a + 1 : SubSeq(s, a, b)[i] = s[a + i - 1]
         /\ \A e : Contains(SubSeq(s, a, b), e) <=> \E i \in a..b : s[i] = e
<1>. DEFINE p == SubSeq(s, a, b)
            n == b - a + 1
<1>1. p \in Seq(X) /\ Len(p) = n
  OBVIOUS
<1>2. \A i \in 1..n : p[i] = s[a + i - 1]
  OBVIOUS
<1>. HIDE DEF p
<1>3. ASSUME NEW e PROVE Contains(p, e) <=> \E i \in a..b : s[i] = e
  <2>1. ASSUME Contains(p, e) PROVE \E i \in a..b : s[i] = e
    <3>1. PICK i \in 1..n : p[i] = e
      BY <1>1, <2>1 DEF Contains
    <3>2. a + i - 1 \in a..b
      OBVIOUS
    <3>. QED
      BY <1>2, <3>1, <3>2
  <2>2. ASSUME NEW i \in a..b, s[i] = e PROVE Contains(p, e)
    <3>1. i - a + 1 \in 1..n /\ a + (i - a + 1) - 1 = i
      OBVIOUS
    <3>2. p[i - a + 1] = e
      BY <1>2, <2>2, <3>1
    <3>. QED
      BY <1>1, <3>1, <3>2 DEF Contains
  <2>. QED
    BY <2>1, <2>2
<1>. QED
  BY <1>1, <1>2, <1>3 DEF p

\* Two sequences are equal when they have the same length and elements.
LEMMA SameSequence ==
  ASSUME NEW X, NEW s \in Seq(X), NEW t \in Seq(X), Len(s) = Len(t),
         \A i \in 1..Len(s) : s[i] = t[i]
  PROVE  s = t
OBVIOUS

\* A sequence begins another.
LEMMA PrefixIs ==
  ASSUME NEW X, NEW s \in Seq(X), NEW t \in Seq(X)
  PROVE  IsPrefix(s, t) <=> Len(s) <= Len(t) /\ \A i \in 1..Len(s) : s[i] = t[i]
<1>1. Len(s) \in Nat /\ Len(t) \in Nat
  OBVIOUS
<1>. SUFFICES ASSUME Len(s) <= Len(t)
              PROVE  SubSeq(s, 1, Len(s)) = SubSeq(t, 1, Len(s)) <=> \A i \in 1..Len(s) : s[i] = t[i]
  BY DEF IsPrefix
<1>. DEFINE n == Len(s)
            p == SubSeq(s, 1, n)
            q == SubSeq(t, 1, n)
<1>2. /\ p \in Seq(X) /\ Len(p) = n /\ \A i \in 1..n : p[i] = s[i]
      /\ q \in Seq(X) /\ Len(q) = n /\ \A i \in 1..n : q[i] = t[i]
  OBVIOUS
<1>. HIDE DEF p, q, n
<1>3. ASSUME \A i \in 1..n : s[i] = t[i] PROVE p = q
  <2>1. \A i \in 1..Len(p) : p[i] = q[i]
    BY <1>2, <1>3
  <2>. QED
    BY <1>2, <2>1, SameSequence
<1>. QED
  BY <1>2, <1>3 DEF p, q, n

\* It ends another.
LEMMA SuffixIs ==
  ASSUME NEW X, NEW s \in Seq(X), NEW t \in Seq(X)
  PROVE  IsSuffix(s, t) <=> /\ Len(s) <= Len(t)
                            /\ \A i \in 1..Len(s) : s[i] = t[Len(t) - Len(s) + i]
<1>. DEFINE m == Len(s)
            n == Len(t)
            r == Reverse(s)
            q == Reverse(t)
<1>1. m \in Nat /\ n \in Nat
  OBVIOUS
<1>2. /\ r \in Seq(X) /\ Len(r) = m /\ \A i \in 1..m : r[i] = s[m - i + 1]
      /\ q \in Seq(X) /\ Len(q) = n /\ \A i \in 1..n : q[i] = t[n - i + 1]
  BY DEF Reverse
<1>. HIDE DEF r, q, m, n
<1>3. IsSuffix(s, t) <=> m <= n /\ \A i \in 1..m : r[i] = q[i]
  <2>1. IsPrefix(r, q) <=> Len(r) <= Len(q) /\ \A i \in 1..Len(r) : r[i] = q[i]
    <3>1. r \in Seq(X) /\ q \in Seq(X)
      BY <1>2
    <3>. QED
      BY <3>1, PrefixIs
  <2>. QED
    BY <1>2, <2>1 DEF IsSuffix, r, q
<1>4. ASSUME m <= n, \A i \in 1..m : r[i] = q[i], NEW i \in 1..m PROVE s[i] = t[n - m + i]
  <2>1. m - i + 1 \in 1..m /\ m - i + 1 \in 1..n /\ m - (m - i + 1) + 1 = i
        /\ n - (m - i + 1) + 1 = n - m + i
    BY <1>1, <1>4
  <2>. QED
    BY SMTT(40), <1>2, <1>4, <2>1
<1>5. ASSUME m <= n, \A i \in 1..m : s[i] = t[n - m + i], NEW i \in 1..m PROVE r[i] = q[i]
  <2>1. m - i + 1 \in 1..m /\ i \in 1..n /\ n - m + (m - i + 1) = n - i + 1
    BY <1>1, <1>5
  <2>2. r[i] = s[m - i + 1] /\ q[i] = t[n - i + 1]
    BY <1>2, <2>1
  <2>3. s[m - i + 1] = t[n - m + (m - i + 1)]
    BY <1>5, <2>1
  <2>. QED
    BY <2>1, <2>2, <2>3
<1>. QED
  BY <1>3, <1>4, <1>5 DEF m, n

\* An end of an end is an end.
LEMMA SuffixOfSuffix ==
  ASSUME NEW X, NEW s \in Seq(X), NEW t \in Seq(X), NEW u \in Seq(X), IsSuffix(s, t), IsSuffix(t, u)
  PROVE  IsSuffix(s, u)
<1>1. Len(s) \in Nat /\ Len(t) \in Nat /\ Len(u) \in Nat
  OBVIOUS
<1>2. /\ Len(s) <= Len(t) /\ \A i \in 1..Len(s) : s[i] = t[Len(t) - Len(s) + i]
      /\ Len(t) <= Len(u) /\ \A i \in 1..Len(t) : t[i] = u[Len(u) - Len(t) + i]
  BY SuffixIs
<1>3. ASSUME NEW i \in 1..Len(s) PROVE s[i] = u[Len(u) - Len(s) + i]
  <2>1. Len(t) - Len(s) + i \in 1..Len(t)
        /\ Len(u) - Len(t) + (Len(t) - Len(s) + i) = Len(u) - Len(s) + i
    BY <1>1, <1>2
  <2>. QED
    BY <1>2, <2>1
<1>4. Len(s) <= Len(u)
  BY <1>1, <1>2
<1>. QED
  BY <1>3, <1>4, SuffixIs

\* A sequence ends itself.
LEMMA SuffixOfItself ==
  ASSUME NEW X, NEW s \in Seq(X)
  PROVE  IsSuffix(s, s)
<1>1. \A i \in 1..Len(s) : s[i] = s[Len(s) - Len(s) + i]
  OBVIOUS
<1>2. Len(s) <= Len(s)
  OBVIOUS
<1>. QED
  BY <1>1, <1>2, SuffixIs

=============================================================================
