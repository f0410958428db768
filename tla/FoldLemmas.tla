------------------------------ MODULE FoldLemmas ------------------------------
(***************************************************************************)
(* Induction over the naturals and recursion over a finite range or a      *)
(* finite set, in terms of sets and functions: no fact here has an operator *)
(* as a parameter.                                                         *)
(***************************************************************************)
EXTENDS Integers, FiniteSets, Sequences, SequencesExt, FiniteSetTheorems,
        WellFoundedInduction, TLAPS

\* Every set of naturals that is not empty has a least element.
LEMMA LeastNatural ==
    ASSUME NEW T \in SUBSET Nat, T # {}
    PROVE  \E x \in T : \A y \in T : x <= y
  <1>. DEFINE R == OpToRel(<, Nat)
  <1>1. IsWellFoundedOn(R, Nat)
    BY NatLessThanWellFounded, Zenon
  <1>2. \A x, y \in Nat : x < y => <<x, y>> \in R
    BY DEF OpToRel
  <1>. HIDE DEF R
  <1>3. PICK x \in T : \A y \in T : ~(<<y, x>> \in R)
    BY <1>1, WFMin
  <1>4. \A y \in T : ~(y < x)
    BY <1>2, <1>3
  <1>. QED  BY <1>4

\* Every set of numbers up to n that is not empty has a largest element.
LEMMA LargestOfRange ==
    ASSUME NEW n \in Nat, NEW T \in SUBSET (1..n), T # {}
    PROVE  \E x \in T : \A y \in T : x >= y
  <1>. DEFINE U == {n - x : x \in T}
  <1>1. U \in SUBSET Nat /\ U # {}
    <2>1. \A x \in T : x \in 1..n
      OBVIOUS
    <2>2. \A x \in T : n - x \in Nat
      BY <2>1
    <2>3. PICK x : x \in T
      OBVIOUS
    <2>4. n - x \in U
      BY <2>3
    <2>. QED  BY <2>2, <2>4
  <1>2. PICK u \in U : \A v \in U : u <= v
    <2>. HIDE DEF U
    <2>. QED  BY <1>1, LeastNatural
  <1>3. PICK x \in T : u = n - x
    BY <1>2
  <1>4. ASSUME NEW y \in T
        PROVE  x >= y
    <2>1. n - y \in U /\ x \in 1..n /\ y \in 1..n
      OBVIOUS
    <2>2. n - x <= n - y
      BY <1>2, <1>3, <2>1
    <2>. QED  BY <2>1, <2>2
  <1>. QED  BY <1>4

\* Induction: a set that holds 0 and with every natural the next one holds all of them.
LEMMA Induction ==
    ASSUME NEW S, 0 \in S, \A n \in Nat : n \in S => n + 1 \in S
    PROVE  \A n \in Nat : n \in S
  <1>. SUFFICES ASSUME NEW T, T = {n \in Nat : n \notin S}, T # {}
                PROVE  FALSE
    OBVIOUS
  <1>1. PICK x \in T : \A y \in T : x <= y
    BY LeastNatural
  <1>2. x \in Nat /\ x # 0 /\ x - 1 \in Nat /\ x - 1 \notin T
    BY <1>1
  <1>. QED  BY <1>1, <1>2

StepsUp(t, n, a, G) ==
    t = [i \in 0..n |-> IF i = 0 THEN a ELSE G[<<i, t[i - 1]>>]]

\* A function over 0..n that each value determines the next of.
LEMMA RecursionOverRange ==
    ASSUME NEW n \in Nat, NEW X, NEW a \in X, NEW G \in [(1..n) \X X -> X]
    PROVE  \E t \in [0..n -> X] : StepsUp(t, n, a, G)
  <1>. DEFINE Next(t) == [i \in 0..n |-> IF i = 0 THEN a ELSE G[<<i, t[i - 1]>>]]
              S == {m \in Nat : \E t \in [0..n -> X] :
                       \A i \in 0..n : i <= m => t[i] = Next(t)[i]}
  <1>1. \A t \in [0..n -> X] : Next(t) \in [0..n -> X]
    OBVIOUS
  <1>2. 0 \in S
    <2>. DEFINE u == [i \in 0..n |-> a]
    <2>1. u \in [0..n -> X]
      OBVIOUS
    <2>2. \A i \in 0..n : i <= 0 => u[i] = Next(u)[i]
      OBVIOUS
    <2>. HIDE DEF u
    <2>. QED  BY <2>1, <2>2
  <1>3. ASSUME NEW m \in Nat, m \in S
        PROVE  m + 1 \in S
    <2>1. PICK t \in [0..n -> X] : \A i \in 0..n : i <= m => t[i] = Next(t)[i]
      BY <1>3
    <2>. DEFINE u == Next(t)
    <2>2. u \in [0..n -> X]
      BY <1>1
    <2>3. ASSUME NEW i \in 0..n, i <= m + 1
          PROVE  u[i] = Next(u)[i]
      <3>1. CASE i = 0
        BY <3>1
      <3>2. CASE i # 0
        <4>1. i - 1 \in 0..n /\ i - 1 <= m
          BY <3>2, <2>3
        <4>2. t[i - 1] = u[i - 1]
          BY <4>1, <2>1
        <4>3. u[i] = G[<<i, t[i - 1]>>] /\ Next(u)[i] = G[<<i, u[i - 1]>>]
          BY <3>2
        <4>. QED  BY <4>2, <4>3
      <3>. QED  BY <3>1, <3>2
    <2>. HIDE DEF u
    <2>. QED  BY <2>2, <2>3
  <1>4. n \in S
    <2>. HIDE DEF S
    <2>. QED  BY <1>2, <1>3, Induction
  <1>5. PICK t \in [0..n -> X] : \A i \in 0..n : t[i] = Next(t)[i]
    BY <1>4
  <1>6. t = Next(t)
    BY <1>1, <1>5
  <1>. QED  BY <1>6 DEF StepsUp

\* pick chooses an element of every subset of D that has one.
Picks(pick, D) == \A s \in SUBSET D : s # {} => pick[s] \in s

TakesOneAway(t, D, a, G, pick) ==
    t = [s \in SUBSET D |-> IF s = {} THEN a ELSE G[<<pick[s], t[s \ {pick[s]}]>>]]

\* A function over the subsets of a finite set that takes one element away at a time.
LEMMA RecursionOverSubsets ==
    ASSUME NEW D, IsFiniteSet(D), NEW X, NEW a \in X, NEW G \in [D \X X -> X],
           NEW pick, Picks(pick, D)
    PROVE  \E t \in [SUBSET D -> X] : TakesOneAway(t, D, a, G, pick)
  <1>. DEFINE Next(t) == [s \in SUBSET D |-> IF s = {} THEN a
                                             ELSE G[<<pick[s], t[s \ {pick[s]}]>>]]
              S == {m \in Nat : \E t \in [SUBSET D -> X] :
                       \A s \in SUBSET D : Cardinality(s) <= m => t[s] = Next(t)[s]}
  <1>1. ASSUME NEW t \in [SUBSET D -> X]
        PROVE  Next(t) \in [SUBSET D -> X]
    <2>1. ASSUME NEW s \in SUBSET D, s # {}
          PROVE  G[<<pick[s], t[s \ {pick[s]}]>>] \in X
      <3>1. pick[s] \in D /\ s \ {pick[s]} \in SUBSET D
        BY <2>1 DEF Picks
      <3>. QED  BY <3>1
    <2>. QED  BY <2>1
  <1>2. \A s \in SUBSET D : /\ IsFiniteSet(s) /\ Cardinality(s) \in Nat
                            /\ Cardinality(s) <= Cardinality(D)
    BY FS_Subset, FS_CardinalityType
  <1>3. 0 \in S
    <2>. DEFINE u == [s \in SUBSET D |-> a]
    <2>1. u \in [SUBSET D -> X]
      OBVIOUS
    <2>2. \A s \in SUBSET D : Cardinality(s) <= 0 => s = {}
      BY <1>2, FS_EmptySet
    <2>3. \A s \in SUBSET D : Cardinality(s) <= 0 => u[s] = Next(u)[s]
      BY <2>2
    <2>. HIDE DEF u
    <2>4. \E t \in [SUBSET D -> X] :
             \A s \in SUBSET D : Cardinality(s) <= 0 => t[s] = Next(t)[s]
      BY <2>1, <2>3, Zenon
    <2>. QED  BY <2>4, Zenon
  <1>4. ASSUME NEW m \in Nat, m \in S
        PROVE  m + 1 \in S
    <2>1. PICK t \in [SUBSET D -> X] :
             \A s \in SUBSET D : Cardinality(s) <= m => t[s] = Next(t)[s]
      BY <1>4
    <2>. DEFINE u == Next(t)
    <2>2. u \in [SUBSET D -> X]
      BY <1>1
    <2>3. ASSUME NEW s \in SUBSET D, Cardinality(s) <= m + 1
          PROVE  u[s] = Next(u)[s]
      <3>1. CASE s = {}
        BY <3>1
      <3>2. CASE s # {}
        <4>. DEFINE r == s \ {pick[s]}
        <4>1. r \in SUBSET D /\ pick[s] \in s
          BY <3>2 DEF Picks
        <4>2. Cardinality(r) <= m
          BY <4>1, <1>2, <2>3, FS_RemoveElement
        <4>3. t[r] = u[r]
          BY <4>1, <4>2, <2>1
        <4>4. u[s] = G[<<pick[s], t[r]>>] /\ Next(u)[s] = G[<<pick[s], u[r]>>]
          BY <3>2
        <4>. QED  BY <4>3, <4>4
      <3>. QED  BY <3>1, <3>2
    <2>. HIDE DEF u
    <2>4. \E v \in [SUBSET D -> X] :
             \A s \in SUBSET D : Cardinality(s) <= m + 1 => v[s] = Next(v)[s]
      BY <2>2, <2>3, Zenon
    <2>5. m + 1 \in Nat
      OBVIOUS
    <2>. QED  BY <2>4, <2>5, Zenon
  <1>5. Cardinality(D) \in S
    <2>. HIDE DEF S
    <2>. QED  BY <1>3, <1>4, Induction, FS_CardinalityType
  <1>6. PICK t \in [SUBSET D -> X] : \A s \in SUBSET D : t[s] = Next(t)[s]
    BY <1>2, <1>5
  <1>7. t = Next(t)
    BY <1>1, <1>6
  <1>. QED  BY <1>7 DEF TakesOneAway
---------------------------------------------------------------------------
(* Sums.  The folds over sequences and sets that the modules use take one  *)
(* element away at a time, in an order of their own.                       *)

\* t[s] is the sum of n over s, for the subsets s of D.
Adds(t, D, n, pick) ==
    \A s \in SUBSET D : t[s] = IF s = {} THEN 0 ELSE t[s \ {pick[s]}] + n[pick[s]]

IsSum(v, D, n) == \E pick, t : Picks(pick, D) /\ Adds(t, D, n, pick) /\ v = t[D]

Summing(t, D, n, pick) ==
    t = [s \in SUBSET D |-> IF s = {} THEN 0 ELSE t[s \ {pick[s]}] + n[pick[s]]]

\* The recursion that a fold stands for has a solution.
LEMMA SumExists ==
    ASSUME NEW D, IsFiniteSet(D), NEW n \in [D -> Int], NEW pick, Picks(pick, D)
    PROVE  \E t : Summing(t, D, n, pick)
  <1>. DEFINE G == [p \in D \X Int |-> p[2] + n[p[1]]]
  <1>1. G \in [D \X Int -> Int]
    OBVIOUS
  <1>2. \A x \in D, v \in Int : G[<<x, v>>] = v + n[x]
    OBVIOUS
  <1>. HIDE DEF G
  <1>3. PICK t \in [SUBSET D -> Int] : TakesOneAway(t, D, 0, G, pick)
    <2>1. 0 \in Int
      OBVIOUS
    <2>. QED  BY <1>1, <2>1, RecursionOverSubsets
  <1>4. ASSUME NEW s \in SUBSET D, s # {}
        PROVE  G[<<pick[s], t[s \ {pick[s]}]>>] = t[s \ {pick[s]}] + n[pick[s]]
    <2>1. pick[s] \in D /\ s \ {pick[s]} \in SUBSET D
      BY <1>4 DEF Picks
    <2>. QED  BY <1>2, <2>1
  <1>5. Summing(t, D, n, pick)
    BY <1>3, <1>4 DEF TakesOneAway, Summing
  <1>. QED  BY <1>5

\* A sum does not depend on the order: any element may be the last.
LEMMA AddsInAnyOrder ==
    ASSUME NEW D, IsFiniteSet(D), NEW n, \A x \in D : n[x] \in Int,
           NEW pick, Picks(pick, D), NEW t, Adds(t, D, n, pick)
    PROVE  \A s \in SUBSET D : /\ t[s] \in Int
                              /\ \A x \in s : t[s] = t[s \ {x}] + n[x]
  <1>. DEFINE Right(s) == /\ t[s] \in Int
                          /\ \A x \in s : t[s] = t[s \ {x}] + n[x]
              S == {m \in Nat : \A s \in SUBSET D : Cardinality(s) <= m => Right(s)}
  <1>1. \A s \in SUBSET D : /\ IsFiniteSet(s) /\ Cardinality(s) \in Nat
                            /\ Cardinality(s) <= Cardinality(D)
    BY FS_Subset, FS_CardinalityType
  <1>2. Right({})
    BY DEF Adds
  <1>3. \A s \in SUBSET D : Cardinality(s) <= 0 => s = {}
    BY <1>1, FS_EmptySet
  <1>4. 0 \in S
    BY <1>2, <1>3
  <1>5. ASSUME NEW m \in Nat, \A s \in SUBSET D : Cardinality(s) <= m => Right(s),
               NEW s \in SUBSET D, Cardinality(s) <= m + 1
        PROVE  Right(s)
    <2>1. CASE s = {}
      BY <1>2, <2>1
    <2>2. CASE s # {}
      <3>. DEFINE y == pick[s]
      <3>1. y \in s /\ t[s] = t[s \ {y}] + n[y]
        BY <2>2 DEF Picks, Adds
      <3>. HIDE DEF y
      <3>2. \A x \in s : s \ {x} \in SUBSET D /\ Cardinality(s \ {x}) <= m
        BY <1>1, <1>5, FS_RemoveElement
      <3>3. \A x \in s : Right(s \ {x}) /\ n[x] \in Int
        BY <1>5, <3>2
      <3>4. ASSUME NEW x \in s, x # y
            PROVE  t[s] = t[s \ {x}] + n[x]
        <4>1. x \in s \ {y} /\ y \in s \ {x} /\ (s \ {x}) \ {y} = (s \ {y}) \ {x}
          BY <3>1, <3>4
        <4>. DEFINE r == (s \ {y}) \ {x}
        <4>2. t[s \ {y}] = t[r] + n[x] /\ t[s \ {x}] = t[r] + n[y]
          BY <3>1, <3>3, <4>1
        <4>3. r \in SUBSET D /\ Cardinality(r) <= m
          <5>1. s \ {y} \in SUBSET D /\ Cardinality(s \ {y}) <= m
            BY <3>1, <3>2
          <5>2. /\ IsFiniteSet(s \ {y}) /\ Cardinality(s \ {y}) \in Nat
                /\ r \in SUBSET (s \ {y})
            BY <5>1, <1>1
          <5>3. Cardinality(r) <= Cardinality(s \ {y})
            BY <5>2, FS_Subset
          <5>4. r \in SUBSET D /\ Cardinality(r) \in Nat
            BY <1>1
          <5>. QED  BY <5>1, <5>2, <5>3, <5>4
        <4>4. t[r] \in Int
          BY <4>3, <1>5
        <4>. HIDE DEF r
        <4>. QED  BY <4>2, <4>4, <3>1, <3>3
      <3>5. t[s] \in Int
        BY <3>1, <3>3
      <3>6. \A x \in s : t[s] = t[s \ {x}] + n[x]
        BY <3>1, <3>4
      <3>. QED  BY <3>5, <3>6
    <2>. QED  BY <2>1, <2>2
  <1>6. \A m \in Nat : m \in S => m + 1 \in S
    <2>. HIDE DEF Right
    <2>. QED  BY <1>5
  <1>7. Cardinality(D) \in S
    <2>. HIDE DEF S
    <2>. QED  BY <1>4, <1>6, Induction, FS_CardinalityType
  <1>. QED  BY <1>1, <1>7

LEMMA SumOfNothing ==
    ASSUME NEW v, NEW n, IsSum(v, {}, n)
    PROVE  v = 0
  BY DEF IsSum, Adds

LEMMA SumIsInteger ==
    ASSUME NEW D, IsFiniteSet(D), NEW n, \A x \in D : n[x] \in Int, NEW v, IsSum(v, D, n)
    PROVE  v \in Int
  BY AddsInAnyOrder DEF IsSum

\* Equal terms have an equal sum.
LEMMA SumsAgree ==
    ASSUME NEW D, IsFiniteSet(D), NEW n, \A x \in D : n[x] \in Int,
           NEW m, \A x \in D : m[x] = n[x],
           NEW v, IsSum(v, D, n), NEW w, IsSum(w, D, m)
    PROVE  v = w
  <1>1. PICK p, t : Picks(p, D) /\ Adds(t, D, n, p) /\ v = t[D]
    BY DEF IsSum
  <1>2. PICK q, u : Picks(q, D) /\ Adds(u, D, m, q) /\ w = u[D]
    BY DEF IsSum
  <1>3. \A s \in SUBSET D : \A x \in s : t[s] = t[s \ {x}] + n[x]
    <2>1. \A s \in SUBSET D : t[s] \in Int /\ \A x \in s : t[s] = t[s \ {x}] + n[x]
      <3>1. Picks(p, D) /\ Adds(t, D, n, p) /\ IsFiniteSet(D)
        BY <1>1
      <3>. HIDE <1>1
      <3>. QED  BY <3>1, AddsInAnyOrder
    <2>. QED  BY <2>1
  <1>. DEFINE S == {k \in Nat : \A s \in SUBSET D : Cardinality(s) <= k => t[s] = u[s]}
  <1>4. \A s \in SUBSET D : IsFiniteSet(s) /\ Cardinality(s) \in Nat
    BY FS_Subset, FS_CardinalityType
  <1>5. t[{}] = u[{}]
    BY <1>1, <1>2 DEF Adds
  <1>6. 0 \in S
    BY <1>4, <1>5, FS_EmptySet
  <1>7. ASSUME NEW k \in Nat, \A s \in SUBSET D : Cardinality(s) <= k => t[s] = u[s],
               NEW s \in SUBSET D, Cardinality(s) <= k + 1
        PROVE  t[s] = u[s]
    <2>1. CASE s = {}
      BY <2>1, <1>5
    <2>2. CASE s # {}
      <3>. DEFINE y == q[s]
      <3>1. y \in s /\ u[s] = u[s \ {y}] + m[y]
        BY <2>2, <1>2 DEF Picks, Adds
      <3>. HIDE DEF y
      <3>2. s \ {y} \in SUBSET D /\ Cardinality(s \ {y}) <= k
        BY <3>1, <1>4, <1>7, FS_RemoveElement
      <3>3. t[s] = t[s \ {y}] + n[y] /\ t[s \ {y}] = u[s \ {y}] /\ m[y] = n[y]
        BY <1>3, <1>7, <3>1, <3>2
      <3>. QED  BY <3>1, <3>3
    <2>. QED  BY <2>1, <2>2
  <1>8. \A k \in Nat : k \in S => k + 1 \in S
    BY <1>7
  <1>9. Cardinality(D) \in S
    <2>. HIDE DEF S
    <2>. QED  BY <1>6, <1>8, Induction, FS_CardinalityType
  <1>. QED  BY <1>1, <1>2, <1>4, <1>9

\* One more term.
LEMMA SumOfOneMore ==
    ASSUME NEW D, IsFiniteSet(D), NEW n, \A x \in D : n[x] \in Int, NEW v, IsSum(v, D, n),
           NEW m, \A x \in D : m[x] = n[x],
           NEW y, y \notin D, m[y] \in Int, NEW w, IsSum(w, D \cup {y}, m)
    PROVE  w = v + m[y]
  <1>. DEFINE E == D \cup {y}
  <1>1. PICK q, u : Picks(q, E) /\ Adds(u, E, m, q) /\ w = u[E]
    BY DEF IsSum
  <1>2. IsFiniteSet(E) /\ \A x \in E : m[x] \in Int
    BY FS_AddElement
  <1>3. u[E] = u[E \ {y}] + m[y]
    BY <1>1, <1>2, AddsInAnyOrder
  <1>4. E \ {y} = D /\ D \in SUBSET E
    OBVIOUS
  <1>5. Picks(q, D) /\ Adds(u, D, m, q)
    BY <1>1, <1>4 DEF Picks, Adds
  <1>6. IsSum(u[D], D, m)
    BY <1>5 DEF IsSum
  <1>7. u[D] = v
    BY <1>6, SumsAgree
  <1>. QED  BY <1>1, <1>3, <1>4, <1>7
---------------------------------------------------------------------------
(* Sequences put end to end. *)

\* g[i] is the first i sequences of s put end to end.
Flattens(g, s) ==
    g = [i \in 1..Len(s) |-> IF i = 1 THEN s[i] ELSE g[i - 1] \o s[i]]

\* The recursion that FlattenSeq stands for has a solution, and it is one of sequences.
LEMMA FlattenUnfolds ==
    ASSUME NEW X, NEW s \in Seq(Seq(X)), s # <<>>
    PROVE  \E g \in [1..Len(s) -> Seq(X)] : Flattens(g, s) /\ FlattenSeq(s) = g[Len(s)]
  <1>. DEFINE n == Len(s)
              G == [p \in (1..n) \X Seq(X) |-> IF p[1] = 1 THEN s[p[1]] ELSE p[2] \o s[p[1]]]
              g == CHOOSE h : h = [i \in 1..Len(s) |->
                                      IF i = 1 THEN s[i] ELSE h[i - 1] \o s[i]]
  <1>1. n \in Nat /\ n # 0 /\ \A i \in 1..n : s[i] \in Seq(X)
    OBVIOUS
  <1>2. FlattenSeq(s) = g[n]
    <2>1. Len(s) # 0
      BY <1>1
    <2>. QED  BY <2>1, Zenon DEF FlattenSeq
  <1>3. G \in [(1..n) \X Seq(X) -> Seq(X)]
    <2>1. ASSUME NEW i \in 1..n, NEW v \in Seq(X)
          PROVE  (IF i = 1 THEN s[i] ELSE v \o s[i]) \in Seq(X)
      <3>1. s[i] \in Seq(X)
        BY <1>1
      <3>. QED  BY <3>1
    <2>. QED  BY <2>1
  <1>4. \A i \in 1..n, v \in Seq(X) : G[<<i, v>>] = IF i = 1 THEN s[i] ELSE v \o s[i]
    OBVIOUS
  <1>. HIDE DEF G
  <1>5. PICK t \in [0..n -> Seq(X)] : StepsUp(t, n, <<>>, G)
    <2>1. <<>> \in Seq(X)
      OBVIOUS
    <2>. HIDE DEF n
    <2>. QED  BY <1>1, <1>3, <2>1, RecursionOverRange
  <1>6. ASSUME NEW i \in 1..n
        PROVE  t[i] \in Seq(X) /\ t[i] = IF i = 1 THEN s[i] ELSE t[i - 1] \o s[i]
    <2>1. i \in 0..n /\ i - 1 \in 0..n /\ i # 0
      BY <1>1
    <2>2. t[i] = G[<<i, t[i - 1]>>] /\ t[i - 1] \in Seq(X) /\ t[i] \in Seq(X)
      BY <1>5, <2>1 DEF StepsUp
    <2>. QED  BY <1>4, <2>2
  <1>. DEFINE u == [i \in 1..n |-> t[i]]
  <1>7. /\ u \in [1..n -> Seq(X)]
        /\ u = [i \in 1..n |-> IF i = 1 THEN s[i] ELSE u[i - 1] \o s[i]]
    <2>1. u \in [1..n -> Seq(X)]
      BY <1>6
    <2>2. ASSUME NEW i \in 1..n
          PROVE  u[i] = IF i = 1 THEN s[i] ELSE u[i - 1] \o s[i]
      <3>1. i # 1 => i - 1 \in 1..n
        BY <1>1
      <3>2. u[i] = t[i] /\ (i # 1 => u[i - 1] = t[i - 1])
        BY <3>1
      <3>. QED  BY <3>2, <1>6
    <2>3. u = [i \in 1..n |-> u[i]]
      OBVIOUS
    <2>. HIDE DEF u
    <2>. QED  BY <2>1, <2>2, <2>3
  <1>. HIDE DEF u
  <1>8. g = [i \in 1..Len(s) |-> IF i = 1 THEN s[i] ELSE g[i - 1] \o s[i]]
    BY <1>7, Zenon
  <1>. HIDE DEF g
  <1>9. ASSUME NEW m \in Nat
        PROVE  m \in {k \in Nat : k \in 1..n => g[k] \in Seq(X)}
    <2>. DEFINE S == {k \in Nat : k \in 1..n => g[k] \in Seq(X)}
    <2>1. 0 \in S
      OBVIOUS
    <2>2. ASSUME NEW k \in Nat, k \in S
          PROVE  k + 1 \in S
      <3>. SUFFICES ASSUME k + 1 \in 1..n
                    PROVE  g[k + 1] \in Seq(X)
        BY <2>2
      <3>1. g[k + 1] = IF k + 1 = 1 THEN s[k + 1] ELSE g[k] \o s[k + 1]
        <4>1. k + 1 \in 1..Len(s) /\ (k + 1) - 1 = k
          OBVIOUS
        <4>. QED  BY <1>8, <4>1
      <3>2. s[k + 1] \in Seq(X)
        BY <1>1
      <3>3. k # 0 => g[k] \in Seq(X)
        BY <2>2
      <3>. QED  BY <3>1, <3>2, <3>3
    <2>. HIDE DEF S
    <2>3. \A k \in Nat : k \in S
      BY <2>1, <2>2, Induction
    <2>. QED  BY <2>3 DEF S
  <1>10. g \in [1..n -> Seq(X)]
    <2>1. \A k \in 1..n : k \in Nat
      OBVIOUS
    <2>2. \A k \in 1..n : g[k] \in Seq(X)
      BY <1>9, <2>1
    <2>. QED  BY <1>8, <2>2
  <1>11. Flattens(g, s)
    BY <1>8, Zenon DEF Flattens
  <1>. QED  BY <1>2, <1>10, <1>11

LEMMA FlattenNothing == FlattenSeq(<<>>) = <<>>
  BY DEF FlattenSeq

LEMMA FlattenType ==
    ASSUME NEW X, NEW s \in Seq(Seq(X))
    PROVE  FlattenSeq(s) \in Seq(X)
  <1>1. CASE s = <<>>
    <2>1. <<>> \in Seq(X)
      OBVIOUS
    <2>. QED  BY <1>1, <2>1, FlattenNothing
  <1>2. CASE s # <<>>
    <2>1. PICK g \in [1..Len(s) -> Seq(X)] : FlattenSeq(s) = g[Len(s)]
      BY <1>2, FlattenUnfolds
    <2>2. Len(s) \in 1..Len(s)
      BY <1>2
    <2>. QED  BY <2>1, <2>2
  <1>. QED  BY <1>1, <1>2

\* One more sequence at the end.
LEMMA FlattenAppend ==
    ASSUME NEW X, NEW s \in Seq(Seq(X)), NEW e \in Seq(X)
    PROVE  FlattenSeq(Append(s, e)) = FlattenSeq(s) \o e
  <1>. DEFINE r == Append(s, e)
              n == Len(s)
  <1>1. /\ r \in Seq(Seq(X)) /\ r # <<>> /\ Len(r) = n + 1 /\ n \in Nat
        /\ r[n + 1] = e /\ \A i \in 1..n : r[i] = s[i]
    <2>1. r \in Seq(Seq(X)) /\ Len(r) = n + 1 /\ n \in Nat
      OBVIOUS
    <2>2. r[n + 1] = e /\ \A i \in 1..n : r[i] = s[i]
      OBVIOUS
    <2>. HIDE DEF r
    <2>3. r # <<>>
      BY <2>1
    <2>. QED  BY <2>1, <2>2, <2>3
  <1>. HIDE DEF r
  <1>2. PICK h \in [1..Len(r) -> Seq(X)] : Flattens(h, r) /\ FlattenSeq(r) = h[Len(r)]
    BY <1>1, FlattenUnfolds
  <1>3. \A i \in 1..(n + 1) : h[i] = IF i = 1 THEN r[i] ELSE h[i - 1] \o r[i]
    BY <1>1, <1>2 DEF Flattens
  <1>4. CASE s = <<>>
    <2>1. n = 0 /\ FlattenSeq(s) = <<>>
      BY <1>4, FlattenNothing
    <2>2. FlattenSeq(r) = e
      BY <1>1, <1>2, <1>3, <2>1
    <2>. QED  BY <2>1, <2>2 DEF r
  <1>5. CASE s # <<>>
    <2>1. PICK g \in [1..Len(s) -> Seq(X)] : Flattens(g, s) /\ FlattenSeq(s) = g[Len(s)]
      BY <1>5, FlattenUnfolds
    <2>2. \A i \in 1..n : g[i] = IF i = 1 THEN s[i] ELSE g[i - 1] \o s[i]
      BY <2>1 DEF Flattens
    <2>. DEFINE S == {k \in Nat : k \in 1..n => g[k] = h[k]}
    <2>3. 0 \in S
      OBVIOUS
    <2>4. ASSUME NEW k \in Nat, k \in S
          PROVE  k + 1 \in S
      <3>. SUFFICES ASSUME k + 1 \in 1..n
                    PROVE  g[k + 1] = h[k + 1]
        BY <2>4
      <3>1. /\ g[k + 1] = IF k + 1 = 1 THEN s[k + 1] ELSE g[k] \o s[k + 1]
            /\ h[k + 1] = IF k + 1 = 1 THEN r[k + 1] ELSE h[k] \o r[k + 1]
            /\ r[k + 1] = s[k + 1]
        <4>1. k + 1 \in 1..(n + 1) /\ (k + 1) - 1 = k
          BY <1>1
        <4>. QED  BY <4>1, <1>1, <1>3, <2>2
      <3>2. k + 1 # 1 => g[k] = h[k]
        BY <2>4
      <3>. QED  BY <3>1, <3>2
    <2>5. n \in S
      <3>. HIDE DEF S
      <3>. QED  BY <1>1, <2>3, <2>4, Induction
    <2>6. n \in 1..n /\ n + 1 \in 1..(n + 1) /\ n + 1 # 1 /\ (n + 1) - 1 = n
      BY <1>1, <1>5
    <2>7. g[n] = h[n]
      BY <2>5, <2>6
    <2>8. h[n + 1] = h[n] \o e
      BY <1>1, <1>3, <2>6
    <2>. QED  BY <1>1, <1>2, <2>1, <2>7, <2>8 DEF r
  <1>. QED  BY <1>4, <1>5

\* The last sequence grows.
LEMMA FlattenGrows ==
    ASSUME NEW X, NEW s \in Seq(Seq(X)), s # <<>>, NEW e \in Seq(X)
    PROVE  FlattenSeq([s EXCEPT ![Len(s)] = @ \o e]) = FlattenSeq(s) \o e
  <1>. DEFINE n == Len(s)
              f == [i \in 1..(n - 1) |-> s[i]]
              z == s[n]
  <1>1. n \in Nat /\ n \in 1..n /\ z \in Seq(X)
    OBVIOUS
  <1>2. f \in Seq(Seq(X)) /\ Len(f) = n - 1
    BY <1>1
  <1>3. s = Append(f, z)
    BY <1>1, <1>2
  <1>4. [s EXCEPT ![n] = @ \o e] = Append(f, z \o e)
    BY <1>1, <1>2
  <1>5. z \o e \in Seq(X) /\ FlattenSeq(f) \in Seq(X)
    <2>. HIDE DEF f, z
    <2>. QED  BY <1>1, <1>2, FlattenType
  <1>. HIDE DEF f, z
  <1>6. FlattenSeq(s) = FlattenSeq(f) \o z
    BY <1>1, <1>2, <1>3, FlattenAppend
  <1>7. FlattenSeq(Append(f, z \o e)) = FlattenSeq(f) \o (z \o e)
    BY <1>2, <1>5, FlattenAppend
  <1>8. FlattenSeq(f) \o (z \o e) = (FlattenSeq(f) \o z) \o e
    BY <1>1, <1>5
  <1>. QED  BY <1>4, <1>6, <1>7, <1>8

\* Empty sequences at the end add nothing.
LEMMA FlattenFront ==
    ASSUME NEW X, NEW s \in Seq(Seq(X)), NEW n \in 0..Len(s),
           \A k \in (n + 1)..Len(s) : s[k] = <<>>
    PROVE  FlattenSeq(s) = FlattenSeq(SubSeq(s, 1, n))
  <1>. DEFINE L == Len(s)
              S == {d \in Nat : n + d \in 0..L =>
                       FlattenSeq(SubSeq(s, 1, n + d)) = FlattenSeq(SubSeq(s, 1, n))}
  <1>1. L \in Nat /\ n \in Nat
    OBVIOUS
  <1>2. 0 \in S
    BY <1>1
  <1>3. ASSUME NEW d \in Nat, d \in S
        PROVE  d + 1 \in S
    <2>. SUFFICES ASSUME n + (d + 1) \in 0..L
                  PROVE  FlattenSeq(SubSeq(s, 1, n + (d + 1))) = FlattenSeq(SubSeq(s, 1, n))
      OBVIOUS
    <2>. DEFINE m == n + d
                r == SubSeq(s, 1, m)
                q == SubSeq(s, 1, m + 1)
    <2>1. m \in Nat /\ m \in 0..L /\ m + 1 \in 1..L /\ n + (d + 1) = m + 1 /\ m + 1 \in (n + 1)..L
      BY <1>1
    <2>. HIDE DEF m
    <2>2. r \in Seq(Seq(X)) /\ <<>> \in Seq(X)
      BY <2>1
    <2>3. q = Append(r, <<>>)
      <3>1. s[m + 1] = <<>>
        BY <2>1
      <3>2. q = Append(r, s[m + 1])
        <4>1. q \in Seq(Seq(X)) /\ Len(q) = m + 1 /\ \A i \in 1..(m + 1) : q[i] = s[i]
          BY <2>1
        <4>2. Len(r) = m /\ \A i \in 1..m : r[i] = s[i]
          BY <2>1
        <4>3. s[m + 1] \in Seq(X)
          BY <2>1
        <4>. DEFINE a == Append(r, s[m + 1])
        <4>. HIDE DEF q, r
        <4>4. a \in Seq(Seq(X)) /\ Len(a) = m + 1 /\ \A i \in 1..(m + 1) : a[i] = s[i]
          BY <2>1, <2>2, <4>2, <4>3
        <4>. HIDE DEF a
        <4>5. q = [i \in 1..(m + 1) |-> q[i]] /\ a = [i \in 1..(m + 1) |-> a[i]]
          BY <2>1, <4>1, <4>4
        <4>6. q = a
          BY <4>1, <4>4, <4>5
        <4>. QED  BY <4>6 DEF a
      <3>. QED  BY <3>1, <3>2
    <2>. HIDE DEF r, q
    <2>4. FlattenSeq(q) = FlattenSeq(r) \o <<>>
      BY <2>2, <2>3, FlattenAppend
    <2>5. FlattenSeq(r) \in Seq(X)
      BY <2>2, FlattenType
    <2>6. FlattenSeq(r) \o <<>> = FlattenSeq(r)
      BY <2>5
    <2>7. FlattenSeq(r) = FlattenSeq(SubSeq(s, 1, n))
      BY <1>3, <2>1 DEF m, r
    <2>. QED  BY <2>1, <2>4, <2>6, <2>7 DEF q
  <1>. HIDE DEF S
  <1>4. L - n \in Nat /\ L - n \in S
    BY <1>1, <1>2, <1>3, Induction
  <1>5. FlattenSeq(SubSeq(s, 1, n + (L - n))) = FlattenSeq(SubSeq(s, 1, n))
    BY <1>1, <1>4 DEF S
  <1>6. n + (L - n) = L /\ SubSeq(s, 1, L) = s
    BY <1>1
  <1>. QED  BY <1>5, <1>6

---------------------------------------------------------------------------
(* Filters: the list of the x[i], i in P, in order. *)

\* A fold that takes the largest element last.
Largest(pick, D) == \A s \in SUBSET D : s # {} => pick[s] \in s /\ \A y \in s : pick[s] >= y

Filters(t, D, P, x, pick) ==
    \A s \in SUBSET D :
        t[s] = IF s = {} THEN <<>>
               ELSE IF pick[s] \in P THEN Append(t[s \ {pick[s]}], x[pick[s]])
               ELSE t[s \ {pick[s]}]

LEMMA FilterExists ==
    ASSUME NEW D, IsFiniteSet(D), NEW P, NEW X, NEW x \in [D -> X], NEW pick, Picks(pick, D)
    PROVE  \E t \in [SUBSET D -> Seq(X)] : Filters(t, D, P, x, pick)
  <1>. DEFINE G == [p \in D \X Seq(X) |-> IF p[1] \in P THEN Append(p[2], x[p[1]]) ELSE p[2]]
  <1>1. G \in [D \X Seq(X) -> Seq(X)] /\ <<>> \in Seq(X)
    <2>1. \A p \in D \X Seq(X) : (IF p[1] \in P THEN Append(p[2], x[p[1]]) ELSE p[2]) \in Seq(X)
      OBVIOUS
    <2>. QED  BY <2>1
  <1>2. \A i \in D, s \in Seq(X) : G[<<i, s>>] = IF i \in P THEN Append(s, x[i]) ELSE s
    OBVIOUS
  <1>. HIDE DEF G
  <1>3. PICK t \in [SUBSET D -> Seq(X)] : TakesOneAway(t, D, <<>>, G, pick)
    BY <1>1, RecursionOverSubsets
  <1>4. Filters(t, D, P, x, pick)
    <2>. SUFFICES ASSUME NEW s \in SUBSET D, s # {}
                  PROVE  t[s] = IF pick[s] \in P THEN Append(t[s \ {pick[s]}], x[pick[s]])
                                ELSE t[s \ {pick[s]}]
      BY <1>3 DEF Filters, TakesOneAway
    <2>1. t[s] = G[<<pick[s], t[s \ {pick[s]}]>>]
      BY <1>3 DEF TakesOneAway
    <2>2. pick[s] \in D /\ t[s \ {pick[s]}] \in Seq(X)
      BY <1>3 DEF Picks
    <2>. QED  BY <1>2, <2>1, <2>2
  <1>. QED  BY <1>4

\* What a filter keeps of the first k elements.
FilterOf(list, k, P, x, X) ==
    /\ list \in Seq(X) /\ Len(list) <= k
    /\ ToSet(list) = {x[i] : i \in {j \in 1..k : j \in P}}
    /\ (\A i, j \in {h \in 1..k : h \in P} : x[i] = x[j] => i = j) => IsInjective(list)
    /\ (1..k \subseteq P) => Len(list) = k /\ \A i \in 1..k : list[i] = x[i]

LEMMA FilterGrows ==
    ASSUME NEW k \in Nat, NEW P, NEW X, NEW x, NEW list, FilterOf(list, k, P, x, X), x[k + 1] \in X
    PROVE  FilterOf(IF k + 1 \in P THEN Append(list, x[k + 1]) ELSE list, k + 1, P, x, X)
  <1>. DEFINE Q == {j \in 1..k : j \in P}
              R == {j \in 1..(k + 1) : j \in P}
              e == x[k + 1]
              n == Len(list)
              r == Append(list, e)
  <1>1. /\ \A j \in 1..(k + 1) : j \in 1..k \/ j = k + 1
        /\ 1..k \subseteq 1..(k + 1) /\ k + 1 \in 1..(k + 1) /\ k + 1 \notin 1..k
    OBVIOUS
  <1>2. /\ list \in Seq(X) /\ n \in Nat /\ DOMAIN list = 1..n /\ n <= k /\ e \in X
        /\ ToSet(list) = {x[i] : i \in Q}
        /\ (\A i, j \in Q : x[i] = x[j] => i = j) => IsInjective(list)
        /\ (1..k \subseteq P) => n = k /\ \A i \in 1..k : list[i] = x[i]
    BY DEF FilterOf
  <1>3. CASE k + 1 \notin P
    <2>1. R = Q
      BY <1>1, <1>3
    <2>2. ~(1..(k + 1) \subseteq P)
      BY <1>1, <1>3
    <2>3. n <= k + 1
      <3>. HIDE DEF n, e, Q
      <3>. QED  BY <1>2
    <2>4. FilterOf(list, k + 1, P, x, X)
      <3>. HIDE DEF Q
      <3>. QED  BY <1>2, <2>1, <2>2, <2>3 DEF FilterOf
    <2>. QED  BY <1>3, <2>4
  <1>4. CASE k + 1 \in P
    <2>1. R = Q \cup {k + 1} /\ Q \subseteq 1..k
      BY <1>1, <1>4
    <2>. HIDE DEF e, n, Q, R
    <2>2. /\ r \in Seq(X) /\ Len(r) = n + 1 /\ DOMAIN r = 1..(n + 1) /\ r[n + 1] = e
          /\ \A i \in 1..n : r[i] = list[i]
      <3>1. \A s \in Seq(X), y \in X :
               /\ Append(s, y) \in Seq(X) /\ Len(Append(s, y)) = Len(s) + 1
               /\ DOMAIN Append(s, y) = 1..(Len(s) + 1) /\ Append(s, y)[Len(s) + 1] = y
               /\ \A i \in 1..Len(s) : Append(s, y)[i] = s[i]
        OBVIOUS
      <3>. QED  BY <1>2, <3>1 DEF n
    <2>3. /\ \A i \in 1..(n + 1) : i \in 1..n \/ i = n + 1
          /\ 1..n \subseteq 1..(n + 1) /\ n + 1 \in 1..(n + 1)
      BY <1>2
    <2>. HIDE DEF r
    <2>4. ToSet(r) = ToSet(list) \cup {e}
      BY <1>2, <2>2, <2>3 DEF ToSet
    <2>5. ToSet(r) = {x[i] : i \in R}
      BY <1>2, <2>1, <2>4 DEF e
    <2>6. ASSUME \A i, j \in R : x[i] = x[j] => i = j
          PROVE  IsInjective(r)
      <3>1. IsInjective(list)
        BY <1>2, <2>1, <2>6
      <3>2. e \notin ToSet(list)
        <4>. SUFFICES ASSUME NEW i \in Q, x[i] = x[k + 1]
                      PROVE  FALSE
          BY <1>2 DEF e
        <4>1. i \in R /\ k + 1 \in R /\ i \in 1..k
          BY <2>1
        <4>. QED  BY <1>1, <2>6, <4>1
      <3>3. \A i \in 1..n : list[i] # e
        BY <1>2, <3>2 DEF ToSet
      <3>4. \A i, j \in 1..n : list[i] = list[j] => i = j
        BY <1>2, <3>1 DEF IsInjective
      <3>5. \A i, j \in 1..(n + 1) : r[i] = r[j] => i = j
        BY <2>2, <2>3, <3>3, <3>4
      <3>. QED  BY <2>2, <3>5 DEF IsInjective
    <2>7. ASSUME 1..(k + 1) \subseteq P
          PROVE  Len(r) = k + 1 /\ \A i \in 1..(k + 1) : r[i] = x[i]
      <3>1. n = k /\ \A i \in 1..k : list[i] = x[i]
        BY <1>1, <1>2, <2>7
      <3>. QED  BY <1>1, <2>2, <3>1 DEF e
    <2>8. Len(r) <= k + 1
      BY <1>2, <2>2
    <2>9. FilterOf(r, k + 1, P, x, X)
      BY <2>2, <2>5, <2>6, <2>7, <2>8 DEF FilterOf, R
    <2>. QED  BY <1>4, <2>9 DEF r, e
  <1>. QED  BY <1>3, <1>4

LEMMA Filtered ==
    ASSUME NEW m \in Nat, NEW P, NEW X, NEW x \in [1..m -> X], NEW pick, Largest(pick, 1..m),
           NEW t, Filters(t, 1..m, P, x, pick)
    PROVE  FilterOf(t[1..m], m, P, x, X)
  <1>. DEFINE D == 1..m
              S == {k \in Nat : k <= m => FilterOf(t[1..k], k, P, x, X)}
  <1>1. 0 \in S
    <2>1. 1..0 = {} /\ {} \in SUBSET D
      OBVIOUS
    <2>2. t[{}] = <<>>
      BY <2>1 DEF Filters
    <2>3. <<>> \in Seq(X) /\ ToSet(<<>>) = {} /\ IsInjective(<<>>) /\ Len(<<>>) = 0
      BY DEF ToSet, IsInjective
    <2>4. {x[i] : i \in {j \in 1..0 : j \in P}} = {} /\ (\A i \in 1..0 : <<>>[i] = x[i])
      BY <2>1
    <2>5. FilterOf(<<>>, 0, P, x, X)
      BY <2>3, <2>4 DEF FilterOf
    <2>. QED  BY <2>1, <2>2, <2>5
  <1>2. ASSUME NEW k \in Nat, k \in S
        PROVE  k + 1 \in S
    <2>. SUFFICES ASSUME k + 1 <= m
                  PROVE  FilterOf(t[1..(k + 1)], k + 1, P, x, X)
      BY <1>2
    <2>. DEFINE u == 1..(k + 1)
    <2>1. u \in SUBSET D /\ u # {} /\ k + 1 \in u /\ u \ {k + 1} = 1..k /\ k + 1 \in D
      OBVIOUS
    <2>2. pick[u] = k + 1
      <3>1. pick[u] \in u /\ pick[u] >= k + 1
        <4>. HIDE DEF u
        <4>. QED  BY <2>1 DEF Largest
      <3>. QED  BY <3>1
    <2>3. t[u] = IF k + 1 \in P THEN Append(t[1..k], x[k + 1]) ELSE t[1..k]
      <3>. HIDE DEF u
      <3>. QED  BY <2>1, <2>2 DEF Filters
    <2>4. FilterOf(t[1..k], k, P, x, X) /\ x[k + 1] \in X
      BY <1>2, <2>1
    <2>. QED  BY <2>3, <2>4, FilterGrows
  <1>3. m \in S
    <2>. HIDE DEF S
    <2>. QED  BY <1>1, <1>2, Induction
  <1>. QED  BY <1>3
=============================================================================
