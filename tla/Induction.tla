----------------------------- MODULE Induction ------------------------------
(***************************************************************************)
(* Induction over numbers in a form the provers can instantiate, with a    *)
(* set where the library's theorems take an operator; and that functions   *)
(* defined by recursion over an interval exist.                            *)
(***************************************************************************)
EXTENDS Integers, FiniteSets, FiniteSetTheorems, WellFoundedInduction, TLAPS

(* A set of numbers that is not empty has a least element.                 *)
LEMMA LeastNumber ==
  ASSUME NEW T, T \subseteq Nat, T # {}
  PROVE  \E n \in T : \A m \in T : n <= m
<1>. DEFINE R == {p \in Nat \X Nat : p[1] < p[2]}
<1>1. OpToRel(<, Nat) = R
  BY DEF OpToRel
<1>2. IsWellFoundedOn(R, Nat)
  BY <1>1, NatLessThanWellFounded
<1>3. \A m, n \in Nat : <<m, n>> \notin R => n <= m
  OBVIOUS
<1>. HIDE DEF R
<1>4. \E n \in T : \A m \in T : <<m, n>> \notin R
  BY <1>2, WFMin
<1>. QED  BY <1>3, <1>4

(* A set that has 0 and with each number its successor has all numbers.    *)
LEMMA NumberInduction ==
  ASSUME NEW S, 0 \in S, \A n \in Nat : n \in S => n + 1 \in S
  PROVE  Nat \subseteq S
<1>. DEFINE T == Nat \ S
<1>. SUFFICES ASSUME T # {} PROVE FALSE
  OBVIOUS
<1>1. PICK n \in T : \A m \in T : n <= m
  BY LeastNumber
<1>2. n # 0 /\ n \in Nat
  OBVIOUS
<1>3. n - 1 \in Nat /\ n - 1 \notin T
  BY <1>1, <1>2
<1>. QED  BY <1>2, <1>3

(* The same up to a bound.                                                 *)
LEMMA IntervalInduction ==
  ASSUME NEW n \in Nat, NEW S, 0 \in S, \A i \in 0..n - 1 : i \in S => i + 1 \in S
  PROVE  0..n \subseteq S
<1>. DEFINE T == {i \in Nat : i <= n => i \in S}
<1>1. 0 \in T
  OBVIOUS
<1>2. \A i \in Nat : i \in T => i + 1 \in T
  OBVIOUS
<1>. HIDE DEF T
<1>3. Nat \subseteq T
  BY <1>1, <1>2, NumberInduction
<1>. QED  BY <1>3 DEF T

(* A value for 0 and a rule from each number to the next make a function.  *)
IsIterated(f, n, X, first, step) ==
  /\ f \in [0..n -> X]
  /\ f[0] = first
  /\ \A i \in 1..n : f[i] = step[i][f[i - 1]]

LEMMA IterationExists ==
  ASSUME NEW n \in Nat, NEW X, NEW first \in X, NEW step \in [1..n -> [X -> X]]
  PROVE  \E f : IsIterated(f, n, X, first, step)
<1>. DEFINE S == {k \in 0..n : \E f : IsIterated(f, k, X, first, step)}
<1>1. 0 \in S
  <2>. DEFINE f == [i \in 0..0 |-> first]
  <2>1. f \in [0..0 -> X] /\ f[0] = first
    OBVIOUS
  <2>. HIDE DEF f
  <2>2. IsIterated(f, 0, X, first, step)
    BY <2>1 DEF IsIterated
  <2>. QED  BY <2>2
<1>2. ASSUME NEW k \in 0..n - 1, k \in S
      PROVE  k + 1 \in S
  <2>1. PICK f : IsIterated(f, k, X, first, step)
    BY <1>2
  <2>. DEFINE g == [i \in 0..k + 1 |-> IF i = k + 1 THEN step[k + 1][f[k]] ELSE f[i]]
  <2>2. step[k + 1][f[k]] \in X
    BY <2>1 DEF IsIterated
  <2>3. g \in [0..k + 1 -> X] /\ g[k + 1] = step[k + 1][f[k]]
    BY <2>1, <2>2 DEF IsIterated
  <2>4. \A i \in 0..k : g[i] = f[i]
    OBVIOUS
  <2>. HIDE DEF g
  <2>5. g[0] = first
    BY <2>1, <2>4 DEF IsIterated
  <2>6. ASSUME NEW i \in 1..k + 1
        PROVE  g[i] = step[i][g[i - 1]]
    <3>1. CASE i = k + 1
      BY <2>3, <2>4, <3>1
    <3>2. CASE i # k + 1
      <4>1. i \in 1..k /\ i \in 0..k /\ i - 1 \in 0..k
        BY <3>2
      <4>. QED  BY <2>1, <2>4, <4>1 DEF IsIterated
    <3>. QED  BY <3>1, <3>2
  <2>7. IsIterated(g, k + 1, X, first, step)
    BY <2>3, <2>5, <2>6 DEF IsIterated
  <2>. QED  BY <2>7
<1>. HIDE DEF S
<1>3. 0..n \subseteq S
  BY <1>1, <1>2, IntervalInduction
<1>. QED  BY <1>3 DEF S

(* There is only one.                                                      *)
OnInterval(f, n) == f = [i \in 0..n |-> f[i]]

LEMMA SameIteration ==
  ASSUME NEW n \in Nat, NEW f, NEW g,
         OnInterval(f, n), OnInterval(g, n), f[0] = g[0],
         \A i \in 1..n : f[i - 1] = g[i - 1] => f[i] = g[i]
  PROVE  f = g
<1>. DEFINE S == {i \in 0..n : f[i] = g[i]}
<1>1. 0 \in S
  OBVIOUS
<1>2. ASSUME NEW i \in 0..n - 1, i \in S
      PROVE  i + 1 \in S
  <2>1. i + 1 \in 1..n /\ (i + 1) - 1 = i /\ i + 1 \in 0..n
    OBVIOUS
  <2>2. f[i + 1] = g[i + 1]
    BY <1>2, <2>1
  <2>. QED  BY <2>1, <2>2
<1>. HIDE DEF S
<1>3. 0..n \subseteq S
  BY <1>1, <1>2, IntervalInduction
<1>4. \A i \in 0..n : f[i] = g[i]
  BY <1>3 DEF S
<1>. QED  BY <1>4 DEF OnInterval

(* A function is also defined by a value at some numbers and, at the       *)
(* others, a rule from a smaller one.                                      *)
IsDescent(f, n, X, base, deep, prev, step) ==
  /\ f \in [0..n -> X]
  /\ \A i \in 0..n : f[i] = IF i \in deep THEN step[i][f[prev[i]]] ELSE base[i]

LEMMA DescentExists ==
  ASSUME NEW n \in Nat, NEW X, NEW base \in [0..n -> X],
         NEW deep \in SUBSET (1..n), NEW prev, \A i \in deep : prev[i] \in 0..i - 1,
         NEW step, \A i \in deep : step[i] \in [X -> X]
  PROVE  \E f : IsDescent(f, n, X, base, deep, prev, step)
<1>. DEFINE S == {k \in 0..n : \E f : IsDescent(f, k, X, base, deep, prev, step)}
<1>1. 0 \in S
  <2>. DEFINE f == [i \in 0..0 |-> base[i]]
  <2>1. f \in [0..0 -> X] /\ f[0] = base[0] /\ 0 \notin deep
    OBVIOUS
  <2>. HIDE DEF f
  <2>2. IsDescent(f, 0, X, base, deep, prev, step)
    BY <2>1 DEF IsDescent
  <2>. QED  BY <2>2
<1>2. ASSUME NEW k \in 0..n - 1, k \in S
      PROVE  k + 1 \in S
  <2>1. PICK f : IsDescent(f, k, X, base, deep, prev, step)
    BY <1>2
  <2>. DEFINE x == IF k + 1 \in deep THEN step[k + 1][f[prev[k + 1]]] ELSE base[k + 1]
              g == [i \in 0..k + 1 |-> IF i = k + 1 THEN x ELSE f[i]]
  <2>2. k + 1 \in deep => prev[k + 1] \in 0..k
    OBVIOUS
  <2>3. x \in X
    <3>1. CASE k + 1 \in deep
      <4>1. f[prev[k + 1]] \in X
        BY <2>1, <2>2, <3>1 DEF IsDescent
      <4>. QED  BY <3>1, <4>1
    <3>2. CASE k + 1 \notin deep
      BY <3>2
    <3>. QED  BY <3>1, <3>2
  <2>. HIDE DEF x
  <2>4. g \in [0..k + 1 -> X] /\ g[k + 1] = x
    BY <2>1, <2>3 DEF IsDescent
  <2>5. \A i \in 0..k : g[i] = f[i]
    OBVIOUS
  <2>. HIDE DEF g
  <2>6. ASSUME NEW i \in 0..k + 1
        PROVE  g[i] = IF i \in deep THEN step[i][g[prev[i]]] ELSE base[i]
    <3>1. CASE i = k + 1
      BY <2>2, <2>4, <2>5, <3>1 DEF x
    <3>2. CASE i # k + 1
      <4>1. i \in 0..k /\ (i \in deep => prev[i] \in 0..k)
        BY <3>2
      <4>2. f[i] = IF i \in deep THEN step[i][f[prev[i]]] ELSE base[i]
        BY <2>1, <4>1 DEF IsDescent
      <4>. QED  BY <2>5, <4>1, <4>2
    <3>. QED  BY <3>1, <3>2
  <2>7. IsDescent(g, k + 1, X, base, deep, prev, step)
    BY <2>4, <2>6 DEF IsDescent
  <2>. QED  BY <2>7
<1>. HIDE DEF S
<1>3. 0..n \subseteq S
  BY <1>1, <1>2, IntervalInduction
<1>. QED  BY <1>3 DEF S

(* Functions that are the same where they are the same below, are the      *)
(* same.                                                                   *)
LEMMA SameDescent ==
  ASSUME NEW n \in Nat, NEW f, NEW g, OnInterval(f, n), OnInterval(g, n),
         \A i \in 0..n : (\A j \in 0..i - 1 : f[j] = g[j]) => f[i] = g[i]
  PROVE  f = g
<1>. DEFINE T == {i \in 0..n : f[i] # g[i]}
<1>1. T = {}
  <2>. SUFFICES ASSUME T # {} PROVE FALSE
    OBVIOUS
  <2>1. T \subseteq Nat
    OBVIOUS
  <2>2. PICK i \in T : \A j \in T : i <= j
    BY <2>1, LeastNumber
  <2>3. \A j \in 0..i - 1 : j \in 0..n /\ j \notin T
    BY <2>2
  <2>. QED  BY <2>3
<1>2. \A i \in 0..n : f[i] = g[i]
  BY <1>1
<1>. QED  BY <1>2 DEF OnInterval

(* Counting the positions up to the first that lacks something finds it.   *)
LEMMA InitialPositions ==
  ASSUME NEW n \in Nat, NEW P \in SUBSET (1..n), \A i \in P : \A j \in 1..i : j \in P
  PROVE  Cardinality(P) \in 0..n /\ P = 1..Cardinality(P)
<1>. DEFINE T == {k \in 0..n : k + 1 \notin P}
<1>1. n \in T /\ T \subseteq Nat
  OBVIOUS
<1>2. PICK k \in T : \A m \in T : k <= m
  BY <1>1, LeastNumber
<1>3. 1..k \subseteq P
  <2>. SUFFICES ASSUME NEW i \in 1..k PROVE i \in P
    OBVIOUS
  <2>1. i - 1 \in 0..n /\ i - 1 \notin T
    BY <1>2
  <2>. QED  BY <2>1
<1>4. P \subseteq 1..k
  <2>. SUFFICES ASSUME NEW i \in P, i > k PROVE FALSE
    OBVIOUS
  <2>1. k + 1 \in 1..i
    OBVIOUS
  <2>. QED  BY <2>1
<1>5. Cardinality(1..k) = k
  <2>1. k \in Nat /\ (1 <= k \/ k = 0)
    OBVIOUS
  <2>. QED  BY <2>1, FS_Interval
<1>. QED  BY <1>3, <1>4, <1>5
=============================================================================
