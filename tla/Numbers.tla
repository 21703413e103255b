------------------------------ MODULE Numbers ------------------------------
(***************************************************************************)
(* The least number of a set of naturals, which every induction of the     *)
(* proofs goes by: the smallest counterexample.                            *)
(***************************************************************************)
EXTENDS Integers, WellFoundedInduction, TLAPS

LEMMA LeastNumber ==
  ASSUME NEW S \in SUBSET Nat, S # {}
  PROVE  \E n \in S : \A k \in S : n <= k
<1> DEFINE Less == {p \in Nat \X Nat : p[1] < p[2]}
<1>1. IsWellFoundedOn(Less, Nat)
  BY NatLessThanWellFounded DEF OpToRel
<1>2. PICK n \in S : \A k \in S : <<k, n>> \notin Less
  <2> HIDE DEF Less
  <2> QED
    BY <1>1, WFMin
<1>3. ASSUME NEW k \in S
      PROVE  n <= k
  <2>1. ~ (k < n)
    BY <1>2
  <2> QED
    BY <2>1
<1> QED
  BY <1>3

\* Induction up to n, about the set T of the numbers that are right
LEMMA Counting ==
  ASSUME NEW n \in Nat, NEW T, 0 \in T, \A i \in 1 .. n : i - 1 \in T => i \in T
  PROVE  \A i \in 0 .. n : i \in T
<1> DEFINE Wrong == {i \in 0 .. n : i \notin T}
<1> SUFFICES ASSUME Wrong # {} PROVE FALSE
  OBVIOUS
<1>1. PICK i \in Wrong : \A k \in Wrong : i <= k
  <2>1. Wrong \in SUBSET Nat
    OBVIOUS
  <2> HIDE DEF Wrong
  <2> QED
    BY <2>1, LeastNumber
<1>2. i \in 1 .. n /\ i - 1 \in 0 .. n /\ ~ (i <= i - 1)
  BY <1>1
<1>3. i - 1 \in T
  BY <1>1, <1>2
<1> QED
  BY <1>1, <1>2, <1>3


\* What a recursion from 0 up to n defines: there is a function that begins with
\* a and takes the step g
Steps(f, n, V, a, g) ==
  f \in [0 .. n -> V] /\ f[0] = a /\ \A i \in 1 .. n : f[i] = g[i][f[i - 1]]

LEMMA Recursion ==
  ASSUME NEW n \in Nat, NEW V, NEW a \in V, NEW g \in [1 .. n -> [V -> V]]
  PROVE  \E f : Steps(f, n, V, a, g)
<1> DEFINE Good(f, m) == f[0] = a /\ \A i \in 1 .. m : f[i] = g[i][f[i - 1]]
<1> DEFINE T == {m \in 0 .. n : \E f \in [0 .. m -> V] : Good(f, m)}
<1>1. 0 \in T
  <2>1. PICK f : f = [i \in 0 .. 0 |-> a]
    OBVIOUS
  <2>2. f \in [0 .. 0 -> V] /\ Good(f, 0)
    BY <2>1
  <2>3. 0 \in 0 .. n
    OBVIOUS
  <2> HIDE DEF Good
  <2> QED
    BY <2>2, <2>3
<1>2. ASSUME NEW m \in 1 .. n, m - 1 \in T
      PROVE  m \in T
  <2>1. PICK f \in [0 .. m - 1 -> V] : Good(f, m - 1)
    BY <1>2
  <2>2. PICK v \in V : v = g[m][f[m - 1]]
    BY <2>1
  <2>3. PICK h : h = [i \in 0 .. m |-> IF i = m THEN v ELSE f[i]]
    OBVIOUS
  <2>4. h \in [0 .. m -> V] /\ h[m] = v /\ \A i \in 0 .. m - 1 : h[i] = f[i]
    BY <2>1, <2>2, <2>3
  <2>5. h[0] = a
    BY <2>1, <2>4
  <2>6. ASSUME NEW i \in 1 .. m
        PROVE  h[i] = g[i][h[i - 1]]
    <3>1. i - 1 \in 0 .. m - 1 /\ h[i - 1] = f[i - 1]
      BY <2>4
    <3>2. CASE i = m
      BY <2>2, <2>4, <3>1, <3>2
    <3>3. CASE i # m
      <4>1. i \in 1 .. m - 1 /\ i \in 0 .. m - 1
        BY <3>3
      <4> QED
        BY <2>1, <2>4, <3>1, <4>1
    <3> QED
      BY <3>2, <3>3
  <2>7. Good(h, m) /\ m \in 0 .. n
    BY <2>5, <2>6
  <2> HIDE DEF Good
  <2> QED
    BY <2>4, <2>7
<1>3. n \in T
  <2> HIDE DEF T
  <2>1. \A i \in 0 .. n : i \in T
    BY <1>1, <1>2, Counting
  <2> QED
    BY <2>1
<1>4. PICK f \in [0 .. n -> V] : Good(f, n)
  BY <1>3
<1>5. Steps(f, n, V, a, g)
  BY <1>4 DEF Steps
<1> QED
  BY <1>5


\* What a recursion that goes up to n gathers: at its last numbers, and at every
\* other with what is gathered from a later one on
Gathers(f, n, low, halt, a, next) ==
  \A i \in low .. n : f[i] = IF i \in halt THEN a[i] ELSE a[i] \cup f[next[i]]

LEMMA Gathering ==
  ASSUME NEW n \in Nat, NEW halt, NEW a, NEW next,
         \A i \in 1 .. n : i \notin halt => next[i] \in i + 1 .. n
  PROVE  \E f : f = [i \in 1 .. n |-> f[i]] /\ Gathers(f, n, 1, halt, a, next)
<1> DEFINE Good(f, low) == f = [i \in 1 .. n |-> f[i]] /\ Gathers(f, n, low, halt, a, next)
<1> DEFINE T == {k \in 0 .. n : \E f : Good(f, n - k + 1)}
<1>1. 0 \in T
  <2>1. PICK f : f = [i \in 1 .. n |-> i]
    OBVIOUS
  <2>2. f = [i \in 1 .. n |-> f[i]]
    BY <2>1
  <2>3. Gathers(f, n, n - 0 + 1, halt, a, next)
    BY DEF Gathers
  <2>4. Good(f, n - 0 + 1) /\ 0 \in 0 .. n
    BY <2>2, <2>3
  <2> HIDE DEF Good
  <2> QED
    BY <2>4
<1>2. ASSUME NEW k \in 1 .. n, k - 1 \in T
      PROVE  k \in T
  <2>1. PICK low \in Int : low = n - k + 1
    OBVIOUS
  <2>2. n - (k - 1) + 1 = low + 1 /\ low \in 1 .. n
    BY <2>1
  <2>3. PICK f : Good(f, low + 1)
    <3>1. \E f : Good(f, n - (k - 1) + 1)
      BY <1>2
    <3> QED
      BY <2>2, <3>1
  <2>4. PICK v : v = IF low \in halt THEN a[low] ELSE a[low] \cup f[next[low]]
    OBVIOUS
  <2>5. PICK h : h = [i \in 1 .. n |-> IF i = low THEN v ELSE f[i]]
    OBVIOUS
  <2>6. h = [i \in 1 .. n |-> h[i]] /\ h[low] = v /\ \A i \in low + 1 .. n : h[i] = f[i]
    BY <2>2, <2>5
  <2>7. ASSUME NEW i \in low .. n
        PROVE  h[i] = IF i \in halt THEN a[i] ELSE a[i] \cup h[next[i]]
    <3>1. i \in 1 .. n
      BY <2>2
    <3>2. i \notin halt => h[next[i]] = f[next[i]]
      <4>1. i \notin halt => next[i] \in low + 1 .. n
        BY <2>2, <3>1
      <4> QED
        BY <2>6, <4>1
    <3>3. CASE i = low
      BY <2>4, <2>6, <3>2, <3>3
    <3>4. CASE i # low
      <4>1. i \in low + 1 .. n
        BY <2>2, <3>4
      <4>2. f[i] = IF i \in halt THEN a[i] ELSE a[i] \cup f[next[i]]
        BY <2>3, <4>1 DEF Gathers
      <4> QED
        BY <2>6, <3>2, <4>1, <4>2
    <3> QED
      BY <3>3, <3>4
  <2>8. Good(h, n - k + 1) /\ k \in 0 .. n
    <3>1. Gathers(h, n, low, halt, a, next)
      BY <2>7 DEF Gathers
    <3> QED
      BY <2>1, <2>6, <3>1
  <2> HIDE DEF Good
  <2> QED
    BY <2>8
<1>3. n \in T
  <2> HIDE DEF T
  <2>1. \A i \in 0 .. n : i \in T
    BY <1>1, <1>2, Counting
  <2> QED
    BY <2>1
<1>4. PICK f : Good(f, n - n + 1)
  BY <1>3
<1>5. n - n + 1 = 1
  OBVIOUS
<1> QED
  BY <1>4, <1>5

=============================================================================
