--------------------------- MODULE MessagingProofs ---------------------------
(***************************************************************************)
(* Messaging for any number of users, of messages and of commands: every   *)
(* reference to a message is counted, and what the counts are needed for.  *)
(***************************************************************************)
EXTENDS Messaging, FiniteSetTheorems, FunctionTheorems, SequenceTheorems, TLAPS

-----------------------------------------------------------------------------
(***************************************************************************)
(* Places in queues                                                        *)
(***************************************************************************)
Queues == {q \in [Slots -> Seq(Ids)] : \A u \in Slots : Len(q[u]) <= Backlog}

\* The messages in the queue of u
Has(q, u) == {q[u][i] : i \in DOMAIN q[u]}

LEMMA SlotsFinite ==
  /\ IsFiniteSet(Slots)
  /\ \A S : S \subseteq Slots => IsFiniteSet(S) /\ Cardinality(S) \in Nat
<1>1. IsFiniteSet(Slots)
  BY SizeAssumption, FS_Interval DEF Slots
<1>2. ASSUME NEW S, S \subseteq Slots
      PROVE  IsFiniteSet(S) /\ Cardinality(S) \in Nat
  <2>1. IsFiniteSet(S)
    BY <1>1, <1>2, FS_Subset
  <2> QED
    BY <2>1, FS_CardinalityType
<1> QED
  BY <1>1, <1>2

LEMMA PlacesFinite ==
  ASSUME NEW q, NEW m
  PROVE  IsFiniteSet(Places(q, m)) /\ Cardinality(Places(q, m)) \in Nat
<1>1. IsFiniteSet(1 .. Backlog)
  BY HeapAssumption, FS_Interval
<1>2. IsFiniteSet(Slots \X (1 .. Backlog))
  BY <1>1, SlotsFinite, FS_Product
<1>3. Places(q, m) \subseteq Slots \X (1 .. Backlog)
  BY DEF Places
<1>4. IsFiniteSet(Places(q, m))
  BY <1>2, <1>3, FS_Subset
<1> QED
  BY <1>4, FS_CardinalityType

LEMMA QueueLen ==
  ASSUME NEW q \in Queues, NEW u \in Slots
  PROVE  /\ q[u] \in Seq(Ids) /\ Len(q[u]) \in Nat /\ Len(q[u]) <= Backlog
         /\ DOMAIN q[u] = 1 .. Len(q[u])
         /\ \A i \in 1 .. Len(q[u]) : q[u][i] \in Ids
  BY LenProperties, ElementOfSeq DEF Queues

LEMMA InPlaces ==
  ASSUME NEW q \in Queues, NEW m, NEW u \in Slots, NEW i
  PROVE  <<u, i>> \in Places(q, m) <=> i \in 1 .. Len(q[u]) /\ q[u][i] = m
<1>1. Len(q[u]) \in Nat /\ Len(q[u]) <= Backlog /\ Backlog \in Nat
  BY QueueLen, HeapAssumption
<1> QED
  BY <1>1 DEF Places

LEMMA PlacePair ==
  ASSUME NEW q, NEW m, NEW p \in Places(q, m)
  PROVE  p = <<p[1], p[2]>> /\ p[1] \in Slots
  BY DEF Places

\* As many places as users, one each
LEMMA OneEach ==
  ASSUME NEW S, S \subseteq Slots, NEW f \in [S -> Nat]
  PROVE  /\ IsFiniteSet({<<u, f[u]>> : u \in S})
         /\ Cardinality({<<u, f[u]>> : u \in S}) = Cardinality(S)
<1> DEFINE T == {<<u, f[u]>> : u \in S}
           g == [u \in S |-> <<u, f[u]>>]
<1>1. g \in [S -> T] /\ \A a, b \in S : g[a] = g[b] => a = b
  OBVIOUS
<1>2. \A t \in T : \E s \in S : g[s] = t
  OBVIOUS
<1> HIDE DEF T, g
<1>3. g \in Bijection(S, T)
  BY <1>1, <1>2, Fun_IsBij
<1>4. ExistsBijection(S, T)
  BY <1>3, Fun_ExistsBij
<1>5. IsFiniteSet(S)
  BY SlotsFinite
<1>6. IsFiniteSet(T) /\ Cardinality(T) = Cardinality(S)
  BY <1>4, <1>5, FS_Bijection
<1> QED
  BY <1>6 DEF T

\* Two separate sets of places
LEMMA Together ==
  ASSUME NEW S, NEW T, IsFiniteSet(S), IsFiniteSet(T), S \cap T = {}
  PROVE  Cardinality(S \cup T) = Cardinality(S) + Cardinality(T)
<1>1. Cardinality(S \cup T) = Cardinality(S) + Cardinality(T) - Cardinality(S \cap T)
  BY FS_Union
<1>2. Cardinality(S \cap T) = 0
  BY FS_EmptySet
<1>3. Cardinality(S) \in Nat /\ Cardinality(T) \in Nat
  BY FS_CardinalityType
<1> QED
  BY <1>1, <1>2, <1>3

-----------------------------------------------------------------------------
\* user_enqueue: m at the end of the queues of to
Posted(q, m, to) == [u \in Slots |-> IF u \in to THEN Append(q[u], m) ELSE q[u]]

LEMMA PostedQueue ==
  ASSUME NEW q \in Queues, NEW m \in Ids, NEW to, NEW u \in Slots
  PROVE  /\ u \in to => /\ Posted(q, m, to)[u] \in Seq(Ids)
                        /\ Len(Posted(q, m, to)[u]) = Len(q[u]) + 1
                        /\ \A i \in 1 .. Len(q[u]) : Posted(q, m, to)[u][i] = q[u][i]
                        /\ Posted(q, m, to)[u][Len(q[u]) + 1] = m
         /\ u \notin to => Posted(q, m, to)[u] = q[u]
<1>1. q[u] \in Seq(Ids)
  BY QueueLen
<1>2. /\ Append(q[u], m) \in Seq(Ids) /\ Len(Append(q[u], m)) = Len(q[u]) + 1
      /\ \A i \in 1 .. Len(q[u]) : Append(q[u], m)[i] = q[u][i]
      /\ Append(q[u], m)[Len(q[u]) + 1] = m
  BY <1>1
<1> QED
  BY <1>2 DEF Posted

LEMMA PostedQueues ==
  ASSUME NEW q \in Queues, NEW m \in Ids, NEW to, \A u \in Slots \cap to : Len(q[u]) < Backlog
  PROVE  Posted(q, m, to) \in Queues
<1>1. ASSUME NEW u \in Slots
      PROVE  Posted(q, m, to)[u] \in Seq(Ids) /\ Len(Posted(q, m, to)[u]) <= Backlog
  <2>1. CASE u \in to
    BY <2>1, PostedQueue, QueueLen, HeapAssumption
  <2>2. CASE u \notin to
    BY <2>2, PostedQueue, QueueLen
  <2> QED
    BY <2>1, <2>2
<1>2. Posted(q, m, to) \in [Slots -> Seq(Ids)]
  BY <1>1 DEF Posted
<1> QED
  BY <1>1, <1>2 DEF Queues

LEMMA PostedHas ==
  ASSUME NEW q \in Queues, NEW m \in Ids, NEW to, NEW u \in Slots,
         \A v \in Slots \cap to : Len(q[v]) < Backlog
  PROVE  Has(Posted(q, m, to), u) = IF u \in to THEN Has(q, u) \cup {m} ELSE Has(q, u)
<1> DEFINE r == Posted(q, m, to)
<1>1. r \in Queues
  BY PostedQueues
<1>2. /\ Len(q[u]) \in Nat /\ DOMAIN q[u] = 1 .. Len(q[u]) /\ DOMAIN r[u] = 1 .. Len(r[u])
  BY <1>1, QueueLen
<1>3. CASE u \in to
  <2>1. /\ Len(r[u]) = Len(q[u]) + 1 /\ r[u][Len(q[u]) + 1] = m
        /\ \A i \in 1 .. Len(q[u]) : r[u][i] = q[u][i]
    BY <1>3, PostedQueue
  <2> HIDE DEF r
  <2>2. 1 .. Len(q[u]) + 1 = 1 .. Len(q[u]) \cup {Len(q[u]) + 1}
    BY <1>2
  <2> DEFINE l == Len(q[u])
  <2>3. Has(r, u) = {r[u][i] : i \in 1 .. l + 1} /\ Has(q, u) = {q[u][i] : i \in 1 .. l}
    BY <1>2, <2>1 DEF Has
  <2>4. 1 .. l + 1 = 1 .. l \cup {l + 1} /\ r[u][l + 1] = m /\ \A i \in 1 .. l : r[u][i] = q[u][i]
    BY <2>1, <2>2
  <2> HIDE DEF l
  <2>5. Has(r, u) = Has(q, u) \cup {m}
    BY <2>3, <2>4
  <2> QED
    BY <1>3, <2>5 DEF r
<1>4. CASE u \notin to
  BY <1>4, PostedQueue DEF Has
<1> QED
  BY <1>3, <1>4

LEMMA PostedPlaces ==
  ASSUME NEW q \in Queues, NEW m \in Ids, NEW to, to \subseteq Slots,
         \A u \in to : Len(q[u]) < Backlog, NEW n
  PROVE  Cardinality(Places(Posted(q, m, to), n)) =
           Cardinality(Places(q, n)) + (IF n = m THEN Cardinality(to) ELSE 0)
<1> DEFINE r == Posted(q, m, to)
           f == [u \in to |-> Len(q[u]) + 1]
           ends == {<<u, f[u]>> : u \in to}
<1>1. r \in Queues
  BY PostedQueues
<1>2. ASSUME NEW u \in Slots, NEW i
      PROVE  <<u, i>> \in Places(r, n) <=>
               <<u, i>> \in Places(q, n) \/ (u \in to /\ n = m /\ i = Len(q[u]) + 1)
  <2>1. /\ <<u, i>> \in Places(r, n) <=> i \in 1 .. Len(r[u]) /\ r[u][i] = n
        /\ <<u, i>> \in Places(q, n) <=> i \in 1 .. Len(q[u]) /\ q[u][i] = n
    BY <1>1, InPlaces
  <2>2. CASE u \in to
    <3>1. /\ Len(r[u]) = Len(q[u]) + 1 /\ r[u][Len(q[u]) + 1] = m
          /\ \A j \in 1 .. Len(q[u]) : r[u][j] = q[u][j]
      BY <2>2, PostedQueue
    <3>2. Len(q[u]) \in Nat
      BY QueueLen
    <3> HIDE DEF r
    <3> QED
      BY <2>1, <2>2, <3>1, <3>2
  <2>3. CASE u \notin to
    BY <2>1, <2>3, PostedQueue
  <2> QED
    BY <2>2, <2>3
<1>3. f \in [to -> Nat]
  BY QueueLen
<1>4. IsFiniteSet(Places(q, n)) /\ Cardinality(Places(q, n)) \in Nat
  BY PlacesFinite
<1>5. CASE n = m
  <2>1. Places(r, n) = Places(q, n) \cup ends
    <3>1. ASSUME NEW p \in Places(r, n)
          PROVE  p \in Places(q, n) \cup ends
      <4>1. p = <<p[1], p[2]>> /\ p[1] \in Slots
        BY PlacePair
      <4>2. <<p[1], p[2]>> \in Places(q, n) \/ (p[1] \in to /\ p[2] = Len(q[p[1]]) + 1)
        BY <1>2, <4>1
      <4> QED
        BY <4>1, <4>2
    <3>2. ASSUME NEW p \in Places(q, n)
          PROVE  p \in Places(r, n)
      BY <1>2, PlacePair
    <3>3. ASSUME NEW u \in to
          PROVE  <<u, f[u]>> \in Places(r, n)
      BY <1>2, <1>5
    <3> QED
      BY <3>1, <3>2, <3>3
  <2>2. Places(q, n) \cap ends = {}
    <3> SUFFICES ASSUME NEW u \in to PROVE <<u, f[u]>> \notin Places(q, n)
      OBVIOUS
    <3>1. f[u] \notin 1 .. Len(q[u])
      BY QueueLen
    <3> QED
      BY <3>1, InPlaces
  <2>3. IsFiniteSet(ends) /\ Cardinality(ends) = Cardinality(to)
    BY <1>3, OneEach
  <2> HIDE DEF ends, r
  <2>4. Cardinality(Places(r, n)) = Cardinality(Places(q, n)) + Cardinality(to)
    BY <1>4, <2>1, <2>2, <2>3, Together
  <2> QED
    BY <1>5, <2>4 DEF r
<1>6. CASE n # m
  <2>1. Places(r, n) = Places(q, n)
    <3>1. \A p \in Places(r, n) : p \in Places(q, n)
      BY <1>2, <1>6, PlacePair
    <3>2. \A p \in Places(q, n) : p \in Places(r, n)
      BY <1>2, <1>6, PlacePair
    <3> QED
      BY <3>1, <3>2
  <2> QED
    BY <1>4, <1>6, <2>1
<1> QED
  BY <1>5, <1>6

-----------------------------------------------------------------------------
\* The queue of u thrown away
Emptied(q, u) == [q EXCEPT ![u] = <<>>]

\* References to m in the queue of u: what InQueue counts
Within(q, u, m) == Cardinality({i \in DOMAIN q[u] : q[u][i] = m})

LEMMA EmptiedQueues ==
  ASSUME NEW q \in Queues, NEW u \in Slots
  PROVE  /\ Emptied(q, u) \in Queues
         /\ \A v \in Slots : Has(Emptied(q, u), v) = IF v = u THEN {} ELSE Has(q, v)
<1>1. /\ Emptied(q, u) \in [Slots -> Seq(Ids)] /\ Emptied(q, u)[u] = <<>>
      /\ \A v \in Slots : v # u => Emptied(q, u)[v] = q[v]
  BY DEF Emptied, Queues
<1>2. Len(<<>>) = 0 /\ 0 <= Backlog
  BY HeapAssumption
<1>3. Emptied(q, u) \in Queues
  BY <1>1, <1>2 DEF Queues
<1>4. Has(Emptied(q, u), u) = {}
  BY <1>1 DEF Has
<1> QED
  BY <1>1, <1>3, <1>4 DEF Has

LEMMA WithinFinite ==
  ASSUME NEW q \in Queues, NEW u \in Slots, NEW m
  PROVE  /\ IsFiniteSet({i \in DOMAIN q[u] : q[u][i] = m}) /\ Within(q, u, m) \in Nat
         /\ Within(q, u, m) = 0 <=> m \notin Has(q, u)
<1> DEFINE S == {i \in DOMAIN q[u] : q[u][i] = m}
<1>1. IsFiniteSet(DOMAIN q[u])
  BY QueueLen, FS_Interval
<1>2. IsFiniteSet(S)
  BY <1>1, FS_Subset
<1>3. Cardinality(S) \in Nat
  BY <1>2, FS_CardinalityType
<1>4. Cardinality(S) = 0 <=> S = {}
  BY <1>2, FS_EmptySet
<1> QED
  BY <1>2, <1>3, <1>4 DEF Within, Has

LEMMA EmptiedPlaces ==
  ASSUME NEW q \in Queues, NEW u \in Slots, NEW n
  PROVE  Cardinality(Places(q, n)) = Cardinality(Places(Emptied(q, u), n)) + Within(q, u, n)
<1> DEFINE r == Emptied(q, u)
           S == {i \in DOMAIN q[u] : q[u][i] = n}
           T == {<<u, i>> : i \in S}
           f == [i \in S |-> <<u, i>>]
<1>1. r \in Queues
  BY EmptiedQueues
<1>2. Len(r[u]) = 0 /\ \A v \in Slots : v # u => r[v] = q[v]
  BY DEF Emptied, Queues
<1>3. DOMAIN q[u] = 1 .. Len(q[u])
  BY QueueLen
<1>4. Places(q, n) = Places(r, n) \cup T
  <2>1. ASSUME NEW p \in Places(q, n)
        PROVE  p \in Places(r, n) \cup T
    <3>1. p = <<p[1], p[2]>> /\ p[1] \in Slots
      BY PlacePair
    <3>2. p[2] \in 1 .. Len(q[p[1]]) /\ q[p[1]][p[2]] = n
      BY <3>1, InPlaces
    <3>3. CASE p[1] = u
      BY <1>3, <3>1, <3>2, <3>3
    <3>4. CASE p[1] # u
      <4>1. p[2] \in 1 .. Len(r[p[1]]) /\ r[p[1]][p[2]] = n
        BY <1>2, <3>1, <3>2, <3>4
      <4> QED
        BY <1>1, <3>1, <4>1, InPlaces
    <3> QED
      BY <3>3, <3>4
  <2>2. ASSUME NEW p \in Places(r, n)
        PROVE  p \in Places(q, n)
    <3>1. p = <<p[1], p[2]>> /\ p[1] \in Slots
      BY PlacePair
    <3>2. p[2] \in 1 .. Len(r[p[1]]) /\ r[p[1]][p[2]] = n
      BY <1>1, <3>1, InPlaces
    <3>3. p[1] # u
      BY <1>2, <3>2
    <3>4. p[2] \in 1 .. Len(q[p[1]]) /\ q[p[1]][p[2]] = n
      BY <1>2, <3>1, <3>2, <3>3
    <3> QED
      BY <3>1, <3>4, InPlaces
  <2>3. ASSUME NEW i \in S
        PROVE  <<u, i>> \in Places(q, n)
    BY <1>3, InPlaces
  <2> QED
    BY <2>1, <2>2, <2>3
<1>5. Places(r, n) \cap T = {}
  <2> SUFFICES ASSUME NEW i \in S PROVE <<u, i>> \notin Places(r, n)
    OBVIOUS
  <2>1. i \notin 1 .. Len(r[u])
    BY <1>2
  <2> QED
    BY <1>1, <2>1, InPlaces
<1>6. IsFiniteSet(S) /\ Cardinality(S) = Within(q, u, n)
  BY WithinFinite DEF Within
<1>7. f \in [S -> T] /\ (\A a, b \in S : f[a] = f[b] => a = b) /\ (\A t \in T : \E s \in S : f[s] = t)
  OBVIOUS
<1> HIDE DEF S, T, f, r
<1>8. f \in Bijection(S, T)
  BY <1>7, Fun_IsBij
<1>9. ExistsBijection(S, T)
  BY <1>8, Fun_ExistsBij
<1>10. IsFiniteSet(T) /\ Cardinality(T) = Cardinality(S)
  BY <1>6, <1>9, FS_Bijection
<1>11. IsFiniteSet(Places(r, n))
  BY PlacesFinite
<1>12. Cardinality(Places(r, n) \cup T) = Cardinality(Places(r, n)) + Cardinality(T)
  BY <1>5, <1>10, <1>11, Together
<1> QED
  BY <1>4, <1>6, <1>10, <1>12 DEF r

-----------------------------------------------------------------------------
\* The queues of W are one message longer in r than in q, at their front.
Longer(q, r, W) ==
  /\ \A u \in Slots \ W : r[u] = q[u]
  /\ \A u \in W : /\ Len(r[u]) = Len(q[u]) + 1
                  /\ \A i \in 1 .. Len(q[u]) : r[u][i + 1] = q[u][i]

LEMMA LongerPlaces ==
  ASSUME NEW q \in Queues, NEW r \in Queues, NEW W, W \subseteq Slots, Longer(q, r, W), NEW n
  PROVE  Cardinality(Places(r, n)) =
           Cardinality(Places(q, n)) + Cardinality({u \in W : r[u][1] = n})
<1> DEFINE first == {u \in W : r[u][1] = n}
           one == [u \in first |-> 1]
           S == {<<u, one[u]>> : u \in first}
           R == {p \in Places(r, n) : ~ (p[1] \in W /\ p[2] = 1)}
           f == [p \in Places(q, n) |-> IF p[1] \in W THEN <<p[1], p[2] + 1>> ELSE p]
<1>1. ASSUME NEW u \in Slots
      PROVE  /\ Len(q[u]) \in Nat /\ Len(r[u]) \in Nat
             /\ u \in W => Len(r[u]) = Len(q[u]) + 1
             /\ u \notin W => r[u] = q[u]
  BY QueueLen DEF Longer
<1>2. ASSUME NEW p \in Places(q, n)
      PROVE  f[p] \in R
  <2>1. p = <<p[1], p[2]>> /\ p[1] \in Slots
    BY PlacePair
  <2>2. p[2] \in 1 .. Len(q[p[1]]) /\ q[p[1]][p[2]] = n
    BY <2>1, InPlaces
  <2>3. CASE p[1] \in W
    <3>1. p[2] + 1 \in 1 .. Len(r[p[1]]) /\ r[p[1]][p[2] + 1] = n /\ p[2] + 1 # 1
      BY <1>1, <2>1, <2>2, <2>3 DEF Longer
    <3>2. <<p[1], p[2] + 1>> \in Places(r, n)
      BY <2>1, <3>1, InPlaces
    <3> QED
      BY <2>3, <3>1, <3>2
  <2>4. CASE p[1] \notin W
    <3>1. <<p[1], p[2]>> \in Places(r, n)
      BY <1>1, <2>1, <2>2, <2>4, InPlaces
    <3> QED
      BY <2>1, <2>4, <3>1
  <2> QED
    BY <2>3, <2>4
<1>3. ASSUME NEW a \in Places(q, n), NEW b \in Places(q, n), f[a] = f[b]
      PROVE  a = b
  <2>1. /\ a = <<a[1], a[2]>> /\ b = <<b[1], b[2]>>
        /\ a[1] \in Slots /\ b[1] \in Slots
    BY PlacePair
  <2>2. a[2] \in Int /\ b[2] \in Int
    <3>1. a[2] \in 1 .. Len(q[a[1]]) /\ b[2] \in 1 .. Len(q[b[1]])
      BY <2>1, InPlaces
    <3> QED
      BY <3>1
  <2>3. f[a][1] = a[1] /\ f[b][1] = b[1]
    BY <2>1
  <2>4. a[1] = b[1]
    BY <1>3, <2>3
  <2>5. CASE a[1] \in W
    <3>1. f[a][2] = a[2] + 1 /\ f[b][2] = b[2] + 1
      BY <2>4, <2>5
    <3>2. a[2] + 1 = b[2] + 1
      BY <1>3, <3>1
    <3>3. a[2] = b[2]
      BY <2>2, <3>2
    <3> QED
      BY <2>1, <2>4, <3>3
  <2>6. CASE a[1] \notin W
    BY <1>3, <2>4, <2>6
  <2> QED
    BY <2>5, <2>6
<1>4. ASSUME NEW p \in R
      PROVE  \E o \in Places(q, n) : f[o] = p
  <2>1. p = <<p[1], p[2]>> /\ p[1] \in Slots
    BY PlacePair
  <2>2. p[2] \in 1 .. Len(r[p[1]]) /\ r[p[1]][p[2]] = n
    BY <2>1, InPlaces
  <2>3. CASE p[1] \in W
    <3>1. p[2] - 1 \in 1 .. Len(q[p[1]]) /\ p[2] - 1 + 1 = p[2]
      BY <1>1, <2>1, <2>2, <2>3
    <3>2. q[p[1]][p[2] - 1] = n
      BY <2>2, <2>3, <3>1 DEF Longer
    <3>3. <<p[1], p[2] - 1>> \in Places(q, n)
      BY <2>1, <3>1, <3>2, InPlaces
    <3>4. f[<<p[1], p[2] - 1>>] = p
      BY <2>1, <2>3, <3>1, <3>3
    <3> QED
      BY <3>3, <3>4
  <2>4. CASE p[1] \notin W
    <3>1. p \in Places(q, n)
      BY <1>1, <2>1, <2>2, <2>4, InPlaces
    <3> QED
      BY <2>4, <3>1
  <2> QED
    BY <2>3, <2>4
<1>5. Places(r, n) = R \cup S
  <2>1. ASSUME NEW p \in Places(r, n), p[1] \in W, p[2] = 1
        PROVE  p \in S
    <3>1. p = <<p[1], p[2]>> /\ p[1] \in Slots
      BY PlacePair
    <3>2. r[p[1]][1] = n
      BY <2>1, <3>1, InPlaces
    <3> QED
      BY <2>1, <3>1, <3>2
  <2>2. ASSUME NEW u \in first
        PROVE  <<u, one[u]>> \in Places(r, n)
    <3>1. u \in Slots /\ 1 \in 1 .. Len(r[u])
      BY <1>1
    <3> QED
      BY <3>1, InPlaces
  <2> QED
    BY <2>1, <2>2
<1>6. R \cap S = {}
  <2> SUFFICES ASSUME NEW u \in first PROVE <<u, one[u]>> \notin R
    OBVIOUS
  <2>1. one[u] = 1 /\ u \in W
    OBVIOUS
  <2> HIDE DEF one
  <2>2. <<u, one[u]>>[1] = u /\ <<u, one[u]>>[2] = 1
    BY <2>1
  <2> QED
    BY <2>1, <2>2
<1>7. IsFiniteSet(S) /\ Cardinality(S) = Cardinality(first)
  <2>1. first \subseteq Slots /\ one \in [first -> Nat]
    OBVIOUS
  <2> QED
    BY <2>1, OneEach
<1>8. f \in [Places(q, n) -> R]
  BY <1>2
<1> HIDE DEF f, R, S
<1>9. f \in Bijection(Places(q, n), R)
  BY <1>3, <1>4, <1>8, Fun_IsBij
<1>10. IsFiniteSet(R) /\ Cardinality(R) = Cardinality(Places(q, n))
  <2>1. ExistsBijection(Places(q, n), R)
    BY <1>9, Fun_ExistsBij
  <2> QED
    BY <2>1, PlacesFinite, FS_Bijection
<1> QED
  BY <1>5, <1>6, <1>7, <1>10, Together

\* user_force: m at the front of the queue of u
Forced(q, u, m) == [q EXCEPT ![u] = <<m>> \o @]

LEMMA ForcedQueue ==
  ASSUME NEW q \in Queues, NEW u \in Slots, NEW m \in Ids
  PROVE  /\ Forced(q, u, m)[u] \in Seq(Ids) /\ Len(Forced(q, u, m)[u]) = Len(q[u]) + 1
         /\ Forced(q, u, m)[u][1] = m
         /\ \A i \in 1 .. Len(q[u]) : Forced(q, u, m)[u][i + 1] = q[u][i]
         /\ \A v \in Slots : v # u => Forced(q, u, m)[v] = q[v]
<1> DEFINE s == <<m>> \o q[u]
<1>1. /\ Forced(q, u, m)[u] = s
      /\ \A v \in Slots : v # u => Forced(q, u, m)[v] = q[v]
  BY DEF Forced, Queues
<1>2. q[u] \in Seq(Ids) /\ Len(q[u]) \in Nat
  BY QueueLen
<1>3. <<m>> \in Seq(Ids) /\ Len(<<m>>) = 1 /\ <<m>>[1] = m
  OBVIOUS
<1>4. /\ s \in Seq(Ids) /\ Len(s) = 1 + Len(q[u])
      /\ \A i \in 1 .. 1 + Len(q[u]) : s[i] = IF i <= 1 THEN <<m>>[i] ELSE q[u][i - 1]
  BY <1>2, <1>3, ConcatProperties
<1> HIDE DEF s
<1>5. s[1] = m
  BY <1>2, <1>3, <1>4
<1>6. ASSUME NEW i \in 1 .. Len(q[u])
      PROVE  s[i + 1] = q[u][i]
  <2>1. i + 1 \in 1 .. 1 + Len(q[u]) /\ ~ (i + 1 <= 1) /\ i + 1 - 1 = i
    BY <1>2
  <2> QED
    BY <1>4, <2>1
<1> QED
  BY <1>1, <1>2, <1>4, <1>5, <1>6

LEMMA ForcedQueues ==
  ASSUME NEW q \in Queues, NEW u \in Slots, NEW m \in Ids, Len(q[u]) < Backlog
  PROVE  Forced(q, u, m) \in Queues
<1>1. /\ Forced(q, u, m)[u] \in Seq(Ids) /\ Len(Forced(q, u, m)[u]) = Len(q[u]) + 1
      /\ \A v \in Slots : v # u => Forced(q, u, m)[v] = q[v]
  BY ForcedQueue
<1>2. \A v \in Slots : Forced(q, u, m)[v] \in Seq(Ids) /\ Len(Forced(q, u, m)[v]) <= Backlog
  BY <1>1, QueueLen, HeapAssumption
<1>3. Forced(q, u, m) \in [Slots -> Seq(Ids)]
  BY <1>2 DEF Forced, Queues
<1> QED
  BY <1>2, <1>3 DEF Queues

LEMMA ForcedHas ==
  ASSUME NEW q \in Queues, NEW u \in Slots, NEW m \in Ids, Len(q[u]) < Backlog, NEW v \in Slots
  PROVE  Has(Forced(q, u, m), v) = IF v = u THEN Has(q, v) \cup {m} ELSE Has(q, v)
<1> DEFINE r == Forced(q, u, m)
<1>1. r \in Queues
  BY ForcedQueues
<1>2. /\ Len(r[u]) = Len(q[u]) + 1 /\ r[u][1] = m
      /\ \A i \in 1 .. Len(q[u]) : r[u][i + 1] = q[u][i]
      /\ v # u => r[v] = q[v]
  BY ForcedQueue
<1>3. /\ Len(q[u]) \in Nat /\ DOMAIN q[u] = 1 .. Len(q[u]) /\ DOMAIN r[u] = 1 .. Len(r[u])
  BY <1>1, QueueLen
<1> HIDE DEF r
<1>4. Has(r, u) = Has(q, u) \cup {m}
  <2>1. ASSUME NEW i \in 1 .. Len(r[u])
        PROVE  r[u][i] \in Has(q, u) \cup {m}
    <3>1. CASE i = 1
      BY <1>2, <3>1
    <3>2. CASE i # 1
      <4>1. i - 1 \in 1 .. Len(q[u]) /\ i - 1 + 1 = i
        BY <1>2, <1>3, <3>2
      <4>2. r[u][i] = q[u][i - 1]
        BY <1>2, <4>1
      <4> QED
        BY <1>3, <4>1, <4>2 DEF Has
    <3> QED
      BY <3>1, <3>2
  <2>2. ASSUME NEW i \in 1 .. Len(q[u])
        PROVE  q[u][i] \in Has(r, u)
    <3>1. i + 1 \in DOMAIN r[u] /\ r[u][i + 1] = q[u][i]
      BY <1>2, <1>3
    <3> QED
      BY <3>1 DEF Has
  <2>3. m \in Has(r, u)
    <3>1. 1 \in DOMAIN r[u]
      BY <1>2, <1>3
    <3> QED
      BY <1>2, <3>1 DEF Has
  <2> QED
    BY <1>3, <2>1, <2>2, <2>3 DEF Has
<1>5. v # u => Has(r, v) = Has(q, v)
  BY <1>2 DEF Has
<1> QED
  BY <1>4, <1>5 DEF r

LEMMA ForcedPlaces ==
  ASSUME NEW q \in Queues, NEW u \in Slots, NEW m \in Ids, Len(q[u]) < Backlog, NEW n
  PROVE  Cardinality(Places(Forced(q, u, m), n)) =
           Cardinality(Places(q, n)) + (IF n = m THEN 1 ELSE 0)
<1> DEFINE r == Forced(q, u, m)
<1>1. r \in Queues
  BY ForcedQueues
<1>2. Longer(q, r, {u}) /\ r[u][1] = m
  BY ForcedQueue DEF Longer
<1> HIDE DEF r
<1>3. Cardinality(Places(r, n)) = Cardinality(Places(q, n)) + Cardinality({v \in {u} : r[v][1] = n})
  BY <1>1, <1>2, LongerPlaces
<1>4. CASE n = m
  <2>1. {v \in {u} : r[v][1] = n} = {u}
    BY <1>2, <1>4
  <2> QED
    BY <1>3, <1>4, <2>1, FS_Singleton DEF r
<1>5. CASE n # m
  <2>1. {v \in {u} : r[v][1] = n} = {}
    BY <1>2, <1>5
  <2> QED
    BY <1>3, <1>5, <2>1, FS_EmptySet DEF r
<1> QED
  BY <1>4, <1>5

\* user_transmit: the first message of each of T gone
Sent(q, T) == [u \in Slots |-> IF u \in T THEN Tail(q[u]) ELSE q[u]]

LEMMA SentQueue ==
  ASSUME NEW q \in Queues, NEW T, NEW u \in Slots, u \in T, q[u] # <<>>
  PROVE  /\ Sent(q, T)[u] \in Seq(Ids) /\ Len(q[u]) = Len(Sent(q, T)[u]) + 1
         /\ \A i \in 1 .. Len(Sent(q, T)[u]) : q[u][i + 1] = Sent(q, T)[u][i]
         /\ q[u][1] = Head(q[u])
<1>1. Sent(q, T)[u] = Tail(q[u])
  BY DEF Sent
<1>2. q[u] \in Seq(Ids) /\ Len(q[u]) \in Nat
  BY QueueLen
<1>3. /\ Tail(q[u]) \in Seq(Ids) /\ Len(Tail(q[u])) = Len(q[u]) - 1
      /\ \A i \in 1 .. Len(Tail(q[u])) : Tail(q[u])[i] = q[u][i + 1]
  BY <1>2, HeadTailProperties
<1>4. Head(q[u]) = q[u][1]
  BY <1>2
<1> QED
  BY <1>1, <1>2, <1>3, <1>4

LEMMA SentQueues ==
  ASSUME NEW q \in Queues, NEW T, T \subseteq Slots, \A u \in T : q[u] # <<>>
  PROVE  Sent(q, T) \in Queues /\ Longer(Sent(q, T), q, T)
<1>1. ASSUME NEW u \in Slots
      PROVE  Sent(q, T)[u] \in Seq(Ids) /\ Len(Sent(q, T)[u]) <= Backlog
  <2>1. CASE u \in T
    <3>1. Sent(q, T)[u] \in Seq(Ids) /\ Len(q[u]) = Len(Sent(q, T)[u]) + 1
      BY <2>1, SentQueue
    <3>2. Len(Sent(q, T)[u]) \in Nat
      BY <3>1
    <3> QED
      BY <3>1, <3>2, QueueLen, HeapAssumption
  <2>2. CASE u \notin T
    BY <2>2, QueueLen DEF Sent
  <2> QED
    BY <2>1, <2>2
<1>2. Sent(q, T) \in [Slots -> Seq(Ids)]
  BY <1>1 DEF Sent
<1>3. Sent(q, T) \in Queues
  BY <1>1, <1>2 DEF Queues
<1>4. \A u \in Slots \ T : q[u] = Sent(q, T)[u]
  BY DEF Sent
<1>5. Longer(Sent(q, T), q, T)
  BY <1>4, SentQueue DEF Longer
<1> QED
  BY <1>3, <1>5

LEMMA SentPlaces ==
  ASSUME NEW q \in Queues, NEW T, T \subseteq Slots, \A u \in T : q[u] # <<>>, NEW n
  PROVE  Cardinality(Places(q, n)) =
           Cardinality(Places(Sent(q, T), n)) + Cardinality({u \in T : Head(q[u]) = n})
<1> DEFINE r == Sent(q, T)
<1>1. r \in Queues /\ Longer(r, q, T)
  BY SentQueues
<1>2. {u \in T : q[u][1] = n} = {u \in T : Head(q[u]) = n}
  BY SentQueue
<1> HIDE DEF r
<1>3. Cardinality(Places(q, n)) = Cardinality(Places(r, n)) + Cardinality({u \in T : q[u][1] = n})
  BY <1>1, LongerPlaces
<1> QED
  BY <1>2, <1>3 DEF r

LEMMA SentHas ==
  ASSUME NEW q \in Queues, NEW T, T \subseteq Slots, \A u \in T : q[u] # <<>>, NEW u \in Slots
  PROVE  /\ Has(Sent(q, T), u) \subseteq Has(q, u)
         /\ u \in T => Has(q, u) = Has(Sent(q, T), u) \cup {Head(q[u])}
         /\ u \notin T => Has(Sent(q, T), u) = Has(q, u)
<1> DEFINE r == Sent(q, T)
<1>1. r \in Queues
  BY SentQueues
<1>2. CASE u \in T
  <2>1. /\ Len(q[u]) = Len(r[u]) + 1 /\ q[u][1] = Head(q[u])
        /\ \A i \in 1 .. Len(r[u]) : q[u][i + 1] = r[u][i]
    BY <1>2, SentQueue
  <2>2. /\ Len(r[u]) \in Nat /\ DOMAIN q[u] = 1 .. Len(q[u]) /\ DOMAIN r[u] = 1 .. Len(r[u])
    BY <1>1, QueueLen
  <2> HIDE DEF r
  <2>3. ASSUME NEW i \in 1 .. Len(q[u])
        PROVE  q[u][i] \in Has(r, u) \cup {Head(q[u])}
    <3>1. CASE i = 1
      BY <2>1, <3>1
    <3>2. CASE i # 1
      <4>1. i - 1 \in 1 .. Len(r[u]) /\ i - 1 + 1 = i
        BY <2>1, <2>2, <3>2
      <4>2. q[u][i] = r[u][i - 1]
        BY <2>1, <4>1
      <4> QED
        BY <2>2, <4>1, <4>2 DEF Has
    <3> QED
      BY <3>1, <3>2
  <2>4. ASSUME NEW i \in 1 .. Len(r[u])
        PROVE  r[u][i] \in Has(q, u)
    <3>1. i + 1 \in DOMAIN q[u] /\ q[u][i + 1] = r[u][i]
      BY <2>1, <2>2
    <3> QED
      BY <3>1 DEF Has
  <2>5. Head(q[u]) \in Has(q, u)
    <3>1. 1 \in DOMAIN q[u]
      BY <2>1, <2>2
    <3> QED
      BY <2>1, <3>1 DEF Has
  <2>6. Has(q, u) = Has(r, u) \cup {Head(q[u])}
    BY <2>2, <2>3, <2>4, <2>5 DEF Has
  <2> QED
    BY <1>2, <2>6 DEF r
<1>3. CASE u \notin T
  BY <1>3 DEF Sent, Has
<1> QED
  BY <1>2, <1>3

-----------------------------------------------------------------------------
(***************************************************************************)
(* References: due[m] is how often queues, composers and the warning refer *)
(* to m; in the middle of a call it also counts what the caller holds.     *)
(***************************************************************************)
Messages == [Ids -> [kind : {"free", "msg", "toall", "notify", "warn", "expl"},
                     from : Slots, rcpt : SUBSET Slots, text : BOOLEAN, ref : Nat]]

Composed(incs, m) == Cardinality({u \in Slots : incs[u] = m})

Due(q, incs, w) ==
  [m \in Ids |-> Cardinality(Places(q, m)) + Composed(incs, m) + One(w)[m]]

Sound(msgs, due) ==
  \A m \in Ids :
    /\ msgs[m].ref = due[m] + (IF msgs[m].kind = "expl" THEN 1 ELSE 0)
    /\ msgs[m].kind = "free" <=> msgs[m].ref = 0

\* m is the same message still.
Same(msgs, later, m) == later[m].kind = msgs[m].kind /\ later[m].from = msgs[m].from

\* Every message of later, except new, is one of msgs.
Keeps(msgs, later, new) ==
  \A m \in Ids \ {new} : later[m].kind # "free" => Same(msgs, later, m)

LEMMA SoundSame ==
  ASSUME NEW msgs, NEW due, NEW same, Sound(msgs, due), \A m \in Ids : same[m] = due[m]
  PROVE  Sound(msgs, same)
  BY DEF Sound

LEMMA OneType == \A m : One(m) \in [Ids -> Nat]
  BY DEF One

LEMMA ComposedFinite == \A incs, m : Composed(incs, m) \in Nat
  BY SlotsFinite DEF Composed

LEMMA DueType ==
  ASSUME NEW q, NEW incs, NEW w
  PROVE  Due(q, incs, w) \in [Ids -> Nat]
<1>1. \A m \in Ids : /\ Cardinality(Places(q, m)) \in Nat /\ Composed(incs, m) \in Nat
                     /\ One(w)[m] \in Nat
  BY PlacesFinite, ComposedFinite, OneType
<1> QED
  BY <1>1 DEF Due

\* Whoever holds a message refers to it.
LEMMA HeldDue ==
  ASSUME NEW q \in Queues, NEW incs, NEW w, NEW m \in Ids,
         \/ \E u \in Slots : m \in Has(q, u)
         \/ \E u \in Slots : incs[u] = m
         \/ w = m
  PROVE  Due(q, incs, w)[m] # 0
<1> DEFINE p == Cardinality(Places(q, m))
           c == Composed(incs, m)
           o == One(w)[m]
<1>1. p \in Nat /\ c \in Nat /\ o \in Nat
  BY PlacesFinite, ComposedFinite, OneType
<1>2. ASSUME NEW u \in Slots, m \in Has(q, u)
      PROVE  p # 0
  <2>1. PICK i \in 1 .. Len(q[u]) : q[u][i] = m
    BY <1>2, QueueLen DEF Has
  <2>2. <<u, i>> \in Places(q, m)
    BY <2>1, InPlaces
  <2> QED
    BY <2>2, PlacesFinite, FS_EmptySet
<1>3. ASSUME NEW u \in Slots, incs[u] = m
      PROVE  c # 0
  <2>1. {v \in Slots : incs[v] = m} # {}
    BY <1>3
  <2>2. IsFiniteSet({v \in Slots : incs[v] = m})
    BY SlotsFinite
  <2> QED
    BY <2>1, <2>2, FS_EmptySet DEF Composed
<1>4. w = m => o = 1
  BY DEF One
<1>5. Due(q, incs, w)[m] = p + c + o
  BY DEF Due
<1> HIDE DEF p, c, o
<1> QED
  BY <1>1, <1>2, <1>3, <1>4, <1>5

\* A message somebody holds exists.
LEMMA HeldExists ==
  ASSUME NEW q \in Queues, NEW incs, NEW w, NEW m \in Ids, NEW msgs, Sound(msgs, Due(q, incs, w)),
         \/ \E u \in Slots : m \in Has(q, u)
         \/ \E u \in Slots : incs[u] = m
         \/ w = m
  PROVE  msgs[m].kind # "free"
<1>1. Due(q, incs, w)[m] # 0
  BY HeldDue
<1>2. Due(q, incs, w)[m] \in Nat
  BY DueType
<1> QED
  BY <1>1, <1>2 DEF Sound

LEMMA ComposedCleared ==
  ASSUME NEW incs \in [Slots -> Ids \cup {None}], NEW u \in Slots, NEW m \in Ids
  PROVE  Composed(incs, m) = Composed([incs EXCEPT ![u] = None], m) + One(incs[u])[m]
<1> DEFINE S == {v \in Slots : incs[v] = m}
           R == {v \in Slots : [incs EXCEPT ![u] = None][v] = m}
<1>1. m # None
  BY DEF Ids, None
<1>2. R = S \ {u}
  BY <1>1
<1>3. IsFiniteSet(S) /\ Cardinality(S) \in Nat
  BY SlotsFinite
<1>4. Cardinality(S \ {u}) = IF u \in S THEN Cardinality(S) - 1 ELSE Cardinality(S)
  BY <1>3, FS_RemoveElement
<1>5. One(incs[u])[m] = IF u \in S THEN 1 ELSE 0
  BY DEF One
<1>6. Composed(incs, m) = Cardinality(S) /\ Composed([incs EXCEPT ![u] = None], m) = Cardinality(S \ {u})
  BY <1>2 DEF Composed
<1> HIDE DEF S, R
<1> QED
  BY <1>3, <1>4, <1>5, <1>6

LEMMA ComposedSet ==
  ASSUME NEW incs \in [Slots -> Ids \cup {None}], NEW u \in Slots, incs[u] = None,
         NEW k \in Ids, NEW m \in Ids
  PROVE  Composed([incs EXCEPT ![u] = k], m) = Composed(incs, m) + One(k)[m]
<1> DEFINE more == [incs EXCEPT ![u] = k]
<1>1. more \in [Slots -> Ids \cup {None}] /\ more[u] = k /\ [more EXCEPT ![u] = None] = incs
  OBVIOUS
<1> HIDE DEF more
<1>2. Composed(more, m) = Composed([more EXCEPT ![u] = None], m) + One(more[u])[m]
  BY <1>1, ComposedCleared
<1> QED
  BY <1>1, <1>2 DEF more

\* References given up: a message nobody refers to any more is free.
LEMMA UnrefSound ==
  ASSUME NEW msgs \in Messages, NEW due \in [Ids -> Nat], NEW n \in [Ids -> Nat],
         Sound(msgs, due), \A m \in Ids : n[m] <= due[m]
  PROVE  /\ Unref(msgs, n) \in Messages
         /\ Sound(Unref(msgs, n), [m \in Ids |-> due[m] - n[m]])
         /\ Keeps(msgs, Unref(msgs, n), None)
<1> DEFINE after == Unref(msgs, n)
<1>1. 0 \in Slots
  BY SizeAssumption DEF Slots
<1>2. ASSUME NEW m \in Ids
      PROVE  /\ after[m] \in [kind : {"free", "msg", "toall", "notify", "warn", "expl"},
                              from : Slots, rcpt : SUBSET Slots, text : BOOLEAN, ref : Nat]
             /\ after[m].ref = due[m] - n[m] + (IF after[m].kind = "expl" THEN 1 ELSE 0)
             /\ after[m].kind = "free" <=> after[m].ref = 0
             /\ after[m].kind # "free" => Same(msgs, after, m)
  <2>1. /\ msgs[m] \in [kind : {"free", "msg", "toall", "notify", "warn", "expl"},
                        from : Slots, rcpt : SUBSET Slots, text : BOOLEAN, ref : Nat]
        /\ msgs[m].ref \in Nat
    BY DEF Messages
  <2>2. /\ msgs[m].ref = due[m] + (IF msgs[m].kind = "expl" THEN 1 ELSE 0)
        /\ msgs[m].kind = "free" <=> msgs[m].ref = 0
        /\ due[m] \in Nat /\ n[m] \in Nat /\ n[m] <= due[m]
    BY DEF Sound
  <2>3. CASE msgs[m].ref = n[m]
    <3>1. after[m] = Blank
      BY <2>3 DEF Unref
    <3>2. due[m] - n[m] = 0
      BY <2>2, <2>3
    <3> QED
      BY <1>1, <3>1, <3>2 DEF Blank, Same
  <2>4. CASE msgs[m].ref # n[m]
    <3>1. after[m] = [msgs[m] EXCEPT !.ref = @ - n[m]]
      BY <2>4 DEF Unref
    <3>2. /\ after[m].kind = msgs[m].kind /\ after[m].from = msgs[m].from
          /\ after[m].ref = msgs[m].ref - n[m]
      BY <2>1, <3>1
    <3>3. msgs[m].ref - n[m] \in Nat /\ msgs[m].ref - n[m] # 0 /\ msgs[m].kind # "free"
      BY <2>2, <2>4
    <3>4. msgs[m].ref - n[m] = due[m] - n[m] + (IF msgs[m].kind = "expl" THEN 1 ELSE 0)
      BY <2>2
    <3>5. after[m] \in [kind : {"free", "msg", "toall", "notify", "warn", "expl"},
                        from : Slots, rcpt : SUBSET Slots, text : BOOLEAN, ref : Nat]
      BY <2>1, <3>1, <3>3
    <3> HIDE DEF after
    <3> QED
      BY <3>2, <3>3, <3>4, <3>5 DEF Same
  <2> QED
    BY <2>3, <2>4
<1>3. after \in Messages
  BY <1>2 DEF Messages, Unref
<1> HIDE DEF after
<1>4. Sound(after, [m \in Ids |-> due[m] - n[m]])
  BY <1>2 DEF Sound
<1>5. Keeps(msgs, after, None)
  BY <1>2 DEF Keeps
<1> QED
  BY <1>3, <1>4, <1>5 DEF after

\* More references to a message that exists
LEMMA RaisedSound ==
  ASSUME NEW msgs \in Messages, NEW due \in [Ids -> Nat], Sound(msgs, due),
         NEW m \in Ids, msgs[m].kind # "free", NEW k \in Nat
  PROVE  /\ [msgs EXCEPT ![m].ref = @ + k] \in Messages
         /\ Sound([msgs EXCEPT ![m].ref = @ + k], [n \in Ids |-> due[n] + (IF n = m THEN k ELSE 0)])
         /\ Keeps(msgs, [msgs EXCEPT ![m].ref = @ + k], None)
<1> DEFINE after == [msgs EXCEPT ![m].ref = @ + k]
<1>1. ASSUME NEW n \in Ids
      PROVE  /\ after[n] \in [kind : {"free", "msg", "toall", "notify", "warn", "expl"},
                              from : Slots, rcpt : SUBSET Slots, text : BOOLEAN, ref : Nat]
             /\ after[n].kind = msgs[n].kind /\ after[n].from = msgs[n].from
             /\ after[n].ref = msgs[n].ref + (IF n = m THEN k ELSE 0)
  BY DEF Messages
<1>2. after \in Messages
  BY <1>1 DEF Messages
<1> HIDE DEF after
<1>3. ASSUME NEW n \in Ids
      PROVE  /\ after[n].ref = due[n] + (IF n = m THEN k ELSE 0) + (IF after[n].kind = "expl" THEN 1 ELSE 0)
             /\ after[n].kind = "free" <=> after[n].ref = 0
  <2>1. /\ msgs[n].ref = due[n] + (IF msgs[n].kind = "expl" THEN 1 ELSE 0)
        /\ msgs[n].kind = "free" <=> msgs[n].ref = 0
        /\ msgs[n].ref \in Nat /\ due[n] \in Nat
    BY DEF Sound, Messages
  <2>2. CASE n = m
    <3>1. /\ after[n].ref = msgs[n].ref + k /\ after[n].kind = msgs[n].kind
          /\ msgs[n].kind # "free"
      BY <1>1, <2>2
    <3>2. msgs[n].ref + k # 0
      <4>1. msgs[n].ref # 0 /\ msgs[n].ref \in Nat
        BY <2>1, <3>1
      <4> QED
        BY <4>1
    <3>3. CASE msgs[n].kind = "expl"
      BY <2>1, <2>2, <3>1, <3>2, <3>3
    <3>4. CASE msgs[n].kind # "expl"
      BY <2>1, <2>2, <3>1, <3>2, <3>4
    <3> QED
      BY <3>3, <3>4
  <2>3. CASE n # m
    BY <1>1, <2>1, <2>3
  <2> QED
    BY <2>2, <2>3
<1>4. Sound(after, [n \in Ids |-> due[n] + (IF n = m THEN k ELSE 0)])
  BY <1>3 DEF Sound
<1>5. Keeps(msgs, after, None)
  BY <1>1 DEF Keeps, Same
<1> QED
  BY <1>2, <1>4, <1>5 DEF after

\* A new message with k references, and the one more that EXPLAIN leaves
LEMMA MadeSound ==
  ASSUME NEW msgs \in Messages, NEW due \in [Ids -> Nat], Sound(msgs, due),
         NEW m \in Ids, msgs[m].kind = "free", NEW k \in Nat \ {0},
         NEW new \in [kind : {"msg", "toall", "notify", "warn", "expl"},
                      from : Slots, rcpt : SUBSET Slots, text : BOOLEAN, ref : Nat],
         new.ref = k + (IF new.kind = "expl" THEN 1 ELSE 0)
  PROVE  /\ [msgs EXCEPT ![m] = new] \in Messages
         /\ Sound([msgs EXCEPT ![m] = new], [n \in Ids |-> due[n] + (IF n = m THEN k ELSE 0)])
         /\ Keeps(msgs, [msgs EXCEPT ![m] = new], m)
<1> DEFINE after == [msgs EXCEPT ![m] = new]
<1>1. /\ after[m] = new /\ after \in Messages
      /\ \A n \in Ids \ {m} : after[n] = msgs[n]
  BY DEF Messages
<1> HIDE DEF after
<1>2. ASSUME NEW n \in Ids
      PROVE  /\ after[n].ref = due[n] + (IF n = m THEN k ELSE 0) + (IF after[n].kind = "expl" THEN 1 ELSE 0)
             /\ after[n].kind = "free" <=> after[n].ref = 0
  <2>1. /\ msgs[n].ref = due[n] + (IF msgs[n].kind = "expl" THEN 1 ELSE 0)
        /\ msgs[n].kind = "free" <=> msgs[n].ref = 0
        /\ msgs[n].ref \in Nat /\ due[n] \in Nat
    BY DEF Sound, Messages
  <2>2. CASE n = m
    <3>1. due[n] = 0 /\ after[n] = new
      BY <1>1, <2>1, <2>2
    <3>2. new.kind # "free" /\ new.ref # 0
      OBVIOUS
    <3> QED
      BY <2>2, <3>1, <3>2
  <2>3. CASE n # m
    BY <1>1, <2>1, <2>3
  <2> QED
    BY <2>2, <2>3
<1>3. Sound(after, [n \in Ids |-> due[n] + (IF n = m THEN k ELSE 0)])
  BY <1>2 DEF Sound
<1>4. Keeps(msgs, after, m)
  BY <1>1 DEF Keeps, Same
<1> QED
  BY <1>1, <1>3, <1>4 DEF after

LEMMA KeepsChain ==
  ASSUME NEW a, NEW b, NEW c, NEW m, Keeps(a, b, m), Keeps(b, c, None)
  PROVE  Keeps(a, c, m)
<1>1. ASSUME NEW n \in Ids \ {m}, c[n].kind # "free"
      PROVE  Same(a, c, n)
  <2>1. n # None
    BY DEF Ids, None
  <2>2. Same(b, c, n)
    BY <1>1, <2>1 DEF Keeps
  <2>3. Same(a, b, n)
    BY <1>1, <2>2 DEF Keeps, Same
  <2> QED
    BY <2>2, <2>3 DEF Same
<1> QED
  BY <1>1 DEF Keeps

LEMMA KeepsNone ==
  ASSUME NEW a, NEW b, NEW m, Keeps(a, b, None)
  PROVE  Keeps(a, b, m)
  BY DEF Keeps, Ids, None

LEMMA PostedDue ==
  ASSUME NEW q \in Queues, NEW m \in Ids, NEW to, to \subseteq Slots,
         \A u \in to : Len(q[u]) < Backlog, NEW incs, NEW w, NEW n \in Ids
  PROVE  Due(Posted(q, m, to), incs, w)[n] =
           Due(q, incs, w)[n] + (IF n = m THEN Cardinality(to) ELSE 0)
<1> DEFINE a == Cardinality(Places(Posted(q, m, to), n))
           b == Cardinality(Places(q, n))
           c == Composed(incs, n)
           o == One(w)[n]
           t == IF n = m THEN Cardinality(to) ELSE 0
<1>1. a = b + t
  BY PostedPlaces
<1>2. b \in Nat /\ c \in Nat /\ o \in Nat /\ t \in Nat
  BY PlacesFinite, ComposedFinite, OneType, SlotsFinite
<1>3. Due(Posted(q, m, to), incs, w)[n] = a + c + o /\ Due(q, incs, w)[n] = b + c + o
  BY DEF Due
<1> HIDE DEF a, b, c, o, t
<1>4. a + c + o = b + c + o + t
  BY <1>1, <1>2
<1> QED
  BY <1>3, <1>4 DEF t

\* user_enqueue for all of to, and the poster's own reference given up
LEMMA EnqueueSound ==
  ASSUME NEW msgs \in Messages, NEW q \in Queues, NEW incs, NEW w, NEW m \in Ids,
         NEW to, to \subseteq Slots,
         Sound(msgs, [n \in Ids |-> Due(q, incs, w)[n] + One(m)[n]]),
         Enqueue(msgs, q, m, to)
  PROVE  /\ queue' = Posted(q, m, to) /\ queue' \in Queues
         /\ msg' \in Messages /\ Sound(msg', Due(queue', incs, w))
         /\ Keeps(msgs, msg', None)
<1> DEFINE due == [n \in Ids |-> Due(q, incs, w)[n] + One(m)[n]]
           k == Cardinality(to)
           counted == [msgs EXCEPT ![m].ref = @ + k]
           more == [n \in Ids |-> due[n] + (IF n = m THEN k ELSE 0)]
           less == [n \in Ids |-> more[n] - One(m)[n]]
<1>1. /\ queue' = Posted(q, m, to) /\ msg' = Unref(counted, One(m))
      /\ \A u \in to : Len(q[u]) < Backlog
  BY DEF Enqueue, Posted
<1>2. Posted(q, m, to) \in Queues
  BY <1>1, PostedQueues
<1>3. k \in Nat
  BY SlotsFinite
<1>4. ASSUME NEW n \in Ids
      PROVE  Due(q, incs, w)[n] \in Nat /\ One(m)[n] \in Nat
  BY DueType, OneType
<1>5. due \in [Ids -> Nat] /\ more \in [Ids -> Nat] /\ One(m) \in [Ids -> Nat]
  BY <1>3, <1>4, OneType
<1>6. due[m] # 0
  BY <1>4 DEF One
<1>7. msgs[m].kind # "free"
  BY <1>5, <1>6 DEF Sound
<1>8. Sound(msgs, due)
  OBVIOUS
<1>9. counted \in Messages /\ Sound(counted, more) /\ Keeps(msgs, counted, None)
  <2> HIDE DEF due, k
  <2> QED
    BY <1>3, <1>5, <1>7, <1>8, RaisedSound
<1>10. \A n \in Ids : One(m)[n] <= more[n]
  BY <1>3, <1>4
<1>11. \A n \in Ids : less[n] = Due(q, incs, w)[n] + (IF n = m THEN k ELSE 0)
  BY <1>3, <1>4
<1> HIDE DEF counted, more
<1>12. /\ Unref(counted, One(m)) \in Messages
       /\ Sound(Unref(counted, One(m)), less)
       /\ Keeps(counted, Unref(counted, One(m)), None)
  BY <1>5, <1>9, <1>10, UnrefSound
<1>13. \A n \in Ids : Due(queue', incs, w)[n] = less[n]
  BY <1>1, <1>11, PostedDue
<1> HIDE DEF less
<1>14. Sound(msg', Due(queue', incs, w))
  BY <1>1, <1>12, <1>13, SoundSame
<1>15. Keeps(msgs, msg', None)
  BY <1>1, <1>9, <1>12, KeepsChain
<1> QED
  BY <1>1, <1>2, <1>12, <1>14, <1>15

-----------------------------------------------------------------------------
(***************************************************************************)
(* The inductive invariant                                                 *)
(***************************************************************************)
\* Every reference is counted.
IRefs ==
  /\ msg \in Messages /\ queue \in Queues
  /\ inc \in [Slots -> Ids \cup {None}] /\ warn \in Ids \cup {None}
  /\ Sound(msg, Due(queue, inc, warn))

IUsers ==
  /\ who \in SUBSET Slots /\ st \in [Slots -> States]
  /\ sending \in SUBSET who
  /\ ig \in [Slots -> SUBSET Slots] /\ ra \in SUBSET who /\ rn \in SUBSET who
  /\ turn \in 0 .. Size + 1
  /\ shown \in SUBSET who /\ dropped \in SUBSET who

\* Nobody is left in a free slot.
IAbsent == \A u \in Slots \ who : st[u] = "IDLE" /\ queue[u] = <<>>

IWarning == warn # None => msg[warn].kind = "warn"

\* ComposersHaveMessages, of one user
Composes(u) ==
  /\ inc[u] # None <=> st[u] = "BUILD"
  /\ inc[u] # None => /\ msg[inc[u]].from = u /\ msg[inc[u]].kind \in {"msg", "toall"}
                      /\ \A v \in Slots : inc[u] \notin Has(queue, v)
IComposers == \A u \in Slots : Composes(u)

IOut == \A u \in who : st[u] = "OUT" => \A m \in Has(queue, u) : msg[m].kind = "warn"

\* Whoever may be about to type EXPLAIN has nothing waiting from somebody he
\* ignores: IGNORE leaves him idle until his queue has begun to move, and what
\* comes later has been looked at.
IHeard ==
  \A u \in who : st[u] = "LINE" \/ (st[u] = "IDLE" /\ turn <= u) =>
    \A m \in Has(queue, u) : msg[m].kind \in {"msg", "toall"} => msg[m].from \notin ig[u]

IReaches == warn # None => \A u \in who : u \in shown \cup dropped \/ warn \in Has(queue, u)

IMessaging ==
  /\ IRefs /\ IUsers /\ IAbsent /\ IWarning /\ IComposers /\ IOut /\ IHeard /\ IReaches
  /\ OutputUndisturbed

LEMMA HasIds == queue \in Queues => \A u \in Slots : Has(queue, u) \subseteq Ids
  BY QueueLen DEF Has

LEMMA FreeUnheld ==
  ASSUME IRefs, NEW m \in Ids, msg[m].kind = "free"
  PROVE  warn # m /\ \A v \in Slots : m \notin Has(queue, v) /\ inc[v] # m
  BY HeldExists DEF IRefs

-----------------------------------------------------------------------------
(***************************************************************************)
(* What the parts of a step do to messages and queues                      *)
(***************************************************************************)
\* At the turn of one slot m, which nobody else has yet, is posted to `to`.
Effect(m, to) ==
  /\ IRefs'
  /\ Keeps(msg, msg', m)
  /\ m # None => /\ warn # m
                 /\ \A v \in Slots \ {turn} : m \notin Has(queue, v) /\ inc[v] # m
  /\ \A v \in Slots : Has(queue', v) \subseteq Has(queue, v) \cup {n \in {m} : v \in to}

LEMMA QuietEffect ==
  ASSUME IRefs, UNCHANGED <<msg, queue, inc, warn>>
  PROVE  Effect(None, {})
  BY DEF Effect, IRefs, Keeps, Same

LEMMA BlankMade ==
  ASSUME NEW k \in {"notify", "warn", "expl"}, NEW r \in Nat
  PROVE  /\ [Blank EXCEPT !.kind = k, !.ref = r] \in
              [kind : {"msg", "toall", "notify", "warn", "expl"},
               from : Slots, rcpt : SUBSET Slots, text : BOOLEAN, ref : Nat]
         /\ [Blank EXCEPT !.kind = k, !.ref = r].kind = k
         /\ [Blank EXCEPT !.kind = k, !.ref = r].ref = r
<1> DEFINE All == [kind : {"free", "msg", "toall", "notify", "warn", "expl"},
                   from : Slots, rcpt : SUBSET Slots, text : BOOLEAN, ref : Nat]
           b == [Blank EXCEPT !.kind = k]
           x == [b EXCEPT !.ref = r]
<1>1. 0 \in Slots
  BY SizeAssumption DEF Slots
<1>2. Blank \in All
  BY <1>1 DEF Blank
<1>3. b \in All /\ b.kind = k
  BY <1>2
<1> HIDE DEF b
<1>4. x \in All /\ x.kind = k /\ x.ref = r
  BY <1>3
<1>5. [Blank EXCEPT !.kind = k, !.ref = r] = x
  BY DEF b
<1> HIDE DEF x
<1> QED
  BY <1>4, <1>5

Hear(ex, rejecting) == {u \in who \ {ex} : u \notin rejecting /\ st[u] # "OUT"}

LEMMA NotifySound ==
  ASSUME NEW msgs \in Messages, NEW q \in Queues, NEW incs, NEW w,
         Sound(msgs, Due(q, incs, w)), who \subseteq Slots, NEW ex, NEW rejecting,
         Notify(ex, msgs, q, rejecting)
  PROVE  \E m \in Ids :
           /\ msgs[m].kind = "free" /\ msg'[m].kind \in {"notify", "free"}
           /\ \A u \in Hear(ex, rejecting) : Len(q[u]) < Backlog
           /\ queue' = Posted(q, m, Hear(ex, rejecting)) /\ queue' \in Queues
           /\ msg' \in Messages /\ Sound(msg', Due(queue', incs, w))
           /\ Keeps(msgs, msg', m)
<1> DEFINE to == Hear(ex, rejecting)
           new == [Blank EXCEPT !.kind = "notify", !.ref = 1]
           due == Due(q, incs, w)
           k == 1
<1>1. PICK m \in Ids : /\ Fresh(msgs, m)
                       /\ Enqueue([msgs EXCEPT ![m] = new], q, m, to)
  BY DEF Notify, Hear
<1> DEFINE made == [msgs EXCEPT ![m] = new]
           more == [n \in Ids |-> due[n] + (IF n = m THEN k ELSE 0)]
<1>2. msgs[m].kind = "free" /\ \A u \in to : Len(q[u]) < Backlog
  BY <1>1 DEF Fresh, Enqueue
<1>3. /\ new \in [kind : {"msg", "toall", "notify", "warn", "expl"},
                  from : Slots, rcpt : SUBSET Slots, text : BOOLEAN, ref : Nat]
      /\ new.ref = 1 /\ new.kind = "notify"
  BY BlankMade
<1>4. due \in [Ids -> Nat]
  BY DueType
<1>5. made \in Messages /\ Sound(made, more) /\ Keeps(msgs, made, m)
  <2>1. Sound(msgs, due)
    BY DEF due
  <2>2. new.ref = k + (IF new.kind = "expl" THEN 1 ELSE 0) /\ k \in Nat \ {0}
    BY <1>3
  <2> HIDE DEF new, due, k
  <2>3. made \in Messages
    BY <1>2, <1>3, <1>4, <2>1, <2>2, MadeSound
  <2>4. Sound(made, more)
    BY <1>2, <1>3, <1>4, <2>1, <2>2, MadeSound
  <2>5. Keeps(msgs, made, m)
    BY <1>2, <1>3, <1>4, <2>1, <2>2, MadeSound
  <2> QED
    BY <2>3, <2>4, <2>5
<1>6. Sound(made, [n \in Ids |-> Due(q, incs, w)[n] + One(m)[n]])
  <2>1. \A n \in Ids : [i \in Ids |-> Due(q, incs, w)[i] + One(m)[i]][n] = more[n]
    BY DEF One
  <2> HIDE DEF made, more
  <2> QED
    BY <1>5, <2>1, SoundSame
<1>7. to \subseteq Slots
  BY DEF Hear
<1>8. made[m] = new
  BY DEF Messages
<1> HIDE DEF made, to, new
<1>9. Enqueue(made, q, m, to)
  BY <1>1 DEF made
<1>10. /\ queue' = Posted(q, m, to) /\ queue' \in Queues
       /\ msg' \in Messages /\ Sound(msg', Due(queue', incs, w))
       /\ Keeps(made, msg', None)
  BY <1>5, <1>6, <1>7, <1>9, EnqueueSound
<1>11. Keeps(msgs, msg', m)
  BY <1>5, <1>10, KeepsChain
<1>12. msg'[m].kind \in {"notify", "free"}
  <2>1. m # None
    BY DEF Ids, None
  <2> QED
    BY <1>3, <1>8, <1>10, <2>1 DEF Keeps, Same
<1> QED
  BY <1>2, <1>10, <1>11, <1>12 DEF to

\* con_notify at the end of a command
LEMMA NotifyEffect ==
  ASSUME IRefs, IUsers, NEW ex, Notify(ex, msg, queue, rn), UNCHANGED <<inc, warn>>
  PROVE  \E m \in Ids : /\ Effect(m, Hear(ex, rn)) /\ msg'[m].kind \in {"notify", "free"}
                        /\ queue' = Posted(queue, m, Hear(ex, rn))
                        /\ \A v \in Hear(ex, rn) : Len(queue[v]) < Backlog
<1>1. /\ msg \in Messages /\ queue \in Queues /\ Sound(msg, Due(queue, inc, warn))
      /\ who \subseteq Slots
  BY DEF IRefs, IUsers
<1>2. PICK m \in Ids :
           /\ msg[m].kind = "free" /\ msg'[m].kind \in {"notify", "free"}
           /\ \A u \in Hear(ex, rn) : Len(queue[u]) < Backlog
           /\ queue' = Posted(queue, m, Hear(ex, rn)) /\ queue' \in Queues
           /\ msg' \in Messages /\ Sound(msg', Due(queue', inc, warn))
           /\ Keeps(msg, msg', m)
  BY <1>1, NotifySound
<1>3. warn # m /\ \A v \in Slots : m \notin Has(queue, v) /\ inc[v] # m
  BY <1>2, FreeUnheld
<1>4. IRefs'
  BY <1>2 DEF IRefs
<1>5. ASSUME NEW v \in Slots
      PROVE  Has(queue', v) \subseteq Has(queue, v) \cup {n \in {m} : v \in Hear(ex, rn)}
  <2>1. Has(queue', v) = IF v \in Hear(ex, rn) THEN Has(queue, v) \cup {m} ELSE Has(queue, v)
    <3>1. \A u \in Slots \cap Hear(ex, rn) : Len(queue[u]) < Backlog
      BY <1>2
    <3> QED
      BY <1>1, <1>2, <3>1, PostedHas
  <2> QED
    BY <2>1
<1>6. Effect(m, Hear(ex, rn))
  BY <1>2, <1>3, <1>4, <1>5 DEF Effect
<1> QED
  BY <1>2, <1>6

LEMMA PostedEffect ==
  ASSUME IRefs, IRefs', NEW m \in Ids, NEW to, to \subseteq Slots,
         queue' = Posted(queue, m, to), \A v \in to : Len(queue[v]) < Backlog,
         Keeps(msg, msg', m), warn # m,
         \A v \in Slots \ {turn} : m \notin Has(queue, v) /\ inc[v] # m
  PROVE  Effect(m, to)
<1>1. ASSUME NEW v \in Slots
      PROVE  Has(queue', v) \subseteq Has(queue, v) \cup {n \in {m} : v \in to}
  <2>1. queue \in Queues /\ \A u \in Slots \cap to : Len(queue[u]) < Backlog
    BY DEF IRefs
  <2>2. Has(queue', v) = IF v \in to THEN Has(queue, v) \cup {m} ELSE Has(queue, v)
    BY <2>1, PostedHas
  <2> QED
    BY <2>2
<1> QED
  BY <1>1 DEF Effect

\* con_warn
LEMMA WarnEffect ==
  ASSUME IRefs, IUsers, PostWarning
  PROVE  \E m \in Ids : /\ Effect(m, who) /\ msg'[m].kind = "warn" /\ warn' = m
                        /\ queue' = Posted(queue, m, who)
                        /\ \A v \in who : Len(queue[v]) < Backlog
<1> DEFINE new == [Blank EXCEPT !.kind = "warn", !.ref = 2]
           due == Due(queue, inc, warn)
           old == One(warn)
<1>1. PICK m \in Ids : /\ Fresh(msg, m) /\ warn' = m
                       /\ Enqueue(Unref([msg EXCEPT ![m] = new], old), queue, m, who)
  BY DEF PostWarning
<1> DEFINE k == 2
           made == [msg EXCEPT ![m] = new]
           more == [n \in Ids |-> due[n] + (IF n = m THEN k ELSE 0)]
           less == [n \in Ids |-> more[n] - old[n]]
           next == Unref(made, old)
<1>2. msg[m].kind = "free" /\ (\A u \in who : Len(queue[u]) < Backlog) /\ inc' = inc
  BY <1>1 DEF Fresh, Enqueue, PostWarning
<1>3. /\ new \in [kind : {"msg", "toall", "notify", "warn", "expl"},
                  from : Slots, rcpt : SUBSET Slots, text : BOOLEAN, ref : Nat]
      /\ new.kind = "warn" /\ new.ref = 2
  BY BlankMade
<1>4. due \in [Ids -> Nat] /\ old \in [Ids -> Nat]
  BY DueType, OneType
<1>5. /\ msg \in Messages /\ queue \in Queues /\ Sound(msg, due) /\ who \subseteq Slots
      /\ inc \in [Slots -> Ids \cup {None}]
  BY DEF IRefs, IUsers
<1>6. made \in Messages /\ Sound(made, more) /\ Keeps(msg, made, m)
  <2> HIDE DEF new, due, old, next, less
  <2>1. new.ref = k + (IF new.kind = "expl" THEN 1 ELSE 0) /\ k \in Nat \ {0}
    BY <1>3
  <2>2. /\ msg \in Messages /\ Sound(msg, due) /\ due \in [Ids -> Nat] /\ msg[m].kind = "free"
        /\ new \in [kind : {"msg", "toall", "notify", "warn", "expl"},
                    from : Slots, rcpt : SUBSET Slots, text : BOOLEAN, ref : Nat]
    BY <1>2, <1>3, <1>4, <1>5
  <2> HIDE DEF k
  <2>3. made \in Messages
    BY <2>1, <2>2, MadeSound
  <2>4. Sound(made, more)
    BY <2>1, <2>2, MadeSound
  <2>5. Keeps(msg, made, m)
    BY <2>1, <2>2, MadeSound
  <2> QED
    BY <2>3, <2>4, <2>5
<1>7. made[m] = new
  BY <1>5 DEF Messages
<1>8. ASSUME NEW n \in Ids
      PROVE  old[n] <= due[n] /\ more[n] \in Nat
  <2>1. due[n] = Cardinality(Places(queue, n)) + Composed(inc, n) + old[n]
    BY DEF Due
  <2> HIDE DEF due, old
  <2> QED
    BY <1>4, <2>1, PlacesFinite, ComposedFinite
<1>9. next \in Messages /\ Sound(next, less) /\ Keeps(made, next, None)
  <2>1. more \in [Ids -> Nat]
    BY <1>8
  <2>2. \A n \in Ids : old[n] <= more[n]
    BY <1>4, <1>8
  <2> HIDE DEF made, more, old
  <2> QED
    BY <1>4, <1>6, <2>1, <2>2, UnrefSound
<1>10. Sound(next, [n \in Ids |-> Due(queue, inc, m)[n] + One(m)[n]])
  <2>1. ASSUME NEW n \in Ids
        PROVE  less[n] = Due(queue, inc, m)[n] + One(m)[n]
    <3>1. /\ due[n] = Cardinality(Places(queue, n)) + Composed(inc, n) + old[n]
          /\ Due(queue, inc, m)[n] = Cardinality(Places(queue, n)) + Composed(inc, n) + One(m)[n]
      BY DEF Due
    <3>2. less[n] = more[n] - old[n] /\ more[n] = due[n] + (IF n = m THEN k ELSE 0)
      OBVIOUS
    <3>3. One(m)[n] = IF n = m THEN 1 ELSE 0
      BY DEF One
    <3>4. /\ Cardinality(Places(queue, n)) \in Nat /\ Composed(inc, n) \in Nat
          /\ old[n] \in Nat
      BY <1>4, PlacesFinite, ComposedFinite
    <3> HIDE DEF due, less, old, more
    <3> QED
      BY <3>1, <3>2, <3>3, <3>4
  <2> HIDE DEF less, next
  <2> QED
    BY <1>9, <2>1, SoundSame
<1> HIDE DEF made, new, next, due, old
<1>11. Enqueue(next, queue, m, who)
  BY <1>1 DEF next, made, new
<1>12. /\ queue' = Posted(queue, m, who) /\ queue' \in Queues
       /\ msg' \in Messages /\ Sound(msg', Due(queue', inc, m))
       /\ Keeps(next, msg', None)
  BY <1>5, <1>9, <1>10, <1>11, EnqueueSound
<1>13. IRefs'
  BY <1>1, <1>2, <1>5, <1>12 DEF IRefs
<1>14. Keeps(made, msg', None) /\ Keeps(msg, msg', m)
  BY <1>6, <1>9, <1>12, KeepsChain
<1>15. Effect(m, who)
  BY <1>2, <1>5, <1>12, <1>13, <1>14, FreeUnheld, PostedEffect
<1>16. msg'[m].kind = "warn"
  <2>1. msg'[m].kind # "free"
    BY <1>12, HeldExists
  <2>2. m # None
    BY DEF Ids, None
  <2> QED
    BY <1>3, <1>7, <1>14, <2>1, <2>2 DEF Keeps, Same
<1> QED
  BY <1>1, <1>2, <1>12, <1>15, <1>16

-----------------------------------------------------------------------------
\* What u is composing, without the reference that u has
LEMMA ComposerDue ==
  ASSUME IRefs, NEW u \in Slots, inc[u] # None
  PROVE  /\ inc[u] \in Ids
         /\ \A n \in Ids : Due(queue, inc, warn)[n] =
              Due(queue, [inc EXCEPT ![u] = None], warn)[n] + One(inc[u])[n]
<1>1. inc \in [Slots -> Ids \cup {None}] /\ inc[u] \in Ids
  BY DEF IRefs
<1>2. ASSUME NEW n \in Ids
      PROVE  Due(queue, inc, warn)[n] =
               Due(queue, [inc EXCEPT ![u] = None], warn)[n] + One(inc[u])[n]
  <2> DEFINE p == Cardinality(Places(queue, n))
             c == Composed(inc, n)
             d == Composed([inc EXCEPT ![u] = None], n)
             o == One(inc[u])[n]
             w == One(warn)[n]
  <2>1. c = d + o
    BY <1>1, ComposedCleared
  <2>2. p \in Nat /\ d \in Nat /\ o \in Nat /\ w \in Nat
    BY PlacesFinite, ComposedFinite, OneType
  <2>3. /\ Due(queue, inc, warn)[n] = p + c + w
        /\ Due(queue, [inc EXCEPT ![u] = None], warn)[n] = p + d + w
    BY DEF Due
  <2> HIDE DEF p, c, d, o, w
  <2>4. p + c + w = p + d + w + o
    BY <2>1, <2>2
  <2> QED
    BY <2>3, <2>4 DEF o
<1> QED
  BY <1>1, <1>2

\* A message aborted, or finished without any text
LEMMA AbortEffect ==
  ASSUME IRefs, NEW u \in Slots, inc[u] # None,
         msg' = Unref(msg, One(inc[u])), inc' = [inc EXCEPT ![u] = None], UNCHANGED <<queue, warn>>
  PROVE  Effect(None, {})
<1> DEFINE due == Due(queue, inc, warn)
           o == One(inc[u])
           less == [n \in Ids |-> due[n] - o[n]]
<1>1. /\ msg \in Messages /\ queue \in Queues /\ Sound(msg, due) /\ inc \in [Slots -> Ids \cup {None}]
      /\ due \in [Ids -> Nat] /\ o \in [Ids -> Nat]
  BY DueType, OneType DEF IRefs
<1>2. \A n \in Ids : /\ due[n] = Due(queue, inc', warn)[n] + o[n]
                     /\ Due(queue, inc', warn)[n] \in Nat
  BY ComposerDue, DueType
<1>3. \A n \in Ids : o[n] <= due[n] /\ less[n] = Due(queue, inc', warn)[n]
  <2> SUFFICES ASSUME NEW n \in Ids
               PROVE  o[n] <= due[n] /\ less[n] = Due(queue, inc', warn)[n]
    OBVIOUS
  <2>1. less[n] = due[n] - o[n]
    OBVIOUS
  <2>2. due[n] \in Nat /\ o[n] \in Nat
    BY <1>1
  <2>3. due[n] = Due(queue, inc', warn)[n] + o[n] /\ Due(queue, inc', warn)[n] \in Nat
    BY <1>2
  <2> HIDE DEF due, o, less
  <2> QED
    BY <2>1, <2>2, <2>3
<1>4. msg' \in Messages /\ Sound(msg', less) /\ Keeps(msg, msg', None)
  <2> HIDE DEF due
  <2> QED
    BY <1>1, <1>3, UnrefSound
<1>5. Sound(msg', Due(queue', inc', warn'))
  <2> HIDE DEF less
  <2> QED
    BY <1>3, <1>4, SoundSame
<1>6. inc' \in [Slots -> Ids \cup {None}]
  BY <1>1
<1>7. IRefs'
  BY <1>4, <1>5, <1>6 DEF IRefs
<1> QED
  BY <1>4, <1>7 DEF Effect

\* con_deliver
LEMMA PostEffect ==
  ASSUME IRefs, IUsers, IComposers, NEW u \in Slots, turn = u, inc[u] # None,
         Enqueue(msg, queue, inc[u], Recipients(inc[u])),
         inc' = [inc EXCEPT ![u] = None], UNCHANGED warn,
         IWarning
  PROVE  /\ Effect(inc[u], Recipients(inc[u])) /\ inc[u] \in Ids
         /\ queue' = Posted(queue, inc[u], Recipients(inc[u]))
         /\ \A v \in Recipients(inc[u]) : Len(queue[v]) < Backlog
         /\ Keeps(msg, msg', None)
<1> DEFINE m == inc[u]
           to == Recipients(inc[u])
           rest == [inc EXCEPT ![u] = None]
           due == [n \in Ids |-> Due(queue, rest, warn)[n] + One(m)[n]]
<1>1. /\ msg \in Messages /\ queue \in Queues /\ Sound(msg, Due(queue, inc, warn))
      /\ inc \in [Slots -> Ids \cup {None}] /\ m \in Ids
  BY ComposerDue DEF IRefs
<1>2. \A n \in Ids : due[n] = Due(queue, inc, warn)[n]
  BY ComposerDue
<1>3. Sound(msg, due)
  <2> HIDE DEF due
  <2> QED
    BY <1>1, <1>2, SoundSame
<1>4. to \subseteq Slots /\ \A v \in to : Len(queue[v]) < Backlog
  BY DEF Recipients, IUsers, Enqueue
<1>5. m # warn /\ \A v \in Slots \ {turn} : m \notin Has(queue, v) /\ inc[v] # m
  <2>1. /\ msg[m].from = u /\ msg[m].kind \in {"msg", "toall"}
        /\ \A v \in Slots : m \notin Has(queue, v)
    BY DEF IComposers, Composes
  <2>2. m # warn
    BY <2>1 DEF IWarning
  <2>3. \A v \in Slots \ {u} : inc[v] = m => msg[m].from = v
    BY DEF IComposers, Composes
  <2> QED
    BY <2>1, <2>2, <2>3
<1>10. inc' = rest /\ rest \in [Slots -> Ids \cup {None}] /\ warn' = warn
  BY <1>1
<1> HIDE DEF m, to, rest
<1>6. /\ queue' = Posted(queue, m, to) /\ queue' \in Queues
      /\ msg' \in Messages /\ Sound(msg', Due(queue', rest, warn))
      /\ Keeps(msg, msg', None)
  <2>1. Enqueue(msg, queue, m, to)
    BY DEF m, to
  <2> QED
    BY <1>1, <1>3, <1>4, <2>1, EnqueueSound
<1>7. IRefs'
  BY <1>1, <1>6, <1>10 DEF IRefs
<1>8. Keeps(msg, msg', m)
  BY <1>6, KeepsNone
<1>9. Effect(m, to)
  BY <1>1, <1>4, <1>5, <1>6, <1>7, <1>8, PostedEffect
<1> QED
  BY <1>1, <1>4, <1>6, <1>9 DEF m, to

-----------------------------------------------------------------------------
\* The message of a TELL, before and after its text
Begun(u, to, kind) == [kind |-> kind, from |-> u, rcpt |-> to, text |-> FALSE, ref |-> 1]
Told(u, to, kind) == [Begun(u, to, kind) EXCEPT !.text = TRUE]

TellRecords == [kind : {"msg", "toall"}, from : Slots, rcpt : SUBSET Slots, text : BOOLEAN, ref : Nat]

LEMMA TellRecord ==
  ASSUME NEW u \in Slots, NEW to \in SUBSET Slots, NEW kind \in {"msg", "toall"}
  PROVE  /\ Begun(u, to, kind) \in TellRecords /\ Told(u, to, kind) \in TellRecords
         /\ Begun(u, to, kind).ref = 1 /\ Told(u, to, kind).ref = 1
         /\ Begun(u, to, kind).from = u /\ Told(u, to, kind).from = u
         /\ Begun(u, to, kind).kind = kind
  BY DEF Begun, Told, TellRecords

LEMMA TellMade ==
  ASSUME IRefs, NEW m \in Ids, msg[m].kind = "free", NEW new \in TellRecords, new.ref = 1
  PROVE  /\ [msg EXCEPT ![m] = new] \in Messages
         /\ Sound([msg EXCEPT ![m] = new], [n \in Ids |-> Due(queue, inc, warn)[n] + One(m)[n]])
         /\ Keeps(msg, [msg EXCEPT ![m] = new], m)
         /\ [msg EXCEPT ![m] = new][m] = new
<1> DEFINE due == Due(queue, inc, warn)
           k == 1
           made == [msg EXCEPT ![m] = new]
           more == [n \in Ids |-> due[n] + (IF n = m THEN k ELSE 0)]
           same == [n \in Ids |-> due[n] + One(m)[n]]
<1>1. msg \in Messages /\ Sound(msg, due) /\ due \in [Ids -> Nat]
  BY DueType DEF IRefs
<1>2. new \in [kind : {"msg", "toall", "notify", "warn", "expl"},
               from : Slots, rcpt : SUBSET Slots, text : BOOLEAN, ref : Nat]
  BY DEF TellRecords
<1>3. new.ref = k + (IF new.kind = "expl" THEN 1 ELSE 0) /\ k \in Nat \ {0}
  BY DEF TellRecords
<1>4. made \in Messages /\ Sound(made, more) /\ Keeps(msg, made, m)
  <2> HIDE DEF due, k, same
  <2>1. made \in Messages
    BY <1>1, <1>2, <1>3, MadeSound
  <2>2. Sound(made, more)
    BY <1>1, <1>2, <1>3, MadeSound
  <2>3. Keeps(msg, made, m)
    BY <1>1, <1>2, <1>3, MadeSound
  <2> QED
    BY <2>1, <2>2, <2>3
<1>5. \A n \in Ids : same[n] = more[n]
  BY DEF One
<1>6. made[m] = new
  BY <1>1 DEF Messages
<1>7. Sound(made, same)
  <2> HIDE DEF made, more, same
  <2> QED
    BY <1>4, <1>5, SoundSame
<1> HIDE DEF made
<1> QED
  BY <1>4, <1>6, <1>7 DEF made

\* A TELL whose text is still to come
LEMMA BuildEffect ==
  ASSUME IRefs, NEW m \in Ids, msg[m].kind = "free", NEW u \in Slots, NEW to \in SUBSET Slots,
         NEW kind \in {"msg", "toall"},
         msg' = [msg EXCEPT ![m] = Begun(u, to, kind)],
         inc[u] = None, inc' = [inc EXCEPT ![u] = m], UNCHANGED <<queue, warn>>
  PROVE  /\ Effect(m, {}) /\ msg'[m].kind = kind /\ msg'[m].from = u
         /\ \A v \in Slots : m \notin Has(queue', v)
<1> DEFINE due == [n \in Ids |-> Due(queue, inc, warn)[n] + One(m)[n]]
           new == Begun(u, to, kind)
           made == [msg EXCEPT ![m] = new]
           more == [inc EXCEPT ![u] = m]
<1>1. /\ msg' \in Messages /\ Sound(msg', due) /\ Keeps(msg, msg', m)
      /\ msg'[m].kind = kind /\ msg'[m].from = u
  <2>1. new \in TellRecords /\ new.ref = 1 /\ new.from = u /\ new.kind = kind
    BY TellRecord
  <2>2. msg' = made
    OBVIOUS
  <2> HIDE DEF new, due, more
  <2>3. made \in Messages /\ Keeps(msg, made, m) /\ made[m] = new
    BY <2>1, TellMade
  <2>4. Sound(made, due)
    BY <2>1, TellMade DEF due
  <2> HIDE DEF made
  <2> QED
    BY <2>1, <2>2, <2>3, <2>4
<1>2. inc \in [Slots -> Ids \cup {None}] /\ inc' \in [Slots -> Ids \cup {None}]
  BY DEF IRefs
<1>3. ASSUME NEW n \in Ids
      PROVE  Due(queue', inc', warn')[n] = due[n]
  <2> DEFINE p == Cardinality(Places(queue, n))
             c == Composed(inc, n)
             d == Composed(inc', n)
             o == One(m)[n]
             w == One(warn)[n]
  <2>1. d = c + o
    <3>1. inc' = more
      OBVIOUS
    <3>2. inc \in [Slots -> Ids \cup {None}]
      BY <1>2
    <3>3. Composed(more, n) = Composed(inc, n) + One(m)[n]
      <4> HIDE DEF due, new, made, p, c, d, o, w
      <4> QED
        BY <3>2, ComposedSet
    <3> HIDE DEF more
    <3> QED
      BY <3>1, <3>3
  <2>2. p \in Nat /\ c \in Nat /\ o \in Nat /\ w \in Nat
    BY PlacesFinite, ComposedFinite, OneType
  <2>3. Due(queue', inc', warn')[n] = p + d + w /\ due[n] = p + c + w + o
    BY DEF Due
  <2> HIDE DEF p, c, d, o, w, due
  <2>4. p + d + w = p + c + w + o
    BY <2>1, <2>2
  <2> QED
    BY <2>3, <2>4
<1>4. Sound(msg', Due(queue', inc', warn'))
  <2> HIDE DEF due
  <2> QED
    BY <1>1, <1>3, SoundSame
<1>5. IRefs'
  BY <1>1, <1>2, <1>4 DEF IRefs
<1>6. warn # m /\ \A v \in Slots : m \notin Has(queue, v) /\ inc[v] # m
  BY FreeUnheld
<1>7. Effect(m, {})
  BY <1>1, <1>5, <1>6 DEF Effect
<1> QED
  BY <1>1, <1>6, <1>7

\* A TELL with its text
LEMMA TextEffect ==
  ASSUME IRefs, NEW m \in Ids, msg[m].kind = "free", NEW u \in Slots, NEW to \in SUBSET Slots,
         NEW kind \in {"msg", "toall"},
         Enqueue([msg EXCEPT ![m] = Told(u, to, kind)], queue, m, to),
         UNCHANGED <<inc, warn>>
  PROVE  /\ Effect(m, to)
         /\ msg'[m].kind # "free" => msg'[m].from = u
         /\ queue' = Posted(queue, m, to)
         /\ \A v \in to : Len(queue[v]) < Backlog
<1> DEFINE new == Told(u, to, kind)
           made == [msg EXCEPT ![m] = new]
           due == [n \in Ids |-> Due(queue, inc, warn)[n] + One(m)[n]]
<1>1. /\ made \in Messages /\ Sound(made, due) /\ Keeps(msg, made, m)
      /\ made[m].from = u
  <2>1. new \in TellRecords /\ new.ref = 1 /\ new.from = u
    BY TellRecord
  <2> HIDE DEF new, due
  <2>2. made \in Messages /\ Keeps(msg, made, m) /\ made[m] = new
    BY <2>1, TellMade
  <2>3. Sound(made, due)
    BY <2>1, TellMade DEF due
  <2> QED
    BY <2>1, <2>2, <2>3
<1>2. Enqueue(made, queue, m, to) /\ queue \in Queues /\ to \subseteq Slots
  BY DEF IRefs
<1>3. \A v \in to : Len(queue[v]) < Backlog
  BY DEF Enqueue
<1> HIDE DEF made
<1>4. /\ queue' = Posted(queue, m, to) /\ queue' \in Queues
      /\ msg' \in Messages /\ Sound(msg', Due(queue', inc, warn))
      /\ Keeps(made, msg', None)
  BY <1>1, <1>2, EnqueueSound
<1>5. IRefs'
  BY <1>4 DEF IRefs
<1>6. Keeps(msg, msg', m)
  BY <1>1, <1>4, KeepsChain
<1>7. Effect(m, to)
  BY <1>2, <1>3, <1>4, <1>5, <1>6, FreeUnheld, PostedEffect
<1>8. msg'[m].kind # "free" => msg'[m].from = u
  <2>1. m # None
    BY DEF Ids, None
  <2> QED
    BY <1>1, <1>4, <2>1 DEF Keeps, Same
<1> QED
  BY <1>3, <1>4, <1>7, <1>8

\* cmd_exp
LEMMA ExplainEffect ==
  ASSUME IRefs, NEW m \in Ids, msg[m].kind = "free", NEW u \in Slots, Len(queue[u]) < Backlog,
         msg' = [msg EXCEPT ![m] = [Blank EXCEPT !.kind = "expl", !.ref = 2]],
         queue' = Forced(queue, u, m), UNCHANGED <<inc, warn>>
  PROVE  Effect(m, {u}) /\ msg'[m].kind = "expl"
<1> DEFINE due == Due(queue, inc, warn)
           k == 1
           new == [Blank EXCEPT !.kind = "expl", !.ref = 2]
           made == [msg EXCEPT ![m] = new]
           more == [n \in Ids |-> due[n] + (IF n = m THEN k ELSE 0)]
<1>1. msg \in Messages /\ Sound(msg, due) /\ due \in [Ids -> Nat] /\ queue \in Queues
  BY DueType DEF IRefs
<1>2. /\ new \in [kind : {"msg", "toall", "notify", "warn", "expl"},
                  from : Slots, rcpt : SUBSET Slots, text : BOOLEAN, ref : Nat]
      /\ new.kind = "expl" /\ new.ref = 2
  BY BlankMade
<1>3. new.ref = k + (IF new.kind = "expl" THEN 1 ELSE 0) /\ k \in Nat \ {0}
  BY <1>2
<1>4. msg' \in Messages /\ Sound(msg', more) /\ Keeps(msg, msg', m)
  <2>1. msg' = made
    OBVIOUS
  <2> HIDE DEF new, due, k
  <2>2. made \in Messages
    BY <1>1, <1>2, <1>3, MadeSound
  <2>3. Sound(made, more)
    BY <1>1, <1>2, <1>3, MadeSound
  <2>4. Keeps(msg, made, m)
    BY <1>1, <1>2, <1>3, MadeSound
  <2> QED
    BY <2>1, <2>2, <2>3, <2>4
<1>5. ASSUME NEW n \in Ids
      PROVE  Due(queue', inc', warn')[n] = more[n]
  <2> DEFINE p == Cardinality(Places(queue, n))
             q == Cardinality(Places(queue', n))
             c == Composed(inc, n)
             w == One(warn)[n]
             one == IF n = m THEN 1 ELSE 0
  <2>1. q = p + one
    BY <1>1, ForcedPlaces
  <2>2. p \in Nat /\ c \in Nat /\ w \in Nat /\ one \in Nat
    BY PlacesFinite, ComposedFinite, OneType
  <2>3. Due(queue', inc', warn')[n] = q + c + w /\ more[n] = p + c + w + one
    BY DEF Due
  <2> HIDE DEF p, q, c, w, one, more
  <2>4. q + c + w = p + c + w + one
    BY <2>1, <2>2
  <2> QED
    BY <2>3, <2>4
<1>6. Sound(msg', Due(queue', inc', warn'))
  <2> HIDE DEF more
  <2> QED
    BY <1>4, <1>5, SoundSame
<1>7. queue' \in Queues
  BY <1>1, ForcedQueues
<1>8. IRefs'
  BY <1>4, <1>6, <1>7 DEF IRefs
<1>9. warn # m /\ \A v \in Slots : m \notin Has(queue, v) /\ inc[v] # m
  BY FreeUnheld
<1>10. \A v \in Slots : Has(queue', v) \subseteq Has(queue, v) \cup {n \in {m} : v \in {u}}
  BY <1>1, ForcedHas
<1>11. msg'[m].kind = "expl"
  BY <1>1, <1>2 DEF Messages
<1> QED
  BY <1>4, <1>8, <1>9, <1>10, <1>11 DEF Effect

-----------------------------------------------------------------------------
\* A line of text changes nothing about who has what from whom.
LEMMA WriteEffect ==
  ASSUME IRefs, NEW u \in Slots, inc[u] # None,
         msg' = [msg EXCEPT ![inc[u]].text = TRUE], UNCHANGED <<queue, inc, warn>>
  PROVE  Effect(None, {})
<1>1. msg \in Messages /\ Sound(msg, Due(queue, inc, warn)) /\ inc[u] \in Ids
  BY ComposerDue DEF IRefs
<1>2. ASSUME NEW n \in Ids
      PROVE  /\ msg'[n] \in [kind : {"free", "msg", "toall", "notify", "warn", "expl"},
                             from : Slots, rcpt : SUBSET Slots, text : BOOLEAN, ref : Nat]
             /\ msg'[n].kind = msg[n].kind /\ msg'[n].from = msg[n].from
             /\ msg'[n].ref = msg[n].ref
  BY <1>1 DEF Messages
<1>3. msg' \in Messages
  BY <1>1, <1>2 DEF Messages
<1>4. Sound(msg', Due(queue, inc, warn))
  BY <1>1, <1>2 DEF Sound
<1>5. Keeps(msg, msg', None)
  BY <1>2 DEF Keeps, Same
<1>6. IRefs'
  BY <1>3, <1>4 DEF IRefs
<1> QED
  BY <1>5, <1>6 DEF Effect

\* cmd_out: what was queued for u is given up.
LEMMA OutEffect ==
  ASSUME IRefs, NEW u \in Slots,
         msg' = Unref(msg, [m \in Ids |-> InQueue(u, m)]),
         queue' = Emptied(queue, u), UNCHANGED <<inc, warn>>
  PROVE  Effect(None, {})
<1> DEFINE due == Due(queue, inc, warn)
           gone == [m \in Ids |-> InQueue(u, m)]
           less == [m \in Ids |-> due[m] - gone[m]]
<1>1. /\ msg \in Messages /\ queue \in Queues /\ Sound(msg, due) /\ due \in [Ids -> Nat]
  BY DueType DEF IRefs
<1>2. gone \in [Ids -> Nat]
  <2>1. \A m \in Ids : Within(queue, u, m) \in Nat
    BY <1>1, WithinFinite
  <2>2. \A m \in Ids : InQueue(u, m) = Within(queue, u, m)
    BY DEF InQueue, Within
  <2> QED
    BY <2>1, <2>2
<1>3. ASSUME NEW n \in Ids
      PROVE  gone[n] <= due[n] /\ less[n] = Due(queue', inc', warn')[n]
  <2> DEFINE p == Cardinality(Places(queue, n))
             q == Cardinality(Places(queue', n))
             g == gone[n]
             c == Composed(inc, n)
             w == One(warn)[n]
             d == due[n]
             l == less[n]
             f == Due(queue', inc', warn')[n]
  <2>1. p = q + g
    BY <1>1, EmptiedPlaces DEF InQueue, Within
  <2>2. p \in Nat /\ q \in Nat /\ c \in Nat /\ w \in Nat /\ g \in Nat
    BY <1>2, PlacesFinite, ComposedFinite, OneType
  <2>3. f = q + c + w /\ d = p + c + w /\ l = d - g
    BY DEF Due
  <2> HIDE DEF p, q, c, w, g, d, l, f, due, less, gone
  <2>4. g <= d /\ l = f
    BY <2>1, <2>2, <2>3
  <2> QED
    BY <2>4 DEF g, d, l, f
<1>4. msg' \in Messages /\ Sound(msg', less) /\ Keeps(msg, msg', None)
  <2>1. msg' = Unref(msg, gone)
    OBVIOUS
  <2> HIDE DEF due, gone
  <2>2. \A n \in Ids : gone[n] <= due[n]
    BY <1>3
  <2> QED
    BY <1>1, <1>2, <2>1, <2>2, UnrefSound
<1>5. Sound(msg', Due(queue', inc', warn'))
  <2> HIDE DEF less
  <2> QED
    BY <1>3, <1>4, SoundSame
<1>6. queue' \in Queues /\ \A v \in Slots : Has(queue', v) \subseteq Has(queue, v)
  BY <1>1, EmptiedQueues
<1>7. IRefs'
  BY <1>4, <1>5, <1>6 DEF IRefs
<1> QED
  BY <1>4, <1>6, <1>7 DEF Effect

\* con_exuser: what u had is given up, and the others are told.
LEMMA LeaveEffect ==
  ASSUME IRefs, IUsers, NEW u \in Slots, turn = u,
         Notify(u, Unref(msg, [m \in Ids |-> InQueue(u, m) + One(inc[u])[m]]),
                Emptied(queue, u), rn),
         inc' = [inc EXCEPT ![u] = None], UNCHANGED warn
  PROVE  \E m \in Ids : /\ Effect(m, Hear(u, rn)) /\ msg'[m].kind \in {"notify", "free"}
                        /\ queue' = Posted(Emptied(queue, u), m, Hear(u, rn))
                        /\ \A v \in Hear(u, rn) : Len(queue[v]) < Backlog
<1> DEFINE due == Due(queue, inc, warn)
           gone == [m \in Ids |-> InQueue(u, m) + One(inc[u])[m]]
           less == [m \in Ids |-> due[m] - gone[m]]
           rid == Unref(msg, gone)
           q == Emptied(queue, u)
           rest == [inc EXCEPT ![u] = None]
           to == Hear(u, rn)
<1>1. /\ msg \in Messages /\ queue \in Queues /\ Sound(msg, due) /\ due \in [Ids -> Nat]
      /\ inc \in [Slots -> Ids \cup {None}] /\ rest \in [Slots -> Ids \cup {None}]
      /\ who \subseteq Slots
  BY DueType DEF IRefs, IUsers
<1>2. /\ q \in Queues
      /\ \A v \in Slots : Has(q, v) = IF v = u THEN {} ELSE Has(queue, v)
  BY <1>1, EmptiedQueues
<1>3. ASSUME NEW n \in Ids
      PROVE  gone[n] \in Nat /\ gone[n] <= due[n] /\ less[n] = Due(q, rest, warn)[n]
  <2> DEFINE p == Cardinality(Places(queue, n))
             r == Cardinality(Places(q, n))
             g == Within(queue, u, n)
             c == Composed(inc, n)
             d == Composed(rest, n)
             o == One(inc[u])[n]
             w == One(warn)[n]
             x == due[n]
             l == less[n]
             f == Due(q, rest, warn)[n]
             out == gone[n]
  <2>1. p = r + g
    BY <1>1, EmptiedPlaces
  <2>2. c = d + o
    BY <1>1, ComposedCleared
  <2>3. r \in Nat /\ d \in Nat /\ w \in Nat /\ g \in Nat /\ o \in Nat
    BY <1>1, WithinFinite, PlacesFinite, ComposedFinite, OneType
  <2>4. out = g + o
    BY DEF InQueue, Within
  <2>5. x = p + c + w /\ l = x - out
    BY DEF Due
  <2>6. f = r + d + w
    BY DEF Due
  <2> HIDE DEF p, r, c, d, w, g, o, x, l, f, out, q, due, less, gone, rest, rid, to
  <2>7. out \in Nat /\ out <= x /\ l = f
    BY <2>1, <2>2, <2>3, <2>4, <2>5, <2>6
  <2> QED
    BY <2>7 DEF out, x, l, f
<1>4. rid \in Messages /\ Sound(rid, less) /\ Keeps(msg, rid, None)
  <2>1. gone \in [Ids -> Nat] /\ \A n \in Ids : gone[n] <= due[n]
    BY <1>3
  <2> HIDE DEF due, gone
  <2> QED
    BY <1>1, <2>1, UnrefSound
<1>5. Sound(rid, Due(q, rest, warn))
  <2> HIDE DEF less, rid, q, rest
  <2> QED
    BY <1>3, <1>4, SoundSame
<1>6. Notify(u, rid, q, rn) /\ inc' = rest
  OBVIOUS
<1>7. \A v \in Slots : v # u => rest[v] = inc[v] /\ q[v] = queue[v]
  BY <1>1 DEF Emptied, Queues
<1> HIDE DEF rid, q, rest, to
<1>8. PICK m \in Ids :
           /\ rid[m].kind = "free" /\ msg'[m].kind \in {"notify", "free"}
           /\ \A v \in Hear(u, rn) : Len(q[v]) < Backlog
           /\ queue' = Posted(q, m, Hear(u, rn)) /\ queue' \in Queues
           /\ msg' \in Messages /\ Sound(msg', Due(queue', rest, warn))
           /\ Keeps(rid, msg', m)
  BY <1>1, <1>2, <1>4, <1>5, <1>6, NotifySound
<1>9. warn # m /\ \A v \in Slots : m \notin Has(q, v) /\ rest[v] # m
  BY <1>2, <1>5, <1>8, HeldExists
<1>10. \A v \in Slots \ {turn} : m \notin Has(queue, v) /\ inc[v] # m
  BY <1>2, <1>7, <1>9
<1>11. IRefs'
  BY <1>1, <1>6, <1>8 DEF IRefs
<1>12. Keeps(msg, msg', m)
  <2> SUFFICES ASSUME NEW n \in Ids \ {m}, msg'[n].kind # "free" PROVE Same(msg, msg', n)
    BY DEF Keeps
  <2>1. Same(rid, msg', n)
    BY <1>8 DEF Keeps
  <2>2. n # None /\ rid[n].kind # "free"
    BY <2>1 DEF Ids, None, Same
  <2>3. Same(msg, rid, n)
    BY <1>4, <2>2 DEF Keeps
  <2> QED
    BY <2>1, <2>3 DEF Same
<1>13. ASSUME NEW v \in Slots
       PROVE  Has(queue', v) \subseteq Has(queue, v) \cup {n \in {m} : v \in Hear(u, rn)}
  <2>1. \A x \in Slots \cap Hear(u, rn) : Len(q[x]) < Backlog
    BY <1>8
  <2>2. Has(queue', v) = IF v \in Hear(u, rn) THEN Has(q, v) \cup {m} ELSE Has(q, v)
    BY <1>2, <1>8, <2>1, PostedHas
  <2> QED
    BY <1>2, <2>2
<1>14. Effect(m, Hear(u, rn))
  BY <1>9, <1>10, <1>11, <1>12, <1>13 DEF Effect
<1>15. \A v \in Hear(u, rn) : Len(queue[v]) < Backlog
  BY <1>1, <1>7, <1>8 DEF Hear
<1> QED
  BY <1>8, <1>14, <1>15 DEF q

\* con_newuser: the current warning is the first thing a new user hears.
LEMMA ConnectEffect ==
  ASSUME IRefs, NEW u \in Slots, queue[u] = <<>>, warn # None,
         msg' = [msg EXCEPT ![warn].ref = @ + 1],
         queue' = [queue EXCEPT ![u] = <<warn>>], UNCHANGED <<inc, warn>>
  PROVE  /\ IRefs' /\ Keeps(msg, msg', None)
         /\ queue' = Posted(queue, warn, {u}) /\ Len(queue[u]) < Backlog
<1> DEFINE due == Due(queue, inc, warn)
           k == 1
           more == [n \in Ids |-> due[n] + (IF n = warn THEN k ELSE 0)]
           after == [msg EXCEPT ![warn].ref = @ + k]
<1>1. /\ msg \in Messages /\ queue \in Queues /\ Sound(msg, due) /\ due \in [Ids -> Nat]
      /\ warn \in Ids
  BY DueType DEF IRefs
<1>2. msg[warn].kind # "free"
  BY <1>1, HeldExists
<1>3. after \in Messages /\ Sound(after, more) /\ Keeps(msg, after, None)
  <2>1. k \in Nat
    OBVIOUS
  <2> HIDE DEF due, k
  <2>2. after \in Messages
    BY <1>1, <1>2, <2>1, RaisedSound
  <2>3. Sound(after, more)
    BY <1>1, <1>2, <2>1, RaisedSound
  <2>4. Keeps(msg, after, None)
    BY <1>1, <1>2, <2>1, RaisedSound
  <2> QED
    BY <2>2, <2>3, <2>4
<1>4. msg' = after
  OBVIOUS
<1>5. queue' = Posted(queue, warn, {u})
  <2>1. Append(queue[u], warn) = <<warn>>
    OBVIOUS
  <2> QED
    BY <1>1, <2>1 DEF Posted, Queues
<1>6. Len(queue[u]) < Backlog /\ {u} \subseteq Slots /\ \A v \in {u} : Len(queue[v]) < Backlog
  BY HeapAssumption
<1>7. queue' \in Queues
  <2>1. Posted(queue, warn, {u}) \in Queues
    BY <1>1, <1>6, PostedQueues
  <2> QED
    BY <1>5, <2>1
<1>8. \A n \in Ids : Due(queue', inc', warn')[n] = more[n]
  <2>1. \A n \in Ids : Due(Posted(queue, warn, {u}), inc, warn)[n] =
                         due[n] + (IF n = warn THEN Cardinality({u}) ELSE 0)
    BY <1>1, <1>6, PostedDue
  <2>2. Cardinality({u}) = 1
    BY FS_Singleton
  <2> QED
    BY <1>5, <2>1, <2>2
<1>9. Sound(msg', Due(queue', inc', warn'))
  <2> DEFINE final == Due(queue', inc', warn')
  <2>1. \A n \in Ids : final[n] = more[n]
    BY <1>8
  <2> HIDE DEF final, more, after
  <2>2. Sound(after, final)
    BY <1>3, <2>1, SoundSame
  <2> QED
    BY <1>4, <2>2 DEF final
<1> QED
  BY <1>3, <1>4, <1>5, <1>6, <1>7, <1>9 DEF IRefs

\* The first half of con_run's loop
Idle == {u \in who : st[u] = "IDLE" /\ queue[u] # <<>>}

LEMMA TransmitEffect ==
  ASSUME IRefs, IUsers, Transmit, UNCHANGED <<inc, warn>>
  PROVE  IRefs' /\ Keeps(msg, msg', None) /\ queue' = Sent(queue, Idle)
<1> DEFINE due == Due(queue, inc, warn)
           gone == [m \in Ids |-> Cardinality({u \in Idle : Head(queue[u]) = m})]
           less == [m \in Ids |-> due[m] - gone[m]]
<1>1. /\ msg \in Messages /\ queue \in Queues /\ Sound(msg, due) /\ due \in [Ids -> Nat]
      /\ Idle \subseteq Slots /\ \A u \in Idle : queue[u] # <<>>
  BY DueType DEF IRefs, IUsers, Idle
<1>2. queue' = Sent(queue, Idle) /\ msg' = Unref(msg, gone)
  BY DEF Transmit, Sent, Idle
<1>3. gone \in [Ids -> Nat]
  <2>1. \A m \in Ids : {u \in Idle : Head(queue[u]) = m} \subseteq Slots
    BY <1>1
  <2> QED
    BY <2>1, SlotsFinite
<1>4. ASSUME NEW n \in Ids
      PROVE  gone[n] <= due[n] /\ less[n] = Due(queue', inc', warn')[n]
  <2> DEFINE p == Cardinality(Places(queue, n))
             q == Cardinality(Places(queue', n))
             g == gone[n]
             c == Composed(inc, n)
             w == One(warn)[n]
             d == due[n]
             l == less[n]
             f == Due(queue', inc', warn')[n]
  <2>1. p = q + g
    BY <1>1, <1>2, SentPlaces
  <2>2. p \in Nat /\ q \in Nat /\ c \in Nat /\ w \in Nat /\ g \in Nat
    BY <1>3, PlacesFinite, ComposedFinite, OneType
  <2>3. f = q + c + w /\ d = p + c + w /\ l = d - g
    BY DEF Due
  <2> HIDE DEF p, q, c, w, g, d, l, f, due, less, gone
  <2>4. g <= d /\ l = f
    BY <2>1, <2>2, <2>3
  <2> QED
    BY <2>4 DEF g, d, l, f
<1>5. msg' \in Messages /\ Sound(msg', less) /\ Keeps(msg, msg', None)
  <2> HIDE DEF due, gone
  <2>1. \A n \in Ids : gone[n] <= due[n]
    BY <1>4
  <2> QED
    BY <1>1, <1>2, <1>3, <2>1, UnrefSound
<1>6. Sound(msg', Due(queue', inc', warn'))
  <2> DEFINE final == Due(queue', inc', warn')
  <2>1. \A n \in Ids : final[n] = less[n]
    BY <1>4
  <2> HIDE DEF final, less
  <2>2. Sound(msg', final)
    BY <1>5, <2>1, SoundSame
  <2> QED
    BY <2>2 DEF final
<1>7. queue' \in Queues
  BY <1>1, <1>2, SentQueues
<1>8. IRefs'
  BY <1>5, <1>6, <1>7 DEF IRefs
<1> QED
  BY <1>2, <1>5, <1>8

-----------------------------------------------------------------------------
(***************************************************************************)
(* Every step keeps the users in order.                                    *)
(***************************************************************************)
LEMMA TurnServed ==
  ASSUME NEW u \in Slots, turn = u
  PROVE  turn + 1 \in 0 .. Size + 1
  BY SizeAssumption DEF Slots

LEMMA UsersConnect == IUsers /\ Connect => IUsers'
<1> SUFFICES ASSUME IUsers, Connect PROVE IUsers'
  OBVIOUS
<1>1. PICK u \in Slots \ who : /\ who' = who \cup {u} /\ st' = [st EXCEPT ![u] = "LOGIN"]
                               /\ rn' = rn \cup {u}
  BY DEF Connect
<1>2. UNCHANGED <<sending, ig, ra, turn, shown, dropped>>
  BY DEF Connect, warning
<1> QED
  BY <1>1, <1>2 DEF IUsers, States

LEMMA UsersBeginPass == IUsers /\ BeginPass => IUsers'
  BY SizeAssumption DEF IUsers, BeginPass, Transmit, flags, States

LEMMA UsersSkip == IUsers /\ Skip => IUsers'
<1> SUFFICES ASSUME IUsers, Skip PROVE IUsers'
  OBVIOUS
<1>1. turn' \in 0 .. Size + 1
  BY SizeAssumption DEF IUsers, Skip, Served
<1>2. UNCHANGED <<who, sending, ig, ra, rn, shown, dropped>>
  BY DEF Skip, flags, warning
<1>3. st' \in [Slots -> States]
  BY DEF IUsers, Skip, States
<1> QED
  BY <1>1, <1>2, <1>3 DEF IUsers

LEMMA UsersClock == IUsers /\ Clock => IUsers'
<1> SUFFICES ASSUME IUsers, Clock PROVE IUsers'
  OBVIOUS
<1>1. turn' \in 0 .. Size + 1
  BY SizeAssumption DEF IUsers, Clock, Served
<1>2. UNCHANGED <<who, st, sending, ig, ra, rn>> /\ shown' \in SUBSET who /\ dropped' \in SUBSET who
  BY DEF Clock, flags, warning, PostWarning, IUsers
<1> QED
  BY <1>1, <1>2 DEF IUsers

LEMMA UsersLeave ==
  ASSUME IUsers, NEW u \in Slots, Leave(u) PROVE IUsers'
<1>1. turn' \in 0 .. Size + 1
  BY TurnServed DEF Leave, Polled, Served
<1>2. /\ who' = who \ {u} /\ st' = [st EXCEPT ![u] = "IDLE"] /\ sending' = sending \ {u}
      /\ ig' = [ig EXCEPT ![u] = {}] /\ ra' = ra \ {u} /\ rn' = rn \ {u}
      /\ shown' = shown \ {u} /\ dropped' = dropped \ {u}
  BY DEF Leave, ExUser
<1> QED
  BY <1>1, <1>2 DEF IUsers, States

\* The other steps of a user keep who is there, and leave him in some state.
LEMMA UsersStay ==
  ASSUME IUsers, NEW u \in Slots, turn = u, Served, UNCHANGED <<who, ig, ra>>,
         sending' \subseteq sending, rn' \subseteq rn,
         shown' \subseteq who, dropped' \subseteq who,
         NEW s \in States, st' = [st EXCEPT ![u] = s]
  PROVE  IUsers'
<1>1. turn' \in 0 .. Size + 1
  BY TurnServed DEF Served
<1> QED
  BY <1>1 DEF IUsers

LEMMA UsersFlags ==
  ASSUME IUsers, NEW u \in Slots, SetFlags(u) PROVE IUsers'
<1>1. turn' \in 0 .. Size + 1 /\ u \in who
  BY TurnServed DEF SetFlags, Typing, Polled, Served
<1>2. UNCHANGED <<who, sending, shown, dropped>> /\ st' = [st EXCEPT ![u] = "IDLE"]
  BY DEF SetFlags, warning
<1>3. ig' \in [Slots -> SUBSET Slots] /\ ra' \in SUBSET who /\ rn' \in SUBSET who
  <2>1. CASE \E map \in SUBSET (who \ {u}) :
                \/ ig' = [ig EXCEPT ![u] = IF map = {} THEN Slots \ {u} ELSE @ \cup map]
                \/ ig' = [ig EXCEPT ![u] = IF map = {} THEN {} ELSE @ \ map]
    <3>1. PICK map \in SUBSET (who \ {u}) :
                \/ ig' = [ig EXCEPT ![u] = IF map = {} THEN Slots \ {u} ELSE @ \cup map]
                \/ ig' = [ig EXCEPT ![u] = IF map = {} THEN {} ELSE @ \ map]
      BY <2>1
    <3>2. ig' \in [Slots -> SUBSET Slots]
      BY <3>1 DEF IUsers
    <3>3. ra' \in SUBSET who /\ rn' \in SUBSET who
      BY <1>1 DEF IUsers, SetFlags
    <3> QED
      BY <3>2, <3>3
  <2>2. CASE UNCHANGED ig
    BY <1>1, <2>2 DEF IUsers, SetFlags
  <2> QED
    BY <2>1, <2>2 DEF SetFlags
<1> QED
  BY <1>1, <1>2, <1>3 DEF IUsers, States

-----------------------------------------------------------------------------
(***************************************************************************)
(* What holds for everybody else after the turn of one slot                *)
(***************************************************************************)
LEMMA NothingHeld ==
  ASSUME NEW q \in Queues, NEW u \in Slots, Has(q, u) = {}
  PROVE  q[u] = <<>>
<1>1. q[u] \in Seq(Ids)
  BY DEF Queues
<1>2. SUFFICES ASSUME q[u] # <<>> PROVE FALSE
  OBVIOUS
<1>3. 1 \in DOMAIN q[u]
  BY <1>1, <1>2
<1>4. q[u][1] \in Has(q, u)
  BY <1>3 DEF Has
<1> QED
  BY <1>4

LEMMA NothingQueued ==
  ASSUME NEW q, NEW u, q[u] = <<>>
  PROVE  Has(q, u) = {}
  BY DEF Has

LEMMA CountHeld ==
  ASSUME queue \in Queues, NEW u \in Slots, NEW m
  PROVE  InQueue(u, m) \in Nat /\ (InQueue(u, m) = 0 <=> m \notin Has(queue, u))
<1> DEFINE S == {i \in DOMAIN queue[u] : queue[u][i] = m}
<1>1. DOMAIN queue[u] = 1 .. Len(queue[u]) /\ Len(queue[u]) \in Nat
  BY DEF Queues
<1>2. IsFiniteSet(1 .. Len(queue[u]))
  BY <1>1, FS_Interval
<1>3. IsFiniteSet(S)
  BY <1>1, <1>2, FS_Subset
<1>4. Cardinality(S) \in Nat /\ (Cardinality(S) = 0 <=> S = {})
  BY <1>3, FS_CardinalityType, FS_EmptySet
<1>5. S = {} <=> m \notin Has(queue, u)
  BY DEF Has
<1> QED
  BY <1>4, <1>5 DEF InQueue

\* What the turn of a slot leaves the other users, and whom it may send m to
Aside(m, to) ==
  /\ turn' = turn + 1
  /\ who' \subseteq who /\ who \subseteq who' \cup {turn}
  /\ sending' \subseteq sending \cup {turn}
  /\ to \subseteq who
  /\ \A v \in Slots \ {turn} :
       /\ st'[v] = st[v] /\ ig'[v] = ig[v] /\ inc'[v] = inc[v]
       /\ v \in to => /\ st[v] = "OUT" => msg'[m].kind = "warn"
                      /\ msg'[m].kind \in {"msg", "toall"} => msg'[m].from \notin ig[v]

\* The invariant as far as it is about u
Own(u) ==
  /\ u \notin who => st[u] = "IDLE" /\ queue[u] = <<>>
  /\ Composes(u)
  /\ u \in who /\ st[u] = "OUT" => \A n \in Has(queue, u) : msg[n].kind = "warn"
  /\ u \in who /\ st[u] = "LINE" => \A n \in Has(queue, u) :
       msg[n].kind \in {"msg", "toall"} => msg[n].from \notin ig[u]
  /\ u \in sending => st[u] = "RECV"

\* What was there and is there still has not changed.
LEMMA HeldSame ==
  ASSUME NEW m \in Ids \cup {None}, NEW to, Effect(m, to), NEW n \in Ids, n # m,
         \/ \E v \in Slots : n \in Has(queue', v) \/ inc'[v] = n
         \/ warn' = n
  PROVE  Same(msg, msg', n)
<1>1. msg'[n].kind # "free"
  <2>1. queue' \in Queues /\ Sound(msg', Due(queue', inc', warn'))
    BY DEF Effect, IRefs
  <2> QED
    BY <2>1, HeldExists
<1> QED
  BY <1>1 DEF Effect, Keeps

\* What somebody else has in his queue was there or is m, sent to him.
LEMMA OthersHold ==
  ASSUME NEW m \in Ids \cup {None}, NEW to, Effect(m, to), queue \in Queues, NEW v \in Slots \ {turn},
         NEW n \in Has(queue', v)
  PROVE  \/ n = m /\ v \in to
         \/ n \in Has(queue, v) /\ Same(msg, msg', n) /\ n \in Ids
<1>1. n \in Ids
  <2>1. queue' \in Queues
    BY DEF Effect, IRefs
  <2> QED
    BY <2>1, QueueLen DEF Has
<1>2. n \in Has(queue, v) \/ (n = m /\ v \in to)
  BY DEF Effect
<1>3. CASE n \in Has(queue, v)
  <2>1. n # m
    BY <1>1, <1>3 DEF Effect, Ids, None
  <2>2. Same(msg, msg', n)
    BY <1>1, <2>1, HeldSame
  <2> QED
    BY <1>1, <1>3, <2>2
<1> QED
  BY <1>2, <1>3

LEMMA OthersServed ==
  ASSUME IMessaging, NEW m \in Ids \cup {None}, NEW to, Effect(m, to), Aside(m, to)
  PROVE  \A v \in Slots \ {turn} : Own(v)'
<1> TAKE v \in Slots \ {turn}
<1>1. queue \in Queues /\ queue' \in Queues
  BY DEF IMessaging, IRefs, Effect
<1>2. st'[v] = st[v] /\ ig'[v] = ig[v] /\ inc'[v] = inc[v] /\ (v \in who' <=> v \in who)
  BY DEF Aside
<1>3. ASSUME NEW n \in Has(queue', v)
      PROVE  \/ n = m /\ v \in to
             \/ n \in Has(queue, v) /\ Same(msg, msg', n) /\ n \in Ids
  BY <1>1, <1>3, OthersHold
<1>4. ASSUME v \notin who' PROVE st'[v] = "IDLE" /\ queue'[v] = <<>>
  <2>1. st[v] = "IDLE" /\ queue[v] = <<>> /\ v \notin to
    BY <1>2, <1>4 DEF IMessaging, IAbsent, Aside
  <2>2. Has(queue', v) = {}
    BY <1>3, <2>1, NothingQueued
  <2> QED
    BY <1>1, <1>2, <2>1, <2>2, NothingHeld
<1>5. Composes(v)'
  <2>1. Composes(v)
    BY DEF IMessaging, IComposers
  <2>2. inc'[v] # None <=> st'[v] = "BUILD"
    BY <1>2, <2>1 DEF Composes
  <2>3. ASSUME inc'[v] # None
        PROVE  /\ msg'[inc'[v]].from = v /\ msg'[inc'[v]].kind \in {"msg", "toall"}
               /\ \A x \in Slots : inc'[v] \notin Has(queue', x)
    <3>1. inc[v] \in Ids /\ inc[v] # m
      BY <1>2, <2>3 DEF IMessaging, IRefs, Effect
    <3>2. Same(msg, msg', inc[v])
      BY <1>2, <3>1, HeldSame
    <3>3. /\ msg[inc[v]].from = v /\ msg[inc[v]].kind \in {"msg", "toall"}
          /\ \A x \in Slots : inc[v] \notin Has(queue, x)
      BY <1>2, <2>1, <2>3 DEF Composes
    <3>4. \A x \in Slots : inc[v] \notin Has(queue', x)
      BY <3>1, <3>3 DEF Effect
    <3> QED
      BY <1>2, <3>2, <3>3, <3>4 DEF Same
  <2> QED
    BY <2>2, <2>3 DEF Composes
<1>6. ASSUME v \in who', st'[v] = "OUT", NEW n \in Has(queue', v)
      PROVE  msg'[n].kind = "warn"
  <2>1. n \in Has(queue, v) => msg[n].kind = "warn"
    BY <1>2, <1>6 DEF IMessaging, IOut
  <2>2. CASE n = m /\ v \in to
    BY <1>2, <1>6, <2>2 DEF Aside
  <2>3. CASE n \in Has(queue, v) /\ Same(msg, msg', n)
    BY <2>1, <2>3 DEF Same
  <2> QED
    BY <1>3, <1>6, <2>2, <2>3
<1>7. ASSUME v \in who', st'[v] = "LINE", NEW n \in Has(queue', v)
      PROVE  msg'[n].kind \in {"msg", "toall"} => msg'[n].from \notin ig'[v]
  <2>1. n \in Has(queue, v) => (msg[n].kind \in {"msg", "toall"} => msg[n].from \notin ig[v])
    BY <1>2, <1>7 DEF IMessaging, IHeard
  <2>2. CASE n = m /\ v \in to
    BY <1>2, <1>7, <2>2 DEF Aside
  <2>3. CASE n \in Has(queue, v) /\ Same(msg, msg', n)
    BY <1>2, <2>1, <2>3 DEF Same
  <2> QED
    BY <1>3, <1>7, <2>2, <2>3
<1>8. v \in sending' => st'[v] = "RECV"
  BY <1>2 DEF Aside, IMessaging, OutputUndisturbed
<1> QED
  BY <1>4, <1>5, <1>6, <1>7, <1>8 DEF Own

\* Whoever is idle and has not had his turn in this pass
LEMMA OthersWait ==
  ASSUME IMessaging, NEW m \in Ids \cup {None}, NEW to, Effect(m, to), Aside(m, to),
         NEW v \in Slots, v \in who', st'[v] = "IDLE", turn' <= v, NEW n \in Has(queue', v)
  PROVE  msg'[n].kind \in {"msg", "toall"} => msg'[n].from \notin ig'[v]
<1>1. queue \in Queues /\ turn \in Int /\ v # turn /\ turn <= v
  BY SizeAssumption DEF IMessaging, IRefs, IUsers, Aside, Slots
<1>2. st[v] = "IDLE" /\ ig'[v] = ig[v] /\ v \in who
  BY <1>1 DEF Aside
<1>3. \/ n = m /\ v \in to
      \/ n \in Has(queue, v) /\ Same(msg, msg', n)
  BY <1>1, OthersHold
<1>4. n \in Has(queue, v) => (msg[n].kind \in {"msg", "toall"} => msg[n].from \notin ig[v])
  BY <1>1, <1>2 DEF IMessaging, IHeard
<1>5. CASE n = m /\ v \in to
  BY <1>1, <1>2, <1>5 DEF Aside
<1>6. CASE n \in Has(queue, v) /\ Same(msg, msg', n)
  BY <1>2, <1>4, <1>6 DEF Same
<1> QED
  BY <1>3, <1>5, <1>6

\* The turn of a slot, or of the clock
LEMMA ServedStep ==
  ASSUME IMessaging, NEW m \in Ids \cup {None}, NEW to, Effect(m, to), Aside(m, to),
         IUsers', turn \in Slots => \A u \in Slots : u = turn => Own(u)',
         \/ warn' = warn
         \/ warn' = m /\ msg'[m].kind = "warn",
         IReaches'
  PROVE  IMessaging'
<1>1. \A v \in Slots : Own(v)'
  BY OthersServed
<1>2. IAbsent'
  BY <1>1 DEF IAbsent, Own
<1>3. IComposers'
  BY <1>1 DEF IComposers, Own
<1>4. IOut'
  <2> SUFFICES ASSUME NEW v \in who', st'[v] = "OUT", NEW n \in Has(queue', v)
               PROVE  msg'[n].kind = "warn"
    BY DEF IOut
  <2>1. Own(v)'
    BY <1>1 DEF IUsers
  <2> QED
    BY <2>1 DEF Own
<1>5. IHeard'
  <2> SUFFICES ASSUME NEW v \in who', st'[v] = "LINE" \/ (st'[v] = "IDLE" /\ turn' <= v),
                      NEW n \in Has(queue', v), msg'[n].kind \in {"msg", "toall"}
               PROVE  msg'[n].from \notin ig'[v]
    BY DEF IHeard
  <2>1. v \in Slots
    BY DEF IUsers
  <2>2. CASE st'[v] = "LINE"
    <3>1. Own(v)'
      BY <1>1, <2>1
    <3> QED
      BY <2>2, <3>1 DEF Own
  <2>3. CASE st'[v] = "IDLE" /\ turn' <= v
    BY <2>1, <2>3, OthersWait
  <2> QED
    BY <2>2, <2>3
<1>6. OutputUndisturbed'
  <2> SUFFICES ASSUME NEW v \in sending' PROVE st'[v] = "RECV"
    BY DEF OutputUndisturbed
  <2>1. Own(v)'
    BY <1>1 DEF IUsers
  <2> QED
    BY <2>1 DEF Own
<1>7. IWarning'
  <2>1. CASE warn' = m /\ msg'[m].kind = "warn"
    BY <2>1 DEF IWarning
  <2>2. CASE warn' = warn /\ warn # None
    <3>1. warn \in Ids /\ warn # m
      BY <2>2 DEF IMessaging, IRefs, Effect
    <3>2. Same(msg, msg', warn)
      BY <2>2, <3>1, HeldSame
    <3> QED
      BY <2>2, <3>2 DEF IMessaging, IWarning, Same
  <2>3. CASE warn' = None
    BY <2>3 DEF IWarning
  <2> QED
    BY <2>1, <2>2, <2>3
<1> QED
  BY <1>2, <1>3, <1>4, <1>5, <1>6, <1>7 DEF IMessaging, Effect

-----------------------------------------------------------------------------
LEMMA EachOwn == IMessaging => \A u \in Slots : Own(u)
<1> SUFFICES ASSUME IMessaging, NEW u \in Slots PROVE Own(u)
  OBVIOUS
<1>1. u \notin who => st[u] = "IDLE" /\ queue[u] = <<>>
  BY DEF IMessaging, IAbsent
<1>2. Composes(u)
  BY DEF IMessaging, IComposers
<1>3. u \in who /\ st[u] = "OUT" => \A n \in Has(queue, u) : msg[n].kind = "warn"
  BY DEF IMessaging, IOut
<1>4. u \in who /\ st[u] = "LINE" => \A n \in Has(queue, u) :
        msg[n].kind \in {"msg", "toall"} => msg[n].from \notin ig[u]
  BY DEF IMessaging, IHeard
<1>5. u \in sending => st[u] = "RECV"
  BY DEF IMessaging, OutputUndisturbed
<1> QED
  BY <1>1, <1>2, <1>3, <1>4, <1>5 DEF Own

\* A user who is left in a state of no consequence
LEMMA OwnPlain ==
  ASSUME IMessaging, NEW u \in Slots, u \in who', st[u] # "RECV", sending' \subseteq sending,
         st'[u] \notin {"BUILD", "OUT", "LINE"}, inc'[u] = None
  PROVE  Own(u)'
  BY DEF Own, Composes, IMessaging, OutputUndisturbed

LEMMA ReachesKept ==
  ASSUME IReaches, warn' = warn, who' \subseteq who,
         \A v \in who' : /\ v \in shown \cup dropped => v \in shown' \cup dropped'
                         /\ warn \in Has(queue, v) =>
                              warn \in Has(queue', v) \/ v \in shown' \cup dropped'
  PROVE  IReaches'
  BY DEF IReaches

LEMMA ReachesPosted ==
  ASSUME IReaches, queue \in Queues, who \subseteq Slots, NEW m \in Ids, NEW to,
         queue' = Posted(queue, m, to), \A v \in to : Len(queue[v]) < Backlog,
         UNCHANGED warning, who' = who
  PROVE  IReaches'
<1>1. \A v \in Slots \cap to : Len(queue[v]) < Backlog
  OBVIOUS
<1>2. ASSUME NEW v \in who' PROVE Has(queue, v) \subseteq Has(queue', v)
  <2>1. Has(queue', v) = IF v \in to THEN Has(queue, v) \cup {m} ELSE Has(queue, v)
    BY <1>1, PostedHas
  <2> QED
    BY <2>1
<1> QED
  BY <1>2, ReachesKept DEF warning

\* A turn in which no message is touched
LEMMA QuietStep ==
  ASSUME IMessaging, NEW u \in Slots, turn = u, Served, IUsers',
         UNCHANGED <<who, msg, queue, inc, warning>>, sending' \subseteq sending,
         \A v \in Slots \ {u} : st'[v] = st[v] /\ ig'[v] = ig[v],
         Own(u)'
  PROVE  IMessaging'
<1>1. Effect(None, {})
  BY QuietEffect DEF IMessaging, warning
<1>2. Aside(None, {})
  BY DEF Aside, Served
<1>3. IReaches'
  BY DEF IMessaging, IReaches, warning, Has
<1> QED
  BY <1>1, <1>2, <1>3, ServedStep DEF warning

LEMMA SkipStep == IMessaging /\ Skip => IMessaging'
<1> SUFFICES ASSUME IMessaging, Skip PROVE IMessaging'
  OBVIOUS
<1>1. IUsers'
  BY UsersSkip DEF IMessaging
<1>2. turn \in Slots /\ Served
  BY SizeAssumption DEF Skip, IMessaging, IUsers, Slots
<1>3. UNCHANGED <<who, msg, queue, inc, sending, ig, warning>>
  BY DEF Skip, flags
<1>4. \A v \in Slots \ {turn} : st'[v] = st[v]
  BY DEF Skip, IMessaging, IUsers
<1>5. ASSUME NEW u \in Slots, u = turn PROVE Own(u)'
  <2>1. Own(u)
    BY EachOwn
  <2>2. CASE UNCHANGED st
    BY <1>3, <2>1, <2>2 DEF Own, Composes, Has
  <2>3. CASE turn \in who /\ st[turn] = "LINE" /\ st' = [st EXCEPT ![turn] = "IDLE"]
    <3>1. st[u] = "LINE" /\ st'[u] = "IDLE" /\ u \in who
      BY <1>5, <2>3 DEF IMessaging, IUsers
    <3>2. inc[u] = None
      BY <2>1, <3>1 DEF Own, Composes
    <3> QED
      BY <1>3, <3>1, <3>2, OwnPlain
  <2> QED
    BY <2>2, <2>3 DEF Skip
<1> QED
  BY <1>1, <1>2, <1>3, <1>4, <1>5, QuietStep

LEMMA SendBlkStep ==
  ASSUME IMessaging, NEW u \in Slots, SendBlk(u) PROVE IMessaging'
<1>1. /\ turn = u /\ u \in who /\ st[u] = "RECV" /\ Served
      /\ UNCHANGED <<who, msg, inc, queue, ig, ra, rn, warning>>
      /\ IF u \in sending THEN sending' = sending \ {u} /\ UNCHANGED st
                          ELSE st' = [st EXCEPT ![u] = "IDLE"] /\ UNCHANGED sending
  BY DEF SendBlk, Polled, flags
<1>2. inc[u] = None /\ Own(u)
  BY <1>1, EachOwn DEF Own, Composes
<1>3. sending' \subseteq sending /\ \A v \in Slots \ {u} : st'[v] = st[v]
  BY <1>1 DEF IMessaging, IUsers
<1>4. \/ st'[u] = "RECV" /\ st' = [st EXCEPT ![u] = "RECV"]
      \/ st'[u] = "IDLE" /\ st' = [st EXCEPT ![u] = "IDLE"] /\ u \notin sending'
  BY <1>1 DEF IMessaging, IUsers
<1>5. IUsers'
  <2>1. IUsers /\ shown' \subseteq who /\ dropped' \subseteq who /\ rn' \subseteq rn
    BY <1>1 DEF IMessaging, IUsers, warning
  <2>2. "RECV" \in States /\ "IDLE" \in States
    BY DEF States
  <2>3. CASE st' = [st EXCEPT ![u] = "RECV"]
    BY <1>1, <1>3, <2>1, <2>2, <2>3, UsersStay
  <2>4. CASE st' = [st EXCEPT ![u] = "IDLE"]
    BY <1>1, <1>3, <2>1, <2>2, <2>4, UsersStay
  <2> QED
    BY <1>4, <2>3, <2>4
<1>6. Own(u)'
  BY <1>1, <1>2, <1>4 DEF Own, Composes
<1> QED
  BY <1>1, <1>3, <1>5, <1>6, QuietStep

\* A command, a line or a return that does no more than put u in some state
LEMMA StateStep ==
  ASSUME IMessaging, NEW u \in Slots, turn = u, u \in who, Served,
         UNCHANGED <<who, msg, inc, queue, sending, flags, warning>>,
         NEW s \in States, st' = [st EXCEPT ![u] = s],
         st[u] \notin {"RECV", "BUILD"}, s \notin {"BUILD", "OUT"},
         s = "LINE" => st[u] \in {"IDLE", "LINE"}
  PROVE  IMessaging'
<1>1. UNCHANGED <<who, msg, inc, queue, sending, ig, ra, rn, warn, shown, dropped>>
  BY DEF flags, warning
<1>2. IUsers'
  <2>1. IUsers /\ sending' \subseteq sending /\ rn' \subseteq rn /\ shown' \subseteq who /\ dropped' \subseteq who
    BY <1>1 DEF IMessaging, IUsers
  <2> QED
    BY <1>1, <2>1, UsersStay
<1>3. st'[u] = s /\ \A v \in Slots \ {u} : st'[v] = st[v]
  BY DEF IMessaging, IUsers
<1>4. Own(u) /\ inc[u] = None
  BY EachOwn DEF Own, Composes
<1>5. Own(u)'
  <2>1. CASE s # "LINE"
    BY <1>1, <1>3, <1>4, <2>1, OwnPlain
  <2>2. CASE s = "LINE"
    <3>1. \A n \in Has(queue, u) : msg[n].kind \in {"msg", "toall"} => msg[n].from \notin ig[u]
      BY <2>2, SizeAssumption DEF IMessaging, IHeard, Slots
    <3>2. u \notin sending
      BY DEF IMessaging, OutputUndisturbed
    <3> QED
      BY <1>1, <1>3, <1>4, <2>2, <3>1, <3>2 DEF Own, Composes, Has
  <2> QED
    BY <2>1, <2>2
<1> QED
  BY <1>1, <1>2, <1>3, <1>5, QuietStep

LEMMA ReturnStep ==
  ASSUME IMessaging, NEW u \in Slots, Return(u) PROVE IMessaging'
<1>1. /\ turn = u /\ u \in who /\ st[u] = "OUT" /\ Served /\ st' = [st EXCEPT ![u] = "IDLE"]
      /\ UNCHANGED <<who, msg, inc, queue, sending, flags, warning>>
  BY DEF Return, Polled
<1>2. "IDLE" \in States
  BY DEF States
<1> QED
  BY <1>1, <1>2, StateStep

LEMMA LinStep ==
  ASSUME IMessaging, NEW u \in Slots, Lin(u) PROVE IMessaging'
<1>1. /\ turn = u /\ u \in who /\ st[u] \in {"IDLE", "LINE"} /\ Served
      /\ st' = [st EXCEPT ![u] = "LINE"]
      /\ UNCHANGED <<who, msg, inc, queue, sending, flags, warning>>
  BY DEF Lin, Typing, Polled
<1>2. "LINE" \in States
  BY DEF States
<1> QED
  BY <1>1, <1>2, StateStep

LEMMA SetFlagsStep ==
  ASSUME IMessaging, NEW u \in Slots, SetFlags(u) PROVE IMessaging'
<1>1. /\ turn = u /\ u \in who /\ st[u] \in {"IDLE", "LINE"} /\ Served
      /\ st' = [st EXCEPT ![u] = "IDLE"]
      /\ UNCHANGED <<who, msg, inc, queue, sending, warning>>
  BY DEF SetFlags, Typing, Polled
<1>2. IUsers'
  BY UsersFlags DEF IMessaging
<1>3. \A v \in Slots \ {u} : st'[v] = st[v] /\ ig'[v] = ig[v]
  <2>1. \A v \in Slots \ {u} : ig'[v] = ig[v]
    BY DEF SetFlags, IMessaging, IUsers
  <2> QED
    BY <1>1, <2>1 DEF IMessaging, IUsers
<1>4. st'[u] = "IDLE" /\ inc[u] = None
  BY <1>1, EachOwn DEF IMessaging, IUsers, Own, Composes
<1>5. Own(u)'
  BY <1>1, <1>4, OwnPlain
<1> QED
  BY <1>1, <1>2, <1>3, <1>5, QuietStep

-----------------------------------------------------------------------------
\* A turn that ends with a notification about u
LEMMA NotifyStep ==
  ASSUME IMessaging, NEW u \in Slots, turn = u, u \in who, Served,
         st[u] \notin {"RECV", "BUILD"}, Notify(u, msg, queue, rn),
         st' = [st EXCEPT ![u] = "IDLE"], rn' \subseteq rn,
         UNCHANGED <<who, inc, sending, ig, ra, warning>>
  PROVE  IMessaging'
<1>1. IRefs /\ IUsers /\ UNCHANGED <<inc, warn, shown, dropped>> /\ queue \in Queues /\ who \subseteq Slots
  BY DEF IMessaging, warning, IRefs, IUsers
<1>2. PICK m \in Ids : /\ Effect(m, Hear(u, rn)) /\ msg'[m].kind \in {"notify", "free"}
                       /\ queue' = Posted(queue, m, Hear(u, rn))
                       /\ \A v \in Hear(u, rn) : Len(queue[v]) < Backlog
  BY <1>1, NotifyEffect
<1>3. st'[u] = "IDLE" /\ \A v \in Slots \ {u} : st'[v] = st[v]
  BY <1>1 DEF IUsers
<1>4. Aside(m, Hear(u, rn))
  BY <1>2, <1>3 DEF Aside, Hear, Served
<1>5. IUsers'
  <2>1. "IDLE" \in States /\ shown' \subseteq who /\ dropped' \subseteq who
    BY <1>1 DEF States, IUsers
  <2> QED
    BY <1>1, <2>1, UsersStay
<1>6. Own(u)'
  <2>1. inc[u] = None
    BY EachOwn DEF Own, Composes
  <2> QED
    BY <1>1, <1>3, <2>1, OwnPlain
<1>7. IReaches'
  BY <1>1, <1>2, ReachesPosted DEF IMessaging
<1> QED
  BY <1>1, <1>2, <1>4, <1>5, <1>6, <1>7, ServedStep

LEMMA LoginStep ==
  ASSUME IMessaging, NEW u \in Slots, Login(u) PROVE IMessaging'
<1>1. /\ turn = u /\ u \in who /\ st[u] = "LOGIN" /\ Served /\ Notify(u, msg, queue, rn)
      /\ st' = [st EXCEPT ![u] = "IDLE"] /\ rn' \subseteq rn
      /\ UNCHANGED <<who, inc, sending, ig, ra, warning>>
  BY DEF Login, Polled
<1> QED
  BY <1>1, NotifyStep

LEMMA ChangeStep ==
  ASSUME IMessaging, NEW u \in Slots, turn = u, u \in who, Served,
         st[u] \notin {"RECV", "BUILD"}, Change(u)
  PROVE  IMessaging'
<1>1. /\ Notify(u, msg, queue, rn) /\ st' = [st EXCEPT ![u] = "IDLE"] /\ rn' \subseteq rn
      /\ UNCHANGED <<who, inc, sending, ig, ra, warning>>
  BY DEF Change, flags
<1> QED
  BY <1>1, NotifyStep

LEMMA ChangeNameStep ==
  ASSUME IMessaging, NEW u \in Slots, ChangeName(u) PROVE IMessaging'
  BY ChangeStep DEF ChangeName, Polled

LEMMA IdStep ==
  ASSUME IMessaging, NEW u \in Slots, Id(u) PROVE IMessaging'
<1>1. turn = u /\ u \in who /\ st[u] \in {"IDLE", "LINE"} /\ Served
  BY DEF Id, Typing, Polled
<1>2. CASE Change(u)
  BY <1>1, <1>2, ChangeStep
<1>3. CASE /\ st' = [st EXCEPT ![u] = "CHG"]
           /\ UNCHANGED <<who, msg, inc, queue, sending, flags, warning>>
  <2>1. "CHG" \in States
    BY DEF States
  <2> QED
    BY <1>1, <1>3, <2>1, StateStep
<1> QED
  BY <1>2, <1>3 DEF Id

-----------------------------------------------------------------------------
\* A turn in which a warning is posted, of the clock or of a user
LEMMA WarnedStep ==
  ASSUME IMessaging, PostWarning, Served, IUsers',
         \A v \in Slots \ {turn} : st'[v] = st[v],
         turn \in Slots => /\ turn \in who /\ st[turn] \notin {"RECV", "BUILD"}
                           /\ st'[turn] \notin {"BUILD", "OUT", "LINE"}
  PROVE  IMessaging'
<1>1. IRefs /\ IUsers /\ queue \in Queues /\ who \subseteq Slots
  BY DEF IMessaging, IRefs, IUsers
<1>2. UNCHANGED <<who, inc, sending, ig, ra, rn>>
  BY DEF PostWarning, flags
<1>3. PICK m \in Ids : /\ Effect(m, who) /\ msg'[m].kind = "warn" /\ warn' = m
                       /\ queue' = Posted(queue, m, who)
                       /\ \A v \in who : Len(queue[v]) < Backlog
  BY <1>1, WarnEffect
<1>4. Aside(m, who)
  BY <1>2, <1>3 DEF Aside, Served
<1>5. ASSUME NEW u \in Slots, u = turn PROVE Own(u)'
  <2>1. inc[u] = None
    BY <1>5, EachOwn DEF Own, Composes
  <2> QED
    BY <1>2, <1>5, <2>1, OwnPlain
<1>6. IReaches'
  <2>1. ASSUME NEW v \in who' PROVE m \in Has(queue', v)
    <3>1. \A x \in Slots \cap who : Len(queue[x]) < Backlog
      BY <1>3
    <3>2. v \in Slots /\ v \in who
      BY <1>1, <1>2
    <3>3. Has(queue', v) = IF v \in who THEN Has(queue, v) \cup {m} ELSE Has(queue, v)
      BY <1>1, <1>3, <3>1, <3>2, PostedHas
    <3> QED
      BY <3>2, <3>3
  <2> QED
    BY <1>3, <2>1 DEF IReaches
<1> QED
  BY <1>3, <1>4, <1>5, <1>6, ServedStep

LEMMA UserWarnsStep ==
  ASSUME IMessaging, NEW u \in Slots, turn = u, u \in who, Served,
         st[u] \notin {"RECV", "BUILD"}, PostWarning, st' = [st EXCEPT ![u] = "IDLE"]
  PROVE  IMessaging'
<1>1. IUsers'
  <2>1. /\ IUsers /\ "IDLE" \in States /\ UNCHANGED <<who, ig, ra, rn, sending>>
        /\ sending' \subseteq sending /\ rn' \subseteq rn
        /\ shown' \subseteq who /\ dropped' \subseteq who
    BY DEF IMessaging, States, PostWarning, flags
  <2> QED
    BY <2>1, UsersStay
<1>2. st'[u] = "IDLE" /\ \A v \in Slots \ {u} : st'[v] = st[v]
  BY DEF IMessaging, IUsers
<1> QED
  BY <1>1, <1>2, WarnedStep

LEMMA NewWarnStep ==
  ASSUME IMessaging, NEW u \in Slots, NewWarn(u) PROVE IMessaging'
  BY UserWarnsStep DEF NewWarn, Polled

LEMMA WarnStep ==
  ASSUME IMessaging, NEW u \in Slots, Warn(u) PROVE IMessaging'
<1>1. turn = u /\ u \in who /\ st[u] \in {"IDLE", "LINE"} /\ Served
  BY DEF Warn, Typing, Polled
<1>2. CASE PostWarning /\ st' = [st EXCEPT ![u] = "IDLE"]
  BY <1>1, <1>2, UserWarnsStep
<1>3. CASE /\ st' = [st EXCEPT ![u] = "WARN"]
           /\ UNCHANGED <<who, msg, inc, queue, sending, flags, warning>>
  <2>1. "WARN" \in States
    BY DEF States
  <2> QED
    BY <1>1, <1>3, <2>1, StateStep
<1> QED
  BY <1>2, <1>3 DEF Warn

LEMMA ClockStep == IMessaging /\ Clock => IMessaging'
<1> SUFFICES ASSUME IMessaging, Clock PROVE IMessaging'
  OBVIOUS
<1>1. IUsers' /\ IUsers /\ turn \notin Slots /\ Served /\ UNCHANGED st
  BY UsersClock, SizeAssumption DEF IMessaging, Clock, Slots
<1>2. CASE PostWarning
  BY <1>1, <1>2, WarnedStep
<1>3. CASE UNCHANGED <<who, msg, inc, queue, sending, flags, warning>>
  <2>1. UNCHANGED <<who, msg, inc, queue, sending, ig, warn, shown, dropped>>
    BY <1>3 DEF flags, warning
  <2>2. Effect(None, {})
    BY <2>1, QuietEffect DEF IMessaging
  <2>3. Aside(None, {})
    BY <1>1, <2>1 DEF Aside, Served
  <2>4. IReaches'
    BY <2>1 DEF IMessaging, IReaches, Has
  <2> QED
    BY <1>1, <2>1, <2>2, <2>3, <2>4, ServedStep
<1> QED
  BY <1>2, <1>3 DEF Clock

-----------------------------------------------------------------------------
\* Composing a message
LEMMA WriteStep ==
  ASSUME IMessaging, NEW u \in Slots, Write(u) PROVE IMessaging'
<1>1. /\ turn = u /\ u \in who /\ st[u] = "BUILD" /\ Served
      /\ msg' = [msg EXCEPT ![inc[u]].text = TRUE]
      /\ UNCHANGED <<who, st, inc, queue, sending, ig, ra, rn, warn, shown, dropped>>
  BY DEF Write, Polled, flags, warning
<1>2. IRefs /\ Own(u) /\ inc[u] # None /\ inc[u] \in Ids
  BY <1>1, EachOwn DEF IMessaging, IRefs, Own, Composes
<1>3. Effect(None, {})
  BY <1>1, <1>2, WriteEffect
<1>4. Aside(None, {})
  BY <1>1 DEF Aside, Served
<1>5. IUsers'
  BY <1>1, TurnServed DEF IMessaging, IUsers, Served
<1>6. Own(u)'
  <2>1. None \in Ids \cup {None} /\ inc[u] # None
    BY <1>2
  <2>2. inc'[u] = inc[u]
    BY <1>1
  <2>3. Same(msg, msg', inc[u])
    BY <1>2, <1>3, <2>1, <2>2, HeldSame
  <2>4. Composes(u)'
    BY <1>1, <1>2, <2>3 DEF Own, Composes, Same, Has
  <2> QED
    BY <1>1, <1>2, <2>4 DEF Own
<1>7. IReaches'
  BY <1>1 DEF IMessaging, IReaches, Has
<1> QED
  BY <1>1, <1>3, <1>4, <1>5, <1>6, <1>7, ServedStep

\* What the end of a composition has in common
LEMMA ComposedStep ==
  ASSUME IMessaging, NEW u \in Slots, turn = u, u \in who, st[u] = "BUILD", Served,
         inc' = [inc EXCEPT ![u] = None], st' = [st EXCEPT ![u] = "IDLE"],
         UNCHANGED <<who, sending, flags, warning>>,
         NEW m \in Ids \cup {None}, NEW to, Effect(m, to), to \subseteq who,
         \A v \in to : st[v] # "OUT" /\ msg'[m].from \notin ig[v],
         IReaches'
  PROVE  IMessaging'
<1>1. UNCHANGED <<who, sending, ig, ra, rn, warn, shown, dropped>>
  BY DEF flags, warning
<1>2. /\ st'[u] = "IDLE" /\ inc'[u] = None
      /\ \A v \in Slots \ {u} : st'[v] = st[v] /\ inc'[v] = inc[v]
  BY DEF IMessaging, IUsers, IRefs
<1>3. Aside(m, to)
  BY <1>1, <1>2 DEF Aside, Served
<1>4. IUsers'
  <2>1. /\ IUsers /\ "IDLE" \in States /\ sending' \subseteq sending /\ rn' \subseteq rn
        /\ shown' \subseteq who /\ dropped' \subseteq who
    BY <1>1 DEF IMessaging, IUsers, States
  <2> QED
    BY <1>1, <2>1, UsersStay
<1>5. Own(u)'
  BY <1>1, <1>2, OwnPlain
<1> QED
  BY <1>1, <1>3, <1>4, <1>5, ServedStep

\* An end at which nothing is sent
LEMMA SilentEnd ==
  ASSUME IMessaging, NEW u \in Slots, turn = u, u \in who, st[u] = "BUILD", Served,
         inc' = [inc EXCEPT ![u] = None], st' = [st EXCEPT ![u] = "IDLE"],
         UNCHANGED <<who, sending, flags, warning>>, Effect(None, {}), IReaches'
  PROVE  IMessaging'
<1> DEFINE nobody == {}
           m == None
<1>1. Effect(m, nobody) /\ m \in Ids \cup {None}
  OBVIOUS
<1>2. nobody \subseteq who /\ \A v \in nobody : st[v] # "OUT" /\ msg'[m].from \notin ig[v]
  OBVIOUS
<1> HIDE DEF nobody, m
<1> QED
  BY <1>1, <1>2, ComposedStep

LEMMA AbortMsgStep ==
  ASSUME IMessaging, NEW u \in Slots, AbortMsg(u) PROVE IMessaging'
<1>1. /\ turn = u /\ u \in who /\ st[u] = "BUILD" /\ Served
      /\ msg' = Unref(msg, One(inc[u]))
      /\ inc' = [inc EXCEPT ![u] = None] /\ st' = [st EXCEPT ![u] = "IDLE"]
      /\ UNCHANGED <<who, queue, sending, flags, warning>>
  BY DEF AbortMsg, Polled
<1>2. IRefs /\ inc[u] # None /\ warn' = warn
  BY <1>1, EachOwn DEF IMessaging, Own, Composes, warning
<1>3. Effect(None, {})
  BY <1>1, <1>2, AbortEffect
<1>4. IReaches'
  BY <1>1 DEF IMessaging, IReaches, Has, warning
<1> QED
  BY <1>1, <1>3, <1>4, SilentEnd

LEMMA EndMsgStep ==
  ASSUME IMessaging, NEW u \in Slots, EndMsg(u) PROVE IMessaging'
<1>1. /\ turn = u /\ u \in who /\ st[u] = "BUILD" /\ Served
      /\ inc' = [inc EXCEPT ![u] = None] /\ st' = [st EXCEPT ![u] = "IDLE"]
      /\ UNCHANGED <<who, sending, flags, warning>>
  BY DEF EndMsg, Deliver, Polled
<1>2. IRefs /\ IUsers /\ IComposers /\ IWarning /\ inc[u] # None /\ warn' = warn
  BY <1>1, EachOwn DEF IMessaging, Own, Composes, warning
<1>3. CASE Enqueue(msg, queue, inc[u], Recipients(inc[u]))
  <2> DEFINE m == inc[u]
             to == Recipients(inc[u])
  <2>1. /\ Effect(m, to) /\ m \in Ids /\ queue' = Posted(queue, m, to)
        /\ \A v \in to : Len(queue[v]) < Backlog
        /\ Keeps(msg, msg', None)
    BY <1>1, <1>2, <1>3, PostEffect
  <2>2. to \subseteq who /\ \A v \in to : st[v] # "OUT" /\ msg[m].from \notin ig[v]
    BY DEF Recipients
  <2>3. queue \in Queues /\ who \subseteq Slots
    BY <1>2 DEF IRefs, IUsers
  <2> HIDE DEF m, to
  <2>4. IReaches'
    BY <1>1, <2>1, <2>3, ReachesPosted DEF IMessaging
  <2>5. ASSUME NEW v \in to PROVE msg'[m].from = msg[m].from
    <3>1. v \in Slots /\ Len(queue[v]) < Backlog
      BY <2>1, <2>2, <2>3
    <3>2. \A x \in Slots \cap to : Len(queue[x]) < Backlog
      BY <2>1
    <3>3. Has(queue', v) = IF v \in to THEN Has(queue, v) \cup {m} ELSE Has(queue, v)
      BY <2>1, <2>3, <3>1, <3>2, PostedHas
    <3>4. m \in Has(queue', v)
      BY <3>3
    <3>5. queue' \in Queues /\ Sound(msg', Due(queue', inc', warn'))
      BY <2>1 DEF Effect, IRefs
    <3>6. msg'[m].kind # "free"
      BY <2>1, <3>1, <3>4, <3>5, HeldExists
    <3>7. m \in Ids \ {None}
      BY <2>1 DEF Ids, None
    <3> QED
      BY <2>1, <3>6, <3>7 DEF Keeps, Same
  <2>6. \A v \in to : st[v] # "OUT" /\ msg'[m].from \notin ig[v]
    BY <2>2, <2>5
  <2> QED
    BY <1>1, <2>1, <2>2, <2>4, <2>6, ComposedStep
<1>4. CASE msg' = Unref(msg, One(inc[u])) /\ UNCHANGED queue
  <2>1. Effect(None, {})
    BY <1>1, <1>2, <1>4, AbortEffect
  <2>2. IReaches'
    BY <1>1, <1>4 DEF IMessaging, IReaches, Has, warning
  <2> QED
    BY <1>1, <2>1, <2>2, SilentEnd
<1> QED
  BY <1>3, <1>4 DEF EndMsg, Deliver

-----------------------------------------------------------------------------
\* A TELL, with its text or without
LEMMA BuildStep ==
  ASSUME IMessaging, NEW u \in Slots, turn = u, u \in who, st[u] \in {"IDLE", "LINE"}, Served,
         UNCHANGED <<who, sending, flags, warning>>,
         NEW m \in Ids, msg[m].kind = "free", NEW to \in SUBSET Slots, NEW kind \in {"msg", "toall"},
         msg' = [msg EXCEPT ![m] = Begun(u, to, kind)],
         inc' = [inc EXCEPT ![u] = m], st' = [st EXCEPT ![u] = "BUILD"], UNCHANGED queue
  PROVE  IMessaging'
<1>1. UNCHANGED <<who, sending, ig, ra, rn, warn, shown, dropped>>
  BY DEF flags, warning
<1>2. IRefs /\ inc[u] = None
  BY EachOwn DEF IMessaging, Own, Composes
<1>3. /\ Effect(m, {}) /\ msg'[m].kind = kind /\ msg'[m].from = u
      /\ \A v \in Slots : m \notin Has(queue', v)
  BY <1>1, <1>2, BuildEffect
<1>4. /\ st'[u] = "BUILD" /\ inc'[u] = m
      /\ \A v \in Slots \ {u} : st'[v] = st[v] /\ inc'[v] = inc[v]
  BY DEF IMessaging, IUsers, IRefs
<1>5. Aside(m, {})
  BY <1>1, <1>4 DEF Aside, Served
<1>6. IUsers'
  <2>1. /\ IUsers /\ "BUILD" \in States /\ sending' \subseteq sending /\ rn' \subseteq rn
        /\ shown' \subseteq who /\ dropped' \subseteq who
    BY <1>1 DEF IMessaging, IUsers, States
  <2> QED
    BY <1>1, <2>1, UsersStay
<1>7. Own(u)'
  <2>1. Composes(u)'
    BY <1>3, <1>4 DEF Composes, Ids, None
  <2>2. u \notin sending'
    BY <1>1 DEF IMessaging, OutputUndisturbed
  <2> QED
    BY <1>1, <1>4, <2>1, <2>2 DEF Own
<1>8. IReaches'
  BY <1>1 DEF IMessaging, IReaches, Has
<1> QED
  BY <1>1, <1>3, <1>5, <1>6, <1>7, <1>8, ServedStep

LEMMA TextStep ==
  ASSUME IMessaging, NEW u \in Slots, turn = u, u \in who, st[u] \in {"IDLE", "LINE"}, Served,
         UNCHANGED <<who, sending, flags, warning>>,
         NEW m \in Ids, msg[m].kind = "free", NEW kind \in {"msg", "toall"},
         NEW to, to \subseteq MayTell(u),
         Enqueue([msg EXCEPT ![m] = Told(u, to, kind)], queue, m, to),
         st' = [st EXCEPT ![u] = "IDLE"], UNCHANGED inc
  PROVE  IMessaging'
<1>1. UNCHANGED <<who, sending, ig, ra, rn, warn, shown, dropped>>
  BY DEF flags, warning
<1>2. /\ IRefs /\ IUsers /\ queue \in Queues /\ who \subseteq Slots
      /\ to \in SUBSET Slots /\ to \subseteq who
  BY DEF IMessaging, IRefs, IUsers, MayTell
<1>3. /\ Effect(m, to)
      /\ msg'[m].kind # "free" => msg'[m].from = u
      /\ queue' = Posted(queue, m, to)
      /\ \A v \in to : Len(queue[v]) < Backlog
  BY <1>1, <1>2, TextEffect
<1>4. st'[u] = "IDLE" /\ \A v \in Slots \ {u} : st'[v] = st[v]
  BY <1>2 DEF IUsers
<1>5. Aside(m, to)
  <2>1. \A v \in to : st[v] # "OUT" /\ u \notin ig[v]
    BY DEF MayTell
  <2>2. msg'[m].kind \in {"msg", "toall"} => msg'[m].from = u
    BY <1>3
  <2>3. turn' = turn + 1
    BY DEF Served
  <2>4. \A v \in Slots \ {turn} : st'[v] = st[v] /\ ig'[v] = ig[v] /\ inc'[v] = inc[v]
    BY <1>1, <1>4
  <2> QED
    BY <1>1, <1>2, <2>1, <2>2, <2>3, <2>4 DEF Aside
<1>6. IUsers'
  <2>1. /\ "IDLE" \in States /\ sending' \subseteq sending /\ rn' \subseteq rn
        /\ shown' \subseteq who /\ dropped' \subseteq who
    BY <1>1, <1>2 DEF IUsers, States
  <2> QED
    BY <1>1, <1>2, <2>1, UsersStay
<1>7. Own(u)'
  <2>1. inc[u] = None
    BY EachOwn DEF Own, Composes
  <2> QED
    BY <1>1, <1>4, <2>1, OwnPlain
<1>8. IReaches'
  BY <1>2, <1>3, ReachesPosted DEF IMessaging
<1>9. turn \in Slots => \A v \in Slots : v = turn => Own(v)'
  BY <1>7
<1>10. warn' = warn /\ m \in Ids \cup {None}
  BY <1>1
<1> QED
  BY <1>3, <1>5, <1>6, <1>8, <1>9, <1>10, ServedStep

LEMMA TellStep ==
  ASSUME IMessaging, NEW u \in Slots, NEW to, NEW kind, Tell(u, to, kind)
  PROVE  IMessaging'
<1>1. /\ turn = u /\ u \in who /\ st[u] \in {"IDLE", "LINE"} /\ Served
      /\ UNCHANGED <<who, sending, flags, warning>>
  BY DEF Tell, Typing, Polled
<1>2. kind \in {"msg", "toall"} /\ to \subseteq MayTell(u)
  BY DEF Tell, TellAll
<1>3. to \in SUBSET Slots
  BY <1>2 DEF MayTell, IMessaging, IUsers
<1> DEFINE new == [kind |-> kind, from |-> u, rcpt |-> to, text |-> FALSE, ref |-> 1]
<1>4. PICK m \in Ids :
        /\ Fresh(msg, m)
        /\ \/ /\ msg' = [msg EXCEPT ![m] = new]
              /\ inc' = [inc EXCEPT ![u] = m] /\ st' = [st EXCEPT ![u] = "BUILD"]
              /\ UNCHANGED queue
           \/ /\ Enqueue([msg EXCEPT ![m] = [new EXCEPT !.text = TRUE]], queue, m, to)
              /\ st' = [st EXCEPT ![u] = "IDLE"]
              /\ UNCHANGED inc
  BY DEF Tell
<1>5. msg[m].kind = "free"
  BY <1>4 DEF Fresh
<1>6. new = Begun(u, to, kind)
  BY DEF Begun
<1> HIDE DEF new
<1>7. CASE /\ msg' = [msg EXCEPT ![m] = new]
           /\ inc' = [inc EXCEPT ![u] = m] /\ st' = [st EXCEPT ![u] = "BUILD"]
           /\ UNCHANGED queue
  BY <1>1, <1>2, <1>3, <1>5, <1>6, <1>7, BuildStep
<1>8. CASE /\ Enqueue([msg EXCEPT ![m] = [new EXCEPT !.text = TRUE]], queue, m, to)
           /\ st' = [st EXCEPT ![u] = "IDLE"]
           /\ UNCHANGED inc
  <2>1. Enqueue([msg EXCEPT ![m] = Told(u, to, kind)], queue, m, to)
    BY <1>6, <1>8 DEF Told
  <2> QED
    BY <1>1, <1>2, <1>5, <1>8, <2>1, TextStep
<1> QED
  BY <1>4, <1>7, <1>8

-----------------------------------------------------------------------------
LEMMA ExplainStep ==
  ASSUME IMessaging, NEW u \in Slots, Explain(u) PROVE IMessaging'
<1>1. /\ turn = u /\ u \in who /\ st[u] \in {"IDLE", "LINE"} /\ Served
      /\ Len(queue[u]) < Backlog /\ st' = [st EXCEPT ![u] = "IDLE"]
      /\ UNCHANGED <<who, inc, sending, ig, ra, rn, warn, shown, dropped>>
  BY DEF Explain, Typing, Polled, flags, warning
<1>2. PICK m \in Ids :
        /\ msg[m].kind = "free"
        /\ msg' = [msg EXCEPT ![m] = [Blank EXCEPT !.kind = "expl", !.ref = 2]]
        /\ queue' = Forced(queue, u, m)
  BY DEF Explain, Fresh, Forced
<1>3. IRefs /\ IUsers /\ queue \in Queues /\ who \subseteq Slots
  BY DEF IMessaging, IRefs, IUsers
<1>4. Effect(m, {u})
  BY <1>1, <1>2, <1>3, ExplainEffect
<1>5. st'[u] = "IDLE" /\ \A v \in Slots \ {u} : st'[v] = st[v]
  BY <1>1, <1>3 DEF IUsers
<1>6. Aside(m, {u})
  BY <1>1, <1>5 DEF Aside, Served
<1>7. IUsers'
  <2>1. /\ "IDLE" \in States /\ sending' \subseteq sending /\ rn' \subseteq rn
        /\ shown' \subseteq who /\ dropped' \subseteq who
    BY <1>1, <1>3 DEF IUsers, States
  <2> QED
    BY <1>1, <1>3, <2>1, UsersStay
<1>8. Own(u)'
  <2>1. inc[u] = None
    BY <1>1, EachOwn DEF Own, Composes
  <2> QED
    BY <1>1, <1>5, <2>1, OwnPlain
<1>9. IReaches'
  <2>1. \A v \in Slots : Has(queue', v) = IF v = u THEN Has(queue, v) \cup {m} ELSE Has(queue, v)
    BY <1>1, <1>2, <1>3, ForcedHas
  <2> QED
    BY <1>1, <1>3, <2>1, ReachesKept DEF IMessaging
<1> QED
  BY <1>1, <1>4, <1>6, <1>7, <1>8, <1>9, ServedStep

LEMMA OutStep ==
  ASSUME IMessaging, NEW u \in Slots, Out(u) PROVE IMessaging'
<1>1. /\ turn = u /\ u \in who /\ st[u] \in {"IDLE", "LINE"} /\ Served
      /\ msg' = Unref(msg, [m \in Ids |-> InQueue(u, m)]) /\ queue' = Emptied(queue, u)
      /\ st' = [st EXCEPT ![u] = "OUT"]
      /\ dropped' = dropped \cup {v \in {u} : InQueue(u, warn) > 0}
      /\ UNCHANGED <<who, inc, sending, ig, ra, rn, warn, shown>>
  BY DEF Out, Typing, Polled, flags, Emptied
<1>2. IRefs /\ IUsers /\ queue \in Queues /\ who \subseteq Slots
  BY DEF IMessaging, IRefs, IUsers
<1>3. Effect(None, {})
  BY <1>1, <1>2, OutEffect
<1>4. st'[u] = "OUT" /\ \A v \in Slots \ {u} : st'[v] = st[v]
  BY <1>1, <1>2 DEF IUsers
<1>5. Aside(None, {})
  BY <1>1, <1>4 DEF Aside, Served
<1>6. IUsers'
  <2>1. /\ "OUT" \in States /\ sending' \subseteq sending /\ rn' \subseteq rn
        /\ shown' \subseteq who /\ dropped' \subseteq who
    BY <1>1, <1>2 DEF IUsers, States
  <2> QED
    BY <1>1, <1>2, <2>1, UsersStay
<1>7. \A v \in Slots : Has(queue', v) = IF v = u THEN {} ELSE Has(queue, v)
  BY <1>1, <1>2, EmptiedQueues
<1>8. Own(u)'
  <2>1. inc[u] = None /\ u \notin sending
    BY <1>1, EachOwn DEF Own, Composes
  <2> QED
    BY <1>1, <1>4, <1>7, <2>1 DEF Own, Composes
<1>9. IReaches'
  <2>1. InQueue(u, warn) \in Nat /\ (InQueue(u, warn) = 0 <=> warn \notin Has(queue, u))
    BY <1>2, CountHeld
  <2>2. warn \in Has(queue, u) => u \in dropped'
    BY <1>1, <2>1
  <2> QED
    BY <1>1, <1>2, <1>7, <2>2, ReachesKept DEF IMessaging
<1> QED
  BY <1>1, <1>3, <1>5, <1>6, <1>8, <1>9, ServedStep

LEMMA LeaveStep ==
  ASSUME IMessaging, NEW u \in Slots, Leave(u) PROVE IMessaging'
<1>1. /\ turn = u /\ u \in who /\ Served
      /\ Notify(u, Unref(msg, [m \in Ids |-> InQueue(u, m) + One(inc[u])[m]]), Emptied(queue, u), rn)
      /\ who' = who \ {u} /\ st' = [st EXCEPT ![u] = "IDLE"] /\ inc' = [inc EXCEPT ![u] = None]
      /\ sending' = sending \ {u} /\ ig' = [ig EXCEPT ![u] = {}]
      /\ shown' = shown \ {u} /\ dropped' = dropped \ {u} /\ warn' = warn
  BY DEF Leave, ExUser, Polled, Emptied
<1>2. IRefs /\ IUsers /\ queue \in Queues /\ who \subseteq Slots
  BY DEF IMessaging, IRefs, IUsers
<1>3. PICK m \in Ids : /\ Effect(m, Hear(u, rn)) /\ msg'[m].kind \in {"notify", "free"}
                       /\ queue' = Posted(Emptied(queue, u), m, Hear(u, rn))
                       /\ \A v \in Hear(u, rn) : Len(queue[v]) < Backlog
  BY <1>1, <1>2, LeaveEffect
<1>4. /\ st'[u] = "IDLE" /\ inc'[u] = None
      /\ \A v \in Slots \ {u} : st'[v] = st[v] /\ inc'[v] = inc[v] /\ ig'[v] = ig[v]
  BY <1>1, <1>2 DEF IUsers, IRefs
<1>5. Aside(m, Hear(u, rn))
  BY <1>1, <1>3, <1>4 DEF Aside, Hear, Served
<1>6. IUsers'
  BY <1>2, UsersLeave
<1>7. Own(u)'
  <2>1. queue'[u] = <<>>
    BY <1>2, <1>3 DEF Posted, Emptied, Hear, Queues
  <2> QED
    BY <1>1, <1>4, <2>1 DEF Own, Composes
<1>8. IReaches'
  <2>1. ASSUME NEW v \in who' PROVE Has(queue, v) \subseteq Has(queue', v)
    <3> DEFINE q == Emptied(queue, u)
               to == Hear(u, rn)
    <3>1. v \in Slots /\ v # u
      BY <1>1, <1>2
    <3>2. q \in Queues /\ Has(q, v) = Has(queue, v)
      BY <1>2, <3>1, EmptiedQueues
    <3>3. \A x \in Slots \cap to : Len(q[x]) < Backlog
      BY <1>2, <1>3 DEF Emptied, Hear, Queues
    <3>4. queue' = Posted(q, m, to)
      BY <1>3
    <3> HIDE DEF q, to
    <3>5. Has(Posted(q, m, to), v) = IF v \in to THEN Has(q, v) \cup {m} ELSE Has(q, v)
      BY <3>1, <3>2, <3>3, PostedHas
    <3> QED
      BY <3>2, <3>4, <3>5
  <2> QED
    BY <1>1, <2>1, ReachesKept DEF IMessaging
<1> QED
  BY <1>1, <1>3, <1>5, <1>6, <1>7, <1>8, ServedStep

-----------------------------------------------------------------------------
(***************************************************************************)
(* The two steps outside the turns: somebody connects, a pass begins       *)
(***************************************************************************)
\* What is held after a step that makes no message is what it was.
LEMMA KeptSame ==
  ASSUME IRefs', Keeps(msg, msg', None), NEW n \in Ids,
         \/ \E v \in Slots : n \in Has(queue', v) \/ inc'[v] = n
         \/ warn' = n
  PROVE  Same(msg, msg', n)
<1>1. queue' \in Queues /\ Sound(msg', Due(queue', inc', warn'))
  BY DEF IRefs
<1>2. msg'[n].kind # "free"
  BY <1>1, HeldExists
<1> QED
  BY <1>2 DEF Keeps, Ids, None

\* Nothing is composed, and nothing new is queued but the current warning.
LEMMA KeptComposers ==
  ASSUME IMessaging, IRefs', Keeps(msg, msg', None), UNCHANGED inc,
         \A v \in Slots : \A n \in Has(queue', v) : n \in Has(queue, v) \/ (n = warn /\ warn # None),
         \A v \in Slots : st'[v] = "BUILD" <=> st[v] = "BUILD"
  PROVE  IComposers'
<1> SUFFICES ASSUME NEW u \in Slots PROVE Composes(u)'
  BY DEF IComposers
<1>1. Composes(u)
  BY DEF IMessaging, IComposers
<1>2. inc'[u] # None <=> st'[u] = "BUILD"
  BY <1>1 DEF Composes
<1>3. ASSUME inc[u] # None
      PROVE  /\ msg'[inc[u]].from = u /\ msg'[inc[u]].kind \in {"msg", "toall"}
             /\ \A v \in Slots : inc[u] \notin Has(queue', v)
  <2>1. inc[u] \in Ids
    BY <1>3 DEF IMessaging, IRefs
  <2>2. Same(msg, msg', inc[u])
    BY <2>1, KeptSame
  <2>3. /\ msg[inc[u]].from = u /\ msg[inc[u]].kind \in {"msg", "toall"}
        /\ \A v \in Slots : inc[u] \notin Has(queue, v)
    BY <1>1, <1>3 DEF Composes
  <2>4. inc[u] = warn => warn = None
    BY <2>3 DEF IMessaging, IWarning
  <2> QED
    BY <2>2, <2>3, <2>4 DEF Same
<1> QED
  BY <1>2, <1>3 DEF Composes

LEMMA ConnectStep == IMessaging /\ Connect => IMessaging'
<1> SUFFICES ASSUME IMessaging, Connect PROVE IMessaging'
  OBVIOUS
<1>1. PICK u \in Slots \ who :
        /\ who' = who \cup {u} /\ st' = [st EXCEPT ![u] = "LOGIN"]
        /\ IF warn = None THEN UNCHANGED <<msg, queue>>
           ELSE /\ msg' = [msg EXCEPT ![warn].ref = @ + 1]
                /\ queue' = [queue EXCEPT ![u] = <<warn>>]
  BY DEF Connect
<1>2. UNCHANGED <<inc, sending, ig, ra, warn, shown, dropped, turn>>
  BY DEF Connect, warning
<1>3. IRefs /\ IUsers /\ IUsers' /\ queue \in Queues /\ st[u] = "IDLE" /\ queue[u] = <<>>
  BY <1>1, UsersConnect DEF IMessaging, IRefs, IAbsent
<1>4. IRefs' /\ Keeps(msg, msg', None)
  <2>1. CASE warn = None
    BY <1>1, <1>2, <1>3, <2>1 DEF IRefs, Keeps, Same
  <2>2. CASE warn # None
    BY <1>1, <1>2, <1>3, <2>2, ConnectEffect
  <2> QED
    BY <2>1, <2>2
<1>5. /\ st'[u] = "LOGIN"
      /\ \A v \in Slots : v # u => st'[v] = st[v] /\ queue'[v] = queue[v]
  BY <1>1, <1>3 DEF IUsers, Queues
<1>6. Has(queue', u) = IF warn = None THEN {} ELSE {warn}
  <2>1. CASE warn = None
    BY <1>1, <1>3, <2>1, NothingQueued
  <2>2. CASE warn # None
    <3>1. queue'[u] = <<warn>>
      BY <1>1, <1>3, <2>2 DEF Queues
    <3> QED
      BY <2>2, <3>1 DEF Has
  <2> QED
    BY <2>1, <2>2
<1>7. \A v \in Slots : v # u => Has(queue', v) = Has(queue, v)
  BY <1>5 DEF Has
<1>8. \A v \in Slots : \A n \in Has(queue', v) : n \in Ids
  <2>1. queue' \in Queues
    BY <1>4 DEF IRefs
  <2> QED
    BY <2>1, QueueLen DEF Has
<1>9. \A v \in Slots : \A n \in Has(queue', v) : Same(msg, msg', n)
  BY <1>4, <1>8, KeptSame
<1>10. IAbsent'
  BY <1>1, <1>5 DEF IMessaging, IAbsent
<1>11. IWarning'
  <2>1. warn # None => warn \in Ids
    BY <1>3 DEF IRefs
  <2>2. warn # None => Same(msg, msg', warn)
    BY <1>2, <1>4, <2>1, KeptSame
  <2> QED
    BY <1>2, <2>2 DEF IMessaging, IWarning, Same
<1>12. IComposers'
  <2>1. \A v \in Slots : \A n \in Has(queue', v) : n \in Has(queue, v) \/ (n = warn /\ warn # None)
    BY <1>6, <1>7
  <2>2. \A v \in Slots : st'[v] = "BUILD" <=> st[v] = "BUILD"
    BY <1>3, <1>5
  <2> QED
    BY <1>2, <1>4, <2>1, <2>2, KeptComposers
<1>13. IOut'
  <2> SUFFICES ASSUME NEW v \in who', st'[v] = "OUT", NEW n \in Has(queue', v)
               PROVE  msg'[n].kind = "warn"
    BY DEF IOut
  <2>1. v \in Slots /\ v # u /\ v \in who
    BY <1>1, <1>3, <1>5 DEF IUsers
  <2>2. msg[n].kind = "warn"
    BY <1>5, <1>7, <2>1 DEF IMessaging, IOut
  <2> QED
    BY <1>9, <2>1, <2>2 DEF Same
<1>14. IHeard'
  <2> SUFFICES ASSUME NEW v \in who', st'[v] = "LINE" \/ (st'[v] = "IDLE" /\ turn' <= v),
                      NEW n \in Has(queue', v), msg'[n].kind \in {"msg", "toall"}
               PROVE  msg'[n].from \notin ig'[v]
    BY DEF IHeard
  <2>1. v \in Slots /\ v # u /\ v \in who
    BY <1>1, <1>3, <1>5 DEF IUsers
  <2>2. Same(msg, msg', n) /\ n \in Has(queue, v)
    BY <1>7, <1>9, <2>1
  <2>3. msg[n].kind \in {"msg", "toall"} => msg[n].from \notin ig[v]
    BY <1>2, <1>5, <2>1, <2>2 DEF IMessaging, IHeard
  <2> QED
    BY <1>2, <2>2, <2>3 DEF Same
<1>15. IReaches'
  BY <1>1, <1>2, <1>3, <1>6, <1>7 DEF IMessaging, IReaches, IUsers
<1>16. OutputUndisturbed'
  BY <1>1, <1>2, <1>3, <1>5 DEF IMessaging, OutputUndisturbed, IUsers
<1> QED
  BY <1>3, <1>4, <1>10, <1>11, <1>12, <1>13, <1>14, <1>15, <1>16 DEF IMessaging

LEMMA BeginPassStep == IMessaging /\ BeginPass => IMessaging'
<1> SUFFICES ASSUME IMessaging, BeginPass PROVE IMessaging'
  OBVIOUS
<1>1. UNCHANGED <<who, inc, ig, ra, rn, warn, dropped>> /\ Transmit
  BY DEF BeginPass, flags
<1>2. /\ st' = [u \in Slots |-> IF u \in Idle THEN "RECV" ELSE st[u]]
      /\ sending' = sending \cup Idle
      /\ shown' = shown \cup {u \in Idle : Head(queue[u]) = warn}
  BY <1>1 DEF Transmit, Idle
<1>3. IRefs /\ IUsers /\ IUsers' /\ queue \in Queues /\ Idle \subseteq Slots /\ Idle \subseteq who
  BY UsersBeginPass DEF IMessaging, IRefs, IUsers, Idle
<1>4. IRefs' /\ Keeps(msg, msg', None) /\ queue' = Sent(queue, Idle)
  BY <1>1, <1>3, TransmitEffect
<1>5. \A v \in Slots : /\ Has(queue', v) \subseteq Has(queue, v)
                       /\ v \in Idle => Has(queue, v) = Has(queue', v) \cup {Head(queue[v])}
                       /\ v \notin Idle => Has(queue', v) = Has(queue, v)
  <2>1. \A v \in Idle : queue[v] # <<>>
    BY DEF Idle
  <2> QED
    BY <1>3, <1>4, <2>1, SentHas
<1>6. \A v \in Slots : \A n \in Has(queue', v) : Same(msg, msg', n)
  <2>1. queue' \in Queues
    BY <1>4 DEF IRefs
  <2>2. \A v \in Slots : \A n \in Has(queue', v) : n \in Ids
    BY <2>1, QueueLen DEF Has
  <2> QED
    BY <1>4, <2>2, KeptSame
<1>7. IAbsent'
  <2> SUFFICES ASSUME NEW v \in Slots \ who' PROVE st'[v] = "IDLE" /\ queue'[v] = <<>>
    BY DEF IAbsent
  <2>1. v \notin Idle /\ st[v] = "IDLE" /\ queue[v] = <<>>
    BY <1>1, <1>3 DEF IMessaging, IAbsent
  <2> QED
    BY <1>2, <1>4, <2>1 DEF Sent
<1>8. IWarning'
  <2>1. warn # None => warn \in Ids
    BY <1>3 DEF IRefs
  <2>2. warn # None => Same(msg, msg', warn)
    BY <1>1, <1>4, <2>1, KeptSame
  <2> QED
    BY <1>1, <2>2 DEF IMessaging, IWarning, Same
<1>9. IComposers'
  <2>1. \A v \in Slots : \A n \in Has(queue', v) : n \in Has(queue, v) \/ (n = warn /\ warn # None)
    BY <1>5
  <2>2. \A v \in Slots : st'[v] = "BUILD" <=> st[v] = "BUILD"
    BY <1>2 DEF Idle
  <2> QED
    BY <1>1, <1>4, <2>1, <2>2, KeptComposers
<1>10. IOut'
  <2> SUFFICES ASSUME NEW v \in who', st'[v] = "OUT", NEW n \in Has(queue', v)
               PROVE  msg'[n].kind = "warn"
    BY DEF IOut
  <2>1. v \in Slots /\ v \in who /\ st[v] = "OUT"
    BY <1>1, <1>2, <1>3 DEF IUsers
  <2>2. msg[n].kind = "warn"
    BY <1>5, <2>1 DEF IMessaging, IOut
  <2> QED
    BY <1>6, <2>1, <2>2 DEF Same
<1>11. IHeard'
  <2> SUFFICES ASSUME NEW v \in who', st'[v] \in {"IDLE", "LINE"},
                      NEW n \in Has(queue', v), msg'[n].kind \in {"msg", "toall"}
               PROVE  msg'[n].from \notin ig'[v]
    BY DEF IHeard
  <2>1. v \in Slots /\ v \in who /\ v \notin Idle /\ st[v] = st'[v]
    BY <1>1, <1>2, <1>3 DEF IUsers
  <2>2. Same(msg, msg', n) /\ n \in Has(queue, v)
    BY <1>5, <1>6, <2>1
  <2>3. queue[v] # <<>>
    BY <2>2, NothingQueued
  <2>4. st[v] = "LINE"
    BY <2>1, <2>3 DEF Idle
  <2>5. msg[n].kind \in {"msg", "toall"} => msg[n].from \notin ig[v]
    BY <2>1, <2>2, <2>4 DEF IMessaging, IHeard
  <2> QED
    BY <1>1, <2>2, <2>5 DEF Same
<1>12. IReaches'
  <2>1. ASSUME NEW v \in who', warn # None
        PROVE  v \in shown' \cup dropped' \/ warn \in Has(queue', v)
    <3>1. v \in Slots /\ v \in who
      BY <1>1, <1>3 DEF IUsers
    <3>2. v \in shown \cup dropped \/ warn \in Has(queue, v)
      BY <2>1, <3>1 DEF IMessaging, IReaches
    <3>3. CASE v \in shown \cup dropped
      BY <1>1, <1>2, <3>3
    <3>4. CASE warn \in Has(queue, v)
      BY <1>2, <1>5, <3>1, <3>4
    <3> QED
      BY <3>2, <3>3, <3>4
  <2> QED
    BY <1>1, <2>1 DEF IReaches
<1>13. OutputUndisturbed'
  BY <1>2, <1>3 DEF IMessaging, OutputUndisturbed, IUsers
<1> QED
  BY <1>3, <1>4, <1>7, <1>8, <1>9, <1>10, <1>11, <1>12, <1>13 DEF IMessaging

-----------------------------------------------------------------------------
LEMMA MessagingInit == Init => IMessaging
<1> SUFFICES ASSUME Init PROVE IMessaging
  OBVIOUS
<1>1. 0 \in Slots /\ 0 <= Backlog
  BY SizeAssumption, HeapAssumption DEF Slots
<1>2. queue \in Queues /\ \A u \in Slots : Has(queue, u) = {}
  BY <1>1 DEF Init, Queues, Has
<1>3. IRefs
  <2>1. msg \in Messages /\ inc \in [Slots -> Ids \cup {None}] /\ warn \in Ids \cup {None}
    BY <1>1 DEF Init, Messages, Blank
  <2>2. ASSUME NEW m \in Ids PROVE Due(queue, inc, warn)[m] = 0
    <3>1. Places(queue, m) = {}
      <4> SUFFICES ASSUME NEW p \in Places(queue, m) PROVE FALSE
        OBVIOUS
      <4>1. p[1] \in Slots /\ p[2] \in 1 .. Backlog /\ p[2] <= Len(queue[p[1]])
        BY DEF Places
      <4>2. queue[p[1]] = <<>>
        BY <4>1 DEF Init
      <4> QED
        BY <4>1, <4>2, HeapAssumption
    <3>2. {u \in Slots : inc[u] = m} = {} /\ One(warn)[m] = 0
      BY DEF Init, Ids, None, One
    <3>3. Due(queue, inc, warn)[m] = Cardinality({}) + Cardinality({}) + 0
      BY <3>1, <3>2 DEF Due, Composed
    <3> QED
      BY <3>3, FS_EmptySet
  <2>3. Sound(msg, Due(queue, inc, warn))
    BY <2>2 DEF Init, Blank, Sound
  <2> QED
    BY <1>2, <2>1, <2>3 DEF IRefs
<1>4. IUsers
  BY SizeAssumption DEF Init, IUsers, States
<1>5. IAbsent /\ IWarning /\ IOut /\ IHeard /\ IReaches /\ OutputUndisturbed
  BY DEF Init, IAbsent, IWarning, IOut, IHeard, IReaches, OutputUndisturbed
<1>6. IComposers
  BY DEF Init, IComposers, Composes
<1> QED
  BY <1>3, <1>4, <1>5, <1>6 DEF IMessaging

LEMMA MessagingStep == IMessaging /\ [Next]_vars => IMessaging'
<1> SUFFICES ASSUME IMessaging, [Next]_vars PROVE IMessaging'
  OBVIOUS
<1>1. CASE Connect
  BY <1>1, ConnectStep
<1>2. CASE BeginPass
  BY <1>2, BeginPassStep
<1>3. CASE Skip
  BY <1>3, SkipStep
<1>4. CASE Clock
  BY <1>4, ClockStep
<1>5. ASSUME NEW u \in Slots, Handle(u) PROVE IMessaging'
  <2>1. CASE Leave(u)
    BY <2>1, LeaveStep
  <2>2. CASE SendBlk(u)
    BY <2>2, SendBlkStep
  <2>3. CASE Login(u)
    BY <2>3, LoginStep
  <2>4. CASE ChangeName(u)
    BY <2>4, ChangeNameStep
  <2>5. CASE NewWarn(u)
    BY <2>5, NewWarnStep
  <2>6. CASE Return(u)
    BY <2>6, ReturnStep
  <2>7. CASE Write(u)
    BY <2>7, WriteStep
  <2>8. CASE EndMsg(u)
    BY <2>8, EndMsgStep
  <2>9. CASE AbortMsg(u)
    BY <2>9, AbortMsgStep
  <2>10. CASE Explain(u)
    BY <2>10, ExplainStep
  <2>11. CASE Out(u)
    BY <2>11, OutStep
  <2>12. CASE Lin(u)
    BY <2>12, LinStep
  <2>13. CASE Id(u)
    BY <2>13, IdStep
  <2>14. CASE Warn(u)
    BY <2>14, WarnStep
  <2>15. CASE SetFlags(u)
    BY <2>15, SetFlagsStep
  <2>16. CASE \E to \in SUBSET who, kind \in {"msg", "toall"} : Tell(u, to, kind)
    BY <2>16, TellStep
  <2> QED
    BY <1>5, <2>1, <2>2, <2>3, <2>4, <2>5, <2>6, <2>7, <2>8, <2>9, <2>10, <2>11, <2>12, <2>13,
       <2>14, <2>15, <2>16 DEF Handle
<1>6. CASE UNCHANGED vars
  <2>1. UNCHANGED <<who, st, msg, inc, queue, sending, ig, ra, rn, warn, turn, shown, dropped>>
    BY <1>6 DEF vars
  <2>2. IRefs' /\ IUsers' /\ IAbsent' /\ IWarning'
    BY <2>1 DEF IMessaging, IRefs, IUsers, IAbsent, IWarning
  <2>3. IComposers' /\ IOut' /\ IHeard' /\ IReaches' /\ OutputUndisturbed'
    BY <2>1 DEF IMessaging, IComposers, Composes, IOut, IHeard, IReaches, OutputUndisturbed, Has
  <2> QED
    BY <2>2, <2>3 DEF IMessaging
<1> QED
  BY <1>1, <1>2, <1>3, <1>4, <1>5, <1>6 DEF Next

LEMMA MessagingInvariant == Spec => []IMessaging
<1> QED
  BY MessagingInit, MessagingStep, PTL DEF Spec

-----------------------------------------------------------------------------
(***************************************************************************)
(* What the runs check                                                     *)
(***************************************************************************)
\* Every variable keeps its type, and no queue grows past the bound.
THEOREM MessagingTypeCorrect == Spec => []TypeOK
<1>1. IMessaging => TypeOK
  BY DEF IMessaging, IRefs, IUsers, TypeOK, Messages, Queues
<1> QED
  BY <1>1, MessagingInvariant, PTL

\* The count of every message that is no help text is the number of places in
\* queues, composers and warnings that refer to it, and it is freed with the last
\* of them (message.c, user_enqueue, user_transmit, con_exuser).  The count of a
\* help text is one more, for the reference cmd_exp loses: none but this is lost.
THEOREM RefCountsCorrect == Spec => []RefCounts
<1>1. IMessaging => RefCounts
  <2> SUFFICES ASSUME IMessaging, NEW m \in Ids
               PROVE  /\ msg[m].ref = Cardinality(Places(queue, m))
                                       + Cardinality({u \in Slots : inc[u] = m})
                                       + ((IF warn = m THEN 1 ELSE 0)
                                          + (IF msg[m].kind = "expl" THEN 1 ELSE 0))
                      /\ msg[m].kind = "free" <=> msg[m].ref = 0
    BY DEF RefCounts
  <2> DEFINE held == Cardinality(Places(queue, m))
             built == Cardinality({u \in Slots : inc[u] = m})
             warned == IF warn = m THEN 1 ELSE 0
             kept == IF msg[m].kind = "expl" THEN 1 ELSE 0
             ref == msg[m].ref
             due == Due(queue, inc, warn)[m]
  <2>1. held \in Nat /\ built \in Nat /\ warned \in Nat /\ kept \in Nat
    BY PlacesFinite, ComposedFinite DEF Composed
  <2>2. ref = due + kept /\ (msg[m].kind = "free" <=> ref = 0)
    BY DEF IMessaging, IRefs, Sound
  <2>3. due = held + built + warned
    BY DEF Due, Composed, One
  <2> HIDE DEF held, built, warned, kept, ref, due
  <2>4. ref = held + built + (warned + kept)
    BY <2>1, <2>2, <2>3
  <2> QED
    BY <2>2, <2>4 DEF held, built, warned, kept, ref
<1> QED
  BY <1>1, MessagingInvariant, PTL

\* Whoever composes has a message of his own, which is in nobody's queue yet
\* (cmd_tell, con_deliver).
THEOREM ComposersCorrect == Spec => []ComposersHaveMessages
<1>1. IMessaging => ComposersHaveMessages
  <2> SUFFICES ASSUME IMessaging, NEW u \in Slots
               PROVE  /\ inc[u] # None <=> st[u] = "BUILD"
                      /\ inc[u] # None => /\ msg[inc[u]].from = u
                                          /\ msg[inc[u]].kind \in {"msg", "toall"}
                                          /\ \A v \in Slots : InQueue(v, inc[u]) = 0
    BY DEF ComposersHaveMessages
  <2>1. Composes(u) /\ queue \in Queues
    BY DEF IMessaging, IComposers, IRefs
  <2>2. \A v \in Slots : InQueue(v, inc[u]) = 0 <=> inc[u] \notin Has(queue, v)
    BY <2>1, CountHeld
  <2> QED
    BY <2>1, <2>2 DEF Composes
<1> QED
  BY <1>1, MessagingInvariant, PTL

\* Nothing but warnings waits for somebody who is OUT (cmd_out, con_post,
\* con_notify).
THEOREM OutHearsCorrect == Spec => []OutHearsWarningsOnly
<1>1. IMessaging => OutHearsWarningsOnly
  BY DEF IMessaging, IOut, OutHearsWarningsOnly, Has
<1> QED
  BY <1>1, MessagingInvariant, PTL

\* A warning has been shown to every user, is on its way, or was thrown away
\* by the user himself (con_warn, con_newuser, cmd_out).
THEOREM WarningReachesCorrect == Spec => []WarningReaches
<1>1. IMessaging => WarningReaches
  <2> SUFFICES ASSUME IMessaging, warn # None, NEW u \in who
               PROVE  u \in shown \cup dropped \/ InQueue(u, warn) > 0
    BY DEF WarningReaches
  <2>1. u \in Slots /\ queue \in Queues
    BY DEF IMessaging, IUsers, IRefs
  <2>2. InQueue(u, warn) \in Nat /\ (InQueue(u, warn) = 0 <=> warn \notin Has(queue, u))
    BY <2>1, CountHeld
  <2> QED
    BY <2>2 DEF IMessaging, IReaches
<1> QED
  BY <1>1, MessagingInvariant, PTL

\* A user with unsent text is in no dialogue (user_transmit, user_sendblk).
THEOREM OutputUndisturbedCorrect == Spec => []OutputUndisturbed
<1>1. IMessaging => OutputUndisturbed
  BY DEF IMessaging
<1> QED
  BY <1>1, MessagingInvariant, PTL

-----------------------------------------------------------------------------
(***************************************************************************)
(* Whom a new message reaches: it is the last of the queue afterwards      *)
(***************************************************************************)
\* The last message of u's queue, in a step that made it longer
Unheard(u) ==
  Len(queue'[u]) > Len(queue[u]) =>
    LET m == msg'[queue'[u][Len(queue'[u])]]
    IN  m.kind \in {"msg", "toall"} => m.from \notin ig[u]

LEMMA ShorterUnheard ==
  ASSUME IMessaging, NEW u \in Slots, queue'[u] = queue[u] \/ queue'[u] = <<>>
  PROVE  Unheard(u)
<1>1. Len(queue[u]) \in Nat
  BY QueueLen DEF IMessaging, IRefs
<1> QED
  BY <1>1 DEF Unheard

LEMMA PostedUnheard ==
  ASSUME NEW q \in Queues, NEW m \in Ids, NEW to, queue' = Posted(q, m, to),
         NEW u \in Slots, q[u] = queue[u],
         u \in to => (msg'[m].kind \in {"msg", "toall"} => msg'[m].from \notin ig[u])
  PROVE  Unheard(u)
<1>1. q[u] \in Seq(Ids) /\ Len(q[u]) \in Nat
  BY QueueLen
<1>2. CASE u \in to
  <2>1. queue'[u] = Append(q[u], m)
    BY <1>2 DEF Posted
  <2>2. Len(queue'[u]) = Len(q[u]) + 1 /\ queue'[u][Len(q[u]) + 1] = m
    BY <1>1, <2>1, AppendProperties
  <2> QED
    BY <1>2, <2>2 DEF Unheard
<1>3. CASE u \notin to
  <2>1. queue'[u] = queue[u]
    BY <1>3 DEF Posted
  <2> QED
    BY <1>1, <2>1 DEF Unheard
<1> QED
  BY <1>2, <1>3

LEMMA NotifyUnheard ==
  ASSUME IMessaging, NEW ex, Notify(ex, msg, queue, rn), UNCHANGED <<inc, warn>>, NEW u \in Slots
  PROVE  Unheard(u)
<1>1. IRefs /\ IUsers /\ queue \in Queues
  BY DEF IMessaging, IRefs
<1>2. PICK m \in Ids : /\ msg'[m].kind \in {"notify", "free"}
                       /\ queue' = Posted(queue, m, Hear(ex, rn))
  BY <1>1, NotifyEffect
<1> QED
  BY <1>1, <1>2, PostedUnheard

LEMMA WarnUnheard ==
  ASSUME IMessaging, PostWarning, NEW u \in Slots
  PROVE  Unheard(u)
<1>1. IRefs /\ IUsers /\ queue \in Queues
  BY DEF IMessaging, IRefs
<1>2. PICK m \in Ids : msg'[m].kind = "warn" /\ queue' = Posted(queue, m, who)
  BY <1>1, WarnEffect
<1> QED
  BY <1>1, <1>2, PostedUnheard

LEMMA LeaveUnheard ==
  ASSUME IMessaging, NEW x \in Slots, Leave(x), NEW u \in Slots
  PROVE  Unheard(u)
<1>1. /\ turn = x
      /\ Notify(x, Unref(msg, [m \in Ids |-> InQueue(x, m) + One(inc[x])[m]]), Emptied(queue, x), rn)
      /\ inc' = [inc EXCEPT ![x] = None] /\ warn' = warn
  BY DEF Leave, ExUser, Polled, Emptied
<1>2. IRefs /\ IUsers /\ queue \in Queues
  BY DEF IMessaging, IRefs
<1>3. PICK m \in Ids : /\ msg'[m].kind \in {"notify", "free"}
                       /\ queue' = Posted(Emptied(queue, x), m, Hear(x, rn))
  BY <1>1, <1>2, LeaveEffect
<1>4. Emptied(queue, x) \in Queues
  BY <1>2, EmptiedQueues
<1>5. CASE u = x
  <2>1. queue'[u] = <<>>
    BY <1>2, <1>3, <1>5 DEF Posted, Emptied, Hear, Queues
  <2> QED
    BY <2>1, ShorterUnheard
<1>6. CASE u # x
  <2>1. Emptied(queue, x)[u] = queue[u]
    BY <1>2, <1>6 DEF Emptied, Queues
  <2> QED
    BY <1>3, <1>4, <2>1, PostedUnheard
<1> QED
  BY <1>5, <1>6

LEMMA EndMsgUnheard ==
  ASSUME IMessaging, NEW x \in Slots, EndMsg(x), NEW u \in Slots
  PROVE  Unheard(u)
<1>1. /\ turn = x /\ st[x] = "BUILD" /\ inc' = [inc EXCEPT ![x] = None] /\ warn' = warn
  BY DEF EndMsg, Deliver, Polled, warning
<1>2. /\ IRefs /\ IUsers /\ IComposers /\ IWarning /\ queue \in Queues /\ inc[x] # None
  BY <1>1, EachOwn DEF IMessaging, IRefs, Own, Composes
<1>3. CASE Enqueue(msg, queue, inc[x], Recipients(inc[x]))
  <2> DEFINE m == inc[x]
             to == Recipients(inc[x])
  <2>1. m \in Ids /\ queue' = Posted(queue, m, to) /\ Keeps(msg, msg', None)
    BY <1>1, <1>2, <1>3, PostEffect
  <2>2. \A v \in to : msg[m].from \notin ig[v]
    BY DEF Recipients
  <2> HIDE DEF m, to
  <2>3. msg'[m].kind # "free" => msg'[m].from = msg[m].from
    BY <2>1 DEF Keeps, Same, Ids, None
  <2>4. u \in to => (msg'[m].kind \in {"msg", "toall"} => msg'[m].from \notin ig[u])
    BY <2>2, <2>3
  <2> QED
    BY <1>2, <2>1, <2>4, PostedUnheard
<1>4. CASE UNCHANGED queue
  BY <1>4, ShorterUnheard
<1> QED
  BY <1>3, <1>4 DEF EndMsg, Deliver

LEMMA TellUnheard ==
  ASSUME IMessaging, NEW x \in Slots, NEW to, NEW kind, Tell(x, to, kind), NEW u \in Slots
  PROVE  Unheard(u)
<1>1. kind \in {"msg", "toall"} /\ to \subseteq MayTell(x) /\ UNCHANGED warn
  BY DEF Tell, TellAll, warning
<1>2. IRefs /\ queue \in Queues /\ to \in SUBSET Slots
  BY <1>1 DEF MayTell, IMessaging, IUsers, IRefs
<1> DEFINE new == [kind |-> kind, from |-> x, rcpt |-> to, text |-> FALSE, ref |-> 1]
<1>3. PICK m \in Ids :
        /\ Fresh(msg, m)
        /\ \/ UNCHANGED queue
           \/ Enqueue([msg EXCEPT ![m] = [new EXCEPT !.text = TRUE]], queue, m, to) /\ UNCHANGED inc
  BY DEF Tell
<1>4. msg[m].kind = "free"
  BY <1>3 DEF Fresh
<1>5. new = Begun(x, to, kind)
  BY DEF Begun
<1> HIDE DEF new
<1>6. CASE UNCHANGED queue
  BY <1>6, ShorterUnheard
<1>7. CASE Enqueue([msg EXCEPT ![m] = [new EXCEPT !.text = TRUE]], queue, m, to) /\ UNCHANGED inc
  <2>1. Enqueue([msg EXCEPT ![m] = Told(x, to, kind)], queue, m, to) /\ UNCHANGED <<inc, warn>>
    BY <1>1, <1>5, <1>7 DEF Told
  <2>2. queue' = Posted(queue, m, to) /\ (msg'[m].kind # "free" => msg'[m].from = x)
    BY <1>1, <1>2, <1>4, <2>1, TextEffect
  <2>3. u \in to => (msg'[m].kind \in {"msg", "toall"} => msg'[m].from \notin ig[u])
    BY <1>1, <2>2 DEF MayTell
  <2> QED
    BY <1>2, <2>2, <2>3, PostedUnheard
<1> QED
  BY <1>3, <1>6, <1>7

\* EXPLAIN puts its text first: what was last is last still, and clean.
LEMMA ExplainUnheard ==
  ASSUME IMessaging, NEW x \in Slots, Explain(x), NEW u \in Slots
  PROVE  Unheard(u)
<1>1. /\ turn = x /\ x \in who /\ st[x] \in {"IDLE", "LINE"} /\ Len(queue[x]) < Backlog
      /\ UNCHANGED <<inc, warn>>
  BY DEF Explain, Typing, Polled, warning
<1>2. PICK m \in Ids :
        /\ msg[m].kind = "free"
        /\ msg' = [msg EXCEPT ![m] = [Blank EXCEPT !.kind = "expl", !.ref = 2]]
        /\ queue' = Forced(queue, x, m)
  BY DEF Explain, Fresh, Forced
<1>3. IRefs /\ queue \in Queues
  BY DEF IMessaging, IRefs
<1>4. Effect(m, {x}) /\ msg'[m].kind = "expl"
  BY <1>1, <1>2, <1>3, ExplainEffect
<1>5. /\ Len(queue'[x]) = Len(queue[x]) + 1 /\ queue'[x][1] = m
      /\ \A i \in 1 .. Len(queue[x]) : queue'[x][i + 1] = queue[x][i]
      /\ \A v \in Slots : v # x => queue'[v] = queue[v]
  BY <1>2, <1>3, ForcedQueue
<1>6. CASE u # x
  BY <1>5, <1>6, ShorterUnheard
<1>7. CASE u = x /\ Len(queue[x]) = 0
  BY <1>4, <1>5, <1>7 DEF Unheard
<1>8. CASE u = x /\ Len(queue[x]) # 0
  <2> DEFINE k == Len(queue[x])
             n == queue[x][k]
  <2>1. k \in 1 .. Len(queue[x]) /\ DOMAIN queue[x] = 1 .. Len(queue[x])
    BY <1>3, <1>8, QueueLen
  <2>2. n \in Has(queue, x) /\ n \in Ids
    BY <1>3, <2>1, QueueLen DEF Has
  <2>3. msg[n].kind \in {"msg", "toall"} => msg[n].from \notin ig[x]
    BY <1>1, <2>2, SizeAssumption DEF IMessaging, IHeard, Slots
  <2>4. queue'[x][Len(queue'[x])] = n
    BY <1>5, <2>1
  <2>5. msg'[n] = msg[n] \/ n = m
    BY <1>2, <1>3, <2>2 DEF IRefs, Messages
  <2> HIDE DEF k, n
  <2> QED
    BY <1>4, <1>8, <2>3, <2>4, <2>5 DEF Unheard
<1> QED
  BY <1>6, <1>7, <1>8

LEMMA EveryUnheard ==
  ASSUME IMessaging, [Next]_vars, NEW u \in who \cap who'
  PROVE  Unheard(u)
<1>1. u \in Slots /\ queue \in Queues
  BY DEF IMessaging, IUsers, IRefs
<1>2. CASE UNCHANGED queue
  BY <1>1, <1>2, ShorterUnheard
<1>3. CASE Connect
  <2>1. queue'[u] = queue[u]
    BY <1>1, <1>3 DEF Connect, Queues
  <2> QED
    BY <1>1, <2>1, ShorterUnheard
<1>4. CASE BeginPass
  <2>1. queue' = Sent(queue, Idle)
    BY <1>4 DEF BeginPass, Transmit, Sent, Idle
  <2>2. CASE u \in Idle
    <3>1. Sent(queue, Idle)[u] \in Seq(Ids) /\ Len(queue[u]) = Len(Sent(queue, Idle)[u]) + 1
      BY <1>1, <2>2, SentQueue DEF Idle
    <3>2. Len(queue'[u]) \in Nat /\ Len(queue[u]) = Len(queue'[u]) + 1
      BY <2>1, <3>1
    <3> QED
      BY <3>2 DEF Unheard
  <2>3. CASE u \notin Idle
    BY <1>1, <2>1, <2>3, ShorterUnheard DEF Sent
  <2> QED
    BY <2>2, <2>3
<1>5. CASE Skip
  BY <1>2, <1>5 DEF Skip
<1>6. CASE Clock
  BY <1>1, <1>2, <1>6, WarnUnheard DEF Clock
<1>7. ASSUME NEW x \in Slots, Handle(x) PROVE Unheard(u)
  <2>1. CASE SendBlk(x) \/ Return(x) \/ Write(x) \/ AbortMsg(x) \/ Lin(x) \/ SetFlags(x)
    BY <1>2, <2>1 DEF SendBlk, Return, Write, AbortMsg, Lin, SetFlags
  <2>2. CASE Leave(x)
    BY <1>1, <2>2, LeaveUnheard
  <2>3. CASE Login(x)
    BY <1>1, <2>3, NotifyUnheard DEF Login, warning
  <2>4. CASE ChangeName(x)
    BY <1>1, <2>4, NotifyUnheard DEF ChangeName, Change, warning
  <2>5. CASE NewWarn(x)
    BY <1>1, <2>5, WarnUnheard DEF NewWarn
  <2>6. CASE EndMsg(x)
    BY <1>1, <2>6, EndMsgUnheard
  <2>7. CASE Explain(x)
    BY <1>1, <2>7, ExplainUnheard
  <2>8. CASE Out(x)
    <3>1. queue' = [queue EXCEPT ![x] = <<>>]
      BY <2>8 DEF Out
    <3>2. queue'[u] = queue[u] \/ queue'[u] = <<>>
      BY <1>1, <3>1 DEF Queues
    <3> QED
      BY <1>1, <3>2, ShorterUnheard
  <2>9. CASE Id(x)
    BY <1>1, <1>2, <2>9, NotifyUnheard DEF Id, Change, warning
  <2>10. CASE Warn(x)
    BY <1>1, <1>2, <2>10, WarnUnheard DEF Warn
  <2>11. CASE \E to \in SUBSET who, kind \in {"msg", "toall"} : Tell(x, to, kind)
    BY <1>1, <2>11, TellUnheard
  <2> QED
    BY <1>7, <2>1, <2>2, <2>3, <2>4, <2>5, <2>6, <2>7, <2>8, <2>9, <2>10, <2>11 DEF Handle
<1>8. CASE UNCHANGED vars
  BY <1>2, <1>8 DEF vars
<1> QED
  BY <1>3, <1>4, <1>5, <1>6, <1>7, <1>8 DEF Next

\* A message that has just been queued for u is from nobody u ignores at that
\* time (con_post looks again, cmd_tell refuses, EXPLAIN jumps the queue).
THEOREM IgnoredUnheardCorrect == Spec => IgnoredUnheard
<1>1. IMessaging /\ [Next]_vars =>
        [\A u \in who \cap who' : Len(queue'[u]) > Len(queue[u]) =>
           LET m == msg'[queue'[u][Len(queue'[u])]]
           IN  m.kind \in {"msg", "toall"} => m.from \notin ig[u]]_vars
  <2> SUFFICES ASSUME IMessaging, [Next]_vars, NEW u \in who \cap who'
               PROVE  Len(queue'[u]) > Len(queue[u]) =>
                        LET m == msg'[queue'[u][Len(queue'[u])]]
                        IN  m.kind \in {"msg", "toall"} => m.from \notin ig[u]
    OBVIOUS
  <2>1. Unheard(u)
    BY EveryUnheard
  <2> QED
    BY <2>1 DEF Unheard
<1> QED
  BY <1>1, MessagingInvariant, PTL DEF Spec, IgnoredUnheard

=============================================================================
