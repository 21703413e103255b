----------------------------- MODULE LinesProofs -----------------------------
(***************************************************************************)
(* Lines and telnet requests taken apart again: for any number of lines,   *)
(* however the network cuts them.                                          *)
(***************************************************************************)
EXTENDS Lines, Numbers, SequenceTheorems

-----------------------------------------------------------------------------
(***************************************************************************)
(* What FlattenSeq computes.  Joined(f, s, n): f[i] is the first i pieces  *)
(* of s joined.                                                            *)
(***************************************************************************)
Joined(f, s, n) ==
  f = [i \in 1 .. n |-> IF i = 1 THEN s[i] ELSE f[i - 1] \o s[i]]

LEMMA JoinedLonger ==
  ASSUME NEW s, NEW n \in Nat, NEW f, Joined(f, s, n)
  PROVE  \E g : Joined(g, s, n + 1)
<1> DEFINE g == [i \in 1 .. n + 1 |->
                   IF i = n + 1 THEN IF i = 1 THEN s[i] ELSE f[n] \o s[i] ELSE f[i]]
<1>1. ASSUME NEW i \in 1 .. n + 1
      PROVE  g[i] = IF i = 1 THEN s[i] ELSE g[i - 1] \o s[i]
  <2>1. CASE i = n + 1
    BY <2>1
  <2>2. CASE i # n + 1
    <3>1. i \in 1 .. n /\ (i # 1 => i - 1 \in 1 .. n)
      BY <2>2
    <3>2. f[i] = IF i = 1 THEN s[i] ELSE f[i - 1] \o s[i]
      BY <3>1 DEF Joined
    <3> QED
      BY <2>2, <3>1, <3>2
  <2> QED
    BY <2>1, <2>2
<1>2. g = [i \in 1 .. n + 1 |-> IF i = 1 THEN s[i] ELSE g[i - 1] \o s[i]]
  BY <1>1
<1> QED
  BY <1>2 DEF Joined

LEMMA JoinedExists == \A s : \A m \in Nat : \E f : Joined(f, s, m)
<1> SUFFICES ASSUME NEW s, NEW m \in Nat, ~ \E f : Joined(f, s, m)
             PROVE  FALSE
  OBVIOUS
<1> DEFINE Missing == {n \in Nat : ~ \E f : Joined(f, s, n)}
<1>1. PICK n \in Missing : \A k \in Missing : n <= k
  <2>1. m \in Missing /\ Missing \in SUBSET Nat
    OBVIOUS
  <2> HIDE DEF Missing
  <2> QED
    BY <2>1, LeastNumber
<1>2. CASE n = 0
  <2> DEFINE f == [i \in 1 .. 0 |-> s[i]]
  <2>1. f = [i \in 1 .. 0 |-> IF i = 1 THEN s[i] ELSE f[i - 1] \o s[i]]
    OBVIOUS
  <2> QED
    BY <1>2, <2>1 DEF Joined
<1>3. CASE n # 0
  <2>1. n - 1 \in Nat /\ n - 1 \notin Missing
    BY <1>1, <1>3
  <2>2. PICK f : Joined(f, s, n - 1)
    BY <2>1
  <2>3. \E g : Joined(g, s, (n - 1) + 1)
    BY <2>1, <2>2, JoinedLonger
  <2> QED
    BY <2>1, <2>3
<1> QED
  BY <1>2, <1>3

\* Two ways of joining agree.
Agree(s, t, n) == \A i \in 1 .. n : s[i] = t[i]

LEMMA JoinedUnique ==
  ASSUME NEW s, NEW t, NEW m \in Nat,
         NEW f, NEW g, Agree(s, t, m), Joined(f, s, m), Joined(g, t, m + 1)
  PROVE  Agree(f, g, m)
<1> USE DEF Agree
<1> DEFINE Differ == {i \in 1 .. m : f[i] # g[i]}
<1> SUFFICES ASSUME Differ # {} PROVE FALSE
  OBVIOUS
<1>1. PICK i \in Differ : \A k \in Differ : i <= k
  <2>1. Differ \in SUBSET Nat
    OBVIOUS
  <2> HIDE DEF Differ
  <2> QED
    BY <2>1, LeastNumber
<1>2. i \in 1 .. m /\ i \in 1 .. m + 1 /\ (i # 1 => i - 1 \in 1 .. m)
  OBVIOUS
<1>3. /\ f[i] = IF i = 1 THEN s[i] ELSE f[i - 1] \o s[i]
      /\ g[i] = IF i = 1 THEN t[i] ELSE g[i - 1] \o t[i]
  BY <1>2 DEF Joined
<1>4. i # 1 => f[i - 1] = g[i - 1]
  BY <1>1, <1>2
<1> QED
  BY <1>1, <1>2, <1>3, <1>4

LEMMA FlattenIsJoined ==
  ASSUME NEW s, Len(s) \in Nat \ {0}
  PROVE  \E f : Joined(f, s, Len(s)) /\ FlattenSeq(s) = f[Len(s)]
<1> DEFINE flatten == CHOOSE f : f = [i \in 1 .. Len(s) |->
                                       IF i = 1 THEN s[i] ELSE f[i - 1] \o s[i]]
<1>1. \E f : f = [i \in 1 .. Len(s) |-> IF i = 1 THEN s[i] ELSE f[i - 1] \o s[i]]
  BY JoinedExists DEF Joined
<1>2. Joined(flatten, s, Len(s))
  BY <1>1 DEF Joined
<1>3. FlattenSeq(s) = flatten[Len(s)]
  BY DEF FlattenSeq
<1> QED
  BY <1>2, <1>3

LEMMA FlattenEmpty == FlattenSeq(<<>>) = <<>>
  BY DEF FlattenSeq

\* One more piece
LEMMA FlattenAppend ==
  ASSUME NEW S, NEW s \in Seq(Seq(S)), NEW t \in Seq(S)
  PROVE  FlattenSeq(Append(s, t)) = FlattenSeq(s) \o t
<1>1. PICK n, u : n = Len(s) /\ u = Append(s, t)
  OBVIOUS
<1>2. n \in Nat
  BY <1>1
<1>3. Len(u) = n + 1 /\ u[n + 1] = t
  BY <1>1
<1>4. Agree(s, u, n)
  BY <1>1 DEF Agree
<1>5. n + 1 \in Nat \ {0} /\ n + 1 \in 1 .. n + 1 /\ (n + 1) - 1 = n
  BY <1>2
<1>6. PICK g : Joined(g, u, n + 1) /\ FlattenSeq(u) = g[n + 1]
  BY <1>3, <1>5, FlattenIsJoined
<1>7. g[n + 1] = IF n + 1 = 1 THEN t ELSE g[n] \o t
  BY <1>3, <1>5, <1>6 DEF Joined
<1>8. CASE n = 0
  <2>1. s = <<>>
    <3>1. Len(s) = 0 /\ <<>> \in Seq(Seq(S)) /\ Len(<<>>) = 0
      BY <1>1, <1>8
    <3> QED
      BY <3>1, SeqEqual
  <2>2. FlattenSeq(u) = t
    BY <1>6, <1>7, <1>8
  <2> QED
    BY <1>1, <2>1, <2>2, FlattenEmpty, ConcatEmptySeq
<1>9. CASE n # 0
  <2>1. n \in Nat \ {0}
    BY <1>2, <1>9
  <2>2. PICK f : Joined(f, s, n) /\ FlattenSeq(s) = f[n]
    BY <1>1, <2>1, FlattenIsJoined
  <2>3. Agree(f, g, n)
    <3>1. Joined(f, s, n) /\ Joined(g, u, n + 1)
      BY <1>6, <2>2
    <3> QED
      BY <1>2, <1>4, <3>1, JoinedUnique
  <2>4. f[n] = g[n] /\ n + 1 # 1
    BY <2>1, <2>3 DEF Agree
  <2>5. FlattenSeq(u) = f[n] \o t
    BY <1>6, <1>7, <2>4
  <2> QED
    BY <1>1, <2>2, <2>5
<1> QED
  BY <1>8, <1>9

\* The first i pieces of s
LEMMA Shorter ==
  ASSUME NEW S, NEW s \in Seq(S), NEW i \in 1 .. Len(s)
  PROVE  /\ SubSeq(s, 1, i) = Append(SubSeq(s, 1, i - 1), s[i])
         /\ SubSeq(s, 1, i) \in Seq(S) /\ SubSeq(s, 1, i - 1) \in Seq(S)
<1>1. SubSeq(s, 1, i) \in Seq(S) /\ SubSeq(s, 1, i - 1) \in Seq(S)
  OBVIOUS
<1>2. SubSeq(s, 1, i) = SubSeq(s, 1, i - 1) \o <<s[i]>>
  <2>1. 1 \in 1 .. Len(s) /\ i \in 1 .. Len(s)
    OBVIOUS
  <2> QED
    BY <2>1, SubSeqRecursiveSecond
<1>3. Append(SubSeq(s, 1, i - 1), s[i]) = SubSeq(s, 1, i - 1) \o <<s[i]>>
  BY <1>1, ElementOfSeq, AppendIsConcat
<1> QED
  BY <1>1, <1>2, <1>3

LEMMA FlattenType ==
  ASSUME NEW S, NEW s \in Seq(Seq(S))
  PROVE  FlattenSeq(s) \in Seq(S)
<1> DEFINE Wrong == {i \in 0 .. Len(s) : FlattenSeq(SubSeq(s, 1, i)) \notin Seq(S)}
<1>1. Wrong = {}
  <2> SUFFICES ASSUME Wrong # {} PROVE FALSE
    OBVIOUS
  <2>1. PICK i \in Wrong : \A k \in Wrong : i <= k
    <3>1. Wrong \in SUBSET Nat
      OBVIOUS
    <3> HIDE DEF Wrong
    <3> QED
      BY <3>1, LeastNumber
  <2>2. i # 0
    <3>1. SubSeq(s, 1, 0) = <<>>
      BY SubSeqEmpty
    <3>2. <<>> \in Seq(S) /\ i \in Wrong
      OBVIOUS
    <3> QED
      BY <3>1, <3>2, FlattenEmpty
  <2>3. i \in 1 .. Len(s) /\ i - 1 \in 0 .. Len(s)
    BY <2>2
  <2>4. s[i] \in Seq(S) /\ SubSeq(s, 1, i - 1) \in Seq(Seq(S))
    BY <2>3, Shorter
  <2>5. FlattenSeq(SubSeq(s, 1, i)) = FlattenSeq(SubSeq(s, 1, i - 1)) \o s[i]
    BY <2>3, <2>4, Shorter, FlattenAppend
  <2>6. FlattenSeq(SubSeq(s, 1, i - 1)) \in Seq(S)
    BY <2>1, <2>3
  <2>7. FlattenSeq(SubSeq(s, 1, i)) \in Seq(S)
    BY <2>4, <2>5, <2>6, ConcatProperties
  <2> QED
    BY <2>1, <2>7
<1>2. Len(s) \in 0 .. Len(s) /\ SubSeq(s, 1, Len(s)) = s
  BY SubSeqFull
<1> QED
  BY <1>1, <1>2

\* A sequence from its elements
LEMMA IsAppend ==
  ASSUME NEW S, NEW s \in Seq(S), NEW t \in Seq(S), NEW x \in S, Len(t) = Len(s) + 1,
         \A i \in 1 .. Len(s) : t[i] = s[i], t[Len(s) + 1] = x
  PROVE  t = Append(s, x)
<1>1. /\ Append(s, x) \in Seq(S) /\ Len(Append(s, x)) = Len(s) + 1
      /\ Append(s, x)[Len(s) + 1] = x /\ \A i \in 1 .. Len(s) : Append(s, x)[i] = s[i]
  BY AppendProperties
<1>2. \A i \in 1 .. Len(t) : i \in 1 .. Len(s) \/ i = Len(s) + 1
  OBVIOUS
<1>3. \A i \in 1 .. Len(t) : t[i] = Append(s, x)[i]
  BY <1>1, <1>2
<1> QED
  BY <1>1, <1>3, SeqEqual

LEMMA PairIsConcat ==
  ASSUME NEW S, NEW a \in S, NEW b \in S
  PROVE  <<a>> \in Seq(S) /\ <<b>> \in Seq(S) /\ <<a>> \o <<b>> = <<a, b>>
<1>1. <<a>> \in Seq(S) /\ <<b>> \in Seq(S) /\ <<a, b>> \in Seq(S)
  OBVIOUS
<1>2. PICK s, t : s = <<a>> /\ t = <<a, b>>
  OBVIOUS
<1>3. Len(s) = 1 /\ Len(t) = 2 /\ s[1] = a /\ t[1] = a /\ t[2] = b
  BY <1>2
<1>4. s \in Seq(S) /\ t \in Seq(S) /\ Len(t) = Len(s) + 1 /\ t[Len(s) + 1] = b
      /\ \A i \in 1 .. Len(s) : t[i] = s[i]
  BY <1>1, <1>2, <1>3
<1>5. t = Append(s, b)
  BY <1>4, IsAppend
<1> QED
  BY <1>1, <1>2, <1>4, <1>5, AppendIsConcat

\* Kept folded: with many sequences about, the solver would apply it for ever.
Associative(a, b, c) == (a \o b) \o c = a \o (b \o c)

LEMMA SeqAssociative ==
  ASSUME NEW S, NEW a \in Seq(S), NEW b \in Seq(S), NEW c \in Seq(S)
  PROVE  Associative(a, b, c)
  BY ConcatAssociative DEF Associative

LEMMA FlattenConcat ==
  ASSUME NEW S, NEW s \in Seq(Seq(S)), NEW t \in Seq(Seq(S))
  PROVE  FlattenSeq(s \o t) = FlattenSeq(s) \o FlattenSeq(t)
<1> DEFINE Halves(a) == FlattenSeq(s \o a) = FlattenSeq(s) \o FlattenSeq(a)
           Wrong == {i \in 0 .. Len(t) : ~ Halves(SubSeq(t, 1, i))}
<1>1. FlattenSeq(s) \in Seq(S)
  BY FlattenType
<1>2. Halves(<<>>)
  <2>1. s \o <<>> = s /\ FlattenSeq(s) \o <<>> = FlattenSeq(s)
    BY <1>1, ConcatEmptySeq
  <2> QED
    BY <2>1, FlattenEmpty
<1>3. ASSUME NEW a \in Seq(Seq(S)), NEW b \in Seq(S), Halves(a)
      PROVE  Halves(Append(a, b))
  <2>1. s \o Append(a, b) = Append(s \o a, b) /\ s \o a \in Seq(Seq(S))
    <3>1. <<b>> \in Seq(Seq(S)) /\ s \o a \in Seq(Seq(S))
      BY ConcatProperties
    <3>2. Append(a, b) = a \o <<b>> /\ Append(s \o a, b) = (s \o a) \o <<b>>
      BY <3>1, AppendIsConcat
    <3> QED
      BY <3>1, <3>2, ConcatAssociative
  <2>2. FlattenSeq(Append(s \o a, b)) = FlattenSeq(s \o a) \o b
    BY <2>1, FlattenAppend
  <2>3. FlattenSeq(Append(a, b)) = FlattenSeq(a) \o b
    BY FlattenAppend
  <2>4. FlattenSeq(a) \in Seq(S)
    BY FlattenType
  <2>5. (FlattenSeq(s) \o FlattenSeq(a)) \o b = FlattenSeq(s) \o (FlattenSeq(a) \o b)
    <3>1. Associative(FlattenSeq(s), FlattenSeq(a), b)
      BY <1>1, <2>4, SeqAssociative
    <3> QED
      BY <3>1 DEF Associative
  <2> QED
    BY <1>3, <2>1, <2>2, <2>3, <2>5
<1>4. Wrong = {}
  <2> SUFFICES ASSUME Wrong # {} PROVE FALSE
    OBVIOUS
  <2>1. PICK i \in Wrong : \A k \in Wrong : i <= k
    <3>1. Wrong \in SUBSET Nat
      OBVIOUS
    <3> HIDE DEF Wrong
    <3> QED
      BY <3>1, LeastNumber
  <2> HIDE DEF Halves
  <2>2. i # 0
    <3>1. SubSeq(t, 1, 0) = <<>>
      BY SubSeqEmpty
    <3> QED
      BY <1>2, <2>1, <3>1
  <2>3. i \in 1 .. Len(t) /\ i - 1 \in 0 .. Len(t) /\ ~ (i <= i - 1)
    BY <2>2
  <2>4. Halves(SubSeq(t, 1, i - 1))
    BY <2>1, <2>3
  <2>5. t[i] \in Seq(S)
    BY <2>3
  <2>6. /\ SubSeq(t, 1, i) = Append(SubSeq(t, 1, i - 1), t[i])
        /\ SubSeq(t, 1, i - 1) \in Seq(Seq(S))
    BY <2>3, Shorter
  <2>7. Halves(SubSeq(t, 1, i))
    BY <1>3, <2>4, <2>5, <2>6
  <2> QED
    BY <2>1, <2>7
<1>5. Len(t) \in 0 .. Len(t) /\ SubSeq(t, 1, Len(t)) = t
  BY SubSeqFull
<1> QED
  BY <1>4, <1>5

LEMMA FlattenOne ==
  ASSUME NEW S, NEW t \in Seq(S)
  PROVE  FlattenSeq(<<t>>) = t
<1>1. <<>> \in Seq(Seq(S)) /\ Append(<<>>, t) = <<t>>
  OBVIOUS
<1>2. FlattenSeq(<<t>>) = <<>> \o t
  BY <1>1, FlattenAppend, FlattenEmpty
<1> QED
  BY <1>2, ConcatEmptySeq

LEMMA FlattenFirst ==
  ASSUME NEW S, NEW s \in Seq(Seq(S)), s # <<>>
  PROVE  FlattenSeq(s) = s[1] \o FlattenSeq(Tail(s))
<1>1. s = <<s[1]>> \o Tail(s) /\ s[1] \in Seq(S) /\ Tail(s) \in Seq(Seq(S))
  OBVIOUS
<1>2. <<s[1]>> \in Seq(Seq(S))
  BY <1>1
<1>3. FlattenSeq(<<s[1]>> \o Tail(s)) = FlattenSeq(<<s[1]>>) \o FlattenSeq(Tail(s))
  BY <1>1, <1>2, FlattenConcat
<1>4. FlattenSeq(<<s[1]>>) = s[1]
  BY <1>1, FlattenOne
<1> QED
  BY <1>1, <1>3, <1>4

-----------------------------------------------------------------------------
(***************************************************************************)
(* Types                                                                   *)
(***************************************************************************)
IType ==
  /\ TypeOK
  /\ end \in Ends /\ wire \in Seq(Seq(Bytes))

LEMMA UnitTypes ==
  /\ \A e \in Ends : e \in Seq(Bytes)
  /\ \A t \in Text : t \in Seq(Bytes)
  /\ Request \in Seq(Bytes) /\ Break \in Seq(Bytes)
<1>1. \A a, b, c \in Bytes : <<a>> \in Seq(Bytes) /\ <<a, b>> \in Seq(Bytes)
                             /\ <<a, b, c>> \in Seq(Bytes)
  OBVIOUS
<1>2. {CR, LF, IAC, "will", "opt", "brk"} \subseteq Bytes /\ Letters \subseteq Bytes
  BY DEF Bytes, Telnet
<1>3. \A e \in Ends : e = <<CR>> \/ e = <<LF>> \/ e = <<CR, LF>>
  BY EndAssumption
<1>5. \A e \in Ends : e \in Seq(Bytes)
  BY <1>1, <1>2, <1>3
<1>6. \A t \in Text : t \in Seq(Bytes)
  <2>1. Seq(Letters) \subseteq Seq(Bytes)
    BY <1>2, SeqMonotonic
  <2> QED
    BY <2>1, TextAssumption
<1>7. Request \in Seq(Bytes) /\ Break \in Seq(Bytes)
  BY <1>1, <1>2 DEF Request, Break
<1> QED
  BY <1>5, <1>6, <1>7

\* What TakeLine takes: up to the first byte that ends a line, and perhaps its
\* companion
Taken(n) ==
  /\ in[n] \in {CR, LF} /\ \A i \in 1 .. n - 1 : in[i] \notin {CR, LF}
  /\ line'.bytes = SubSeq(in, 1, n - 1)
  /\ \/ in' = SubSeq(in, n + 1, Len(in))
     \/ /\ n < Len(in) /\ in[n + 1] \in {CR, LF} \ {in[n]}
        /\ in' = SubSeq(in, n + 2, Len(in))

LEMMA TakeLineTakes ==
  ASSUME in \in Seq(Bytes), TakeLine
  PROVE  \E n \in 1 .. Len(in) : Taken(n)
<1>1. CR # LF
  BY DEF CR, LF
<1>2. line' # Input!Nothing
  BY DEF TakeLine, Input!Nothing
<1>3. PICK n \in 1 .. Len(in) :
        /\ in[n] \in Input!EOL /\ \A i \in 1 .. n - 1 : in[i] \notin Input!EOL
        /\ line' = Input!Got(SubSeq(in, 1, n - 1))
        /\ in' = SubSeq(in, IF n < Len(in) /\ in[n + 1] = Input!OtherEOL(in[n])
                            THEN n + 2 ELSE n + 1, Len(in))
  BY <1>2 DEF TakeLine, Input!ReadLn
<1>4. line'.bytes = SubSeq(in, 1, n - 1)
  BY <1>3 DEF Input!Got
<1>5. CASE n < Len(in) /\ in[n + 1] = Input!OtherEOL(in[n])
  <2>1. in[n + 1] \in {CR, LF} \ {in[n]}
    BY <1>1, <1>3, <1>5 DEF Input!OtherEOL, Input!EOL
  <2>2. in' = SubSeq(in, n + 2, Len(in))
    BY <1>3, <1>5
  <2> QED
    BY <1>3, <1>4, <1>5, <2>1, <2>2 DEF Taken, Input!EOL
<1>6. CASE ~ (n < Len(in) /\ in[n + 1] = Input!OtherEOL(in[n]))
  <2>1. in' = SubSeq(in, n + 1, Len(in))
    BY <1>3, <1>6
  <2> QED
    BY <1>3, <1>4, <2>1 DEF Taken, Input!EOL
<1> QED
  BY <1>5, <1>6

LEMMA CutTypes ==
  ASSUME NEW S, NEW s \in Seq(S), NEW i \in Nat
  PROVE  SubSeq(s, i + 1, Len(s)) \in Seq(S)
  OBVIOUS

LEMMA TakenTypes ==
  ASSUME in \in Seq(Bytes), TakeLine
  PROVE  in' \in Seq(Bytes) /\ line'.bytes \in Seq(Bytes)
<1>1. PICK n \in 1 .. Len(in) : Taken(n)
  BY TakeLineTakes
<1>2. line'.bytes \in Seq(Bytes)
  BY <1>1 DEF Taken
<1>3. n \in Nat /\ n + 1 \in Nat /\ (n + 1) + 1 = n + 2
  OBVIOUS
<1>4. in' \in Seq(Bytes)
  BY <1>1, <1>3, CutTypes DEF Taken
<1> QED
  BY <1>2, <1>4

\* A sequence in two, and around one of its elements
LEMMA SplitAt ==
  ASSUME NEW S, NEW s \in Seq(S), NEW k \in 0 .. Len(s)
  PROVE  /\ SubSeq(s, 1, k) \in Seq(S) /\ SubSeq(s, k + 1, Len(s)) \in Seq(S)
         /\ s = SubSeq(s, 1, k) \o SubSeq(s, k + 1, Len(s))
<1>1. SubSeq(s, 1, k) \in Seq(S) /\ SubSeq(s, k + 1, Len(s)) \in Seq(S)
  OBVIOUS
<1>2. SubSeq(s, 1, k) \o SubSeq(s, k + 1, Len(s)) = SubSeq(s, 1, Len(s))
  <2>1. 1 \in 1 .. Len(s) + 1 /\ k \in 1 - 1 .. Len(s) /\ Len(s) \in k .. Len(s)
    OBVIOUS
  <2> QED
    BY <2>1, ConcatAdjacentSubSeq
<1> QED
  BY <1>1, <1>2, SubSeqFull

LEMMA SplitAround ==
  ASSUME NEW S, NEW s \in Seq(S), NEW k \in Nat, k < Len(s)
  PROVE  /\ SubSeq(s, k + 2, Len(s)) \in Seq(S) /\ s[k + 1] \in S
         /\ s = SubSeq(s, 1, k) \o (<<s[k + 1]>> \o SubSeq(s, k + 2, Len(s)))
<1>1. k \in 0 .. Len(s) /\ k + 1 \in 1 .. Len(s) /\ Len(s) \in k + 1 .. Len(s)
  OBVIOUS
<1>2. s[k + 1] \in S /\ (k + 1) + 1 = k + 2
  BY <1>1, ElementOfSeq
<1>3. SubSeq(s, k + 1, Len(s)) = <<s[k + 1]>> \o SubSeq(s, (k + 1) + 1, Len(s))
  BY <1>1, SubSeqRecursiveFirst
<1>4. SubSeq(s, (k + 1) + 1, Len(s)) \in Seq(S)
  BY <1>1, CutTypes
<1> QED
  BY <1>1, <1>2, <1>3, <1>4, SplitAt

Regrouped(a, b, c, d, e) == ((a \o b) \o c) \o (d \o e) = a \o (b \o ((c \o d) \o e))

LEMMA Regroup ==
  ASSUME NEW S, NEW a \in Seq(S), NEW b \in Seq(S), NEW c \in Seq(S),
         NEW d \in Seq(S), NEW e \in Seq(S)
  PROVE  Regrouped(a, b, c, d, e)
<1>1. a \o b \in Seq(S) /\ d \o e \in Seq(S) /\ c \o (d \o e) \in Seq(S)
  BY ConcatProperties
<1>2. Associative(a \o b, c, d \o e)
  BY <1>1, SeqAssociative
<1>3. Associative(a, b, c \o (d \o e))
  BY <1>1, SeqAssociative
<1>4. Associative(c, d, e)
  BY SeqAssociative
<1> QED
  BY <1>2, <1>3, <1>4 DEF Associative, Regrouped

\* Read moves bytes from the client to the lines: the first k units w of
\* what is on the wire, and up to the cut of the next.
Moved(i, w, k, cut, i2, w2) ==
  /\ cut > 0 => k < Len(w) /\ cut < Len(w[k + 1])
  /\ i2 = i \o FlattenSeq(SubSeq(w, 1, k))
            \o (IF cut > 0 THEN SubSeq(w[k + 1], 1, cut) ELSE <<>>)
  /\ w2 = IF cut > 0
          THEN <<SubSeq(w[k + 1], cut + 1, Len(w[k + 1]))>> \o SubSeq(w, k + 2, Len(w))
          ELSE SubSeq(w, k + 1, Len(w))

\* All that has been sent and not been taken: what has arrived, and the wire
Ahead(i, w) == i \o FlattenSeq(w)

LEMMA ReadMoves ==
  ASSUME NEW S, NEW i \in Seq(S), NEW w \in Seq(Seq(S)), NEW i2, NEW w2,
         NEW k \in 0 .. Len(w), NEW cut \in 0 .. 2, Moved(i, w, k, cut, i2, w2)
  PROVE  /\ i2 \in Seq(S) /\ w2 \in Seq(Seq(S))
         /\ Ahead(i2, w2) = Ahead(i, w)
<1>1. PICK head : head = SubSeq(w, 1, k)
  OBVIOUS
<1>2. head \in Seq(Seq(S)) /\ FlattenSeq(head) \in Seq(S)
  BY <1>1, SplitAt, FlattenType
<1>3. PICK h : h = FlattenSeq(head)
  OBVIOUS
<1>4. CASE cut = 0
  <2>1. ~ (cut > 0)
    BY <1>4
  <2>2. w2 \in Seq(Seq(S)) /\ w = head \o w2
    BY <1>1, <2>1, SplitAt DEF Moved
  <2>3. PICK t : t = FlattenSeq(w2)
    OBVIOUS
  <2>4. h \in Seq(S) /\ t \in Seq(S)
    BY <1>2, <1>3, <2>2, <2>3, FlattenType
  <2>5. i2 = (i \o h) \o <<>>
    BY <1>1, <1>3, <2>1 DEF Moved
  <2>6. i \o h \in Seq(S) /\ i2 = i \o h
    BY <2>4, <2>5, ConcatProperties, ConcatEmptySeq
  <2>7. FlattenSeq(w) = h \o t
    BY <1>2, <1>3, <2>2, <2>3, FlattenConcat
  <2>8. (i \o h) \o t = i \o (h \o t)
    <3>1. Associative(i, h, t)
      BY <2>4, SeqAssociative
    <3> QED
      BY <3>1 DEF Associative
  <2> QED
    BY <2>2, <2>3, <2>6, <2>7, <2>8 DEF Ahead
<1>5. CASE cut # 0
  <2>1. cut > 0 /\ k < Len(w) /\ k \in Nat
    BY <1>5 DEF Moved
  <2>2. PICK unit, tail : unit = w[k + 1] /\ tail = SubSeq(w, k + 2, Len(w))
    OBVIOUS
  <2>3. unit \in Seq(S) /\ tail \in Seq(Seq(S)) /\ w = head \o (<<unit>> \o tail)
    BY <1>1, <2>1, <2>2, SplitAround
  <2>4. PICK here, there : here = SubSeq(unit, 1, cut) /\ there = SubSeq(unit, cut + 1, Len(unit))
    OBVIOUS
  <2>5. cut \in 0 .. Len(unit)
    <3>1. cut < Len(unit)
      BY <2>1, <2>2 DEF Moved
    <3>2. Len(unit) \in Nat
      BY <2>3
    <3> QED
      BY <3>1, <3>2
  <2>6. here \in Seq(S) /\ there \in Seq(S) /\ unit = here \o there
    BY <2>3, <2>4, <2>5, SplitAt
  <2>7. i2 = (i \o h) \o here
    BY <1>1, <1>3, <2>1, <2>2, <2>4 DEF Moved
  <2>8. w2 = <<there>> \o tail
    BY <2>1, <2>2, <2>4 DEF Moved
  <2>9. \A u \in Seq(S) : <<u>> \in Seq(Seq(S)) /\ <<u>> \o tail \in Seq(Seq(S))
    <3> TAKE u \in Seq(S)
    <3>1. <<u>> \in Seq(Seq(S))
      OBVIOUS
    <3> QED
      BY <2>3, <3>1, ConcatProperties
  <2>10. PICK t : t = FlattenSeq(tail)
    OBVIOUS
  <2>11. h \in Seq(S) /\ t \in Seq(S)
    BY <1>2, <1>3, <2>3, <2>10, FlattenType
  <2>12. \A u \in Seq(S) : FlattenSeq(<<u>> \o tail) = u \o t
    <3> TAKE u \in Seq(S)
    <3>1. FlattenSeq(<<u>> \o tail) = FlattenSeq(<<u>>) \o FlattenSeq(tail)
      BY <2>3, <2>9, FlattenConcat
    <3>2. FlattenSeq(<<u>>) = u
      BY FlattenOne
    <3> QED
      BY <2>10, <3>1, <3>2
  <2>13. FlattenSeq(w) = h \o (unit \o t)
    <3>1. <<unit>> \o tail \in Seq(Seq(S))
      BY <2>3, <2>9
    <3>2. FlattenSeq(w) = FlattenSeq(head) \o FlattenSeq(<<unit>> \o tail)
      BY <1>2, <2>3, <3>1, FlattenConcat
    <3> QED
      BY <1>3, <2>3, <2>12, <3>2
  <2>14. FlattenSeq(w2) = there \o t
    BY <2>6, <2>8, <2>12
  <2>15. ((i \o h) \o here) \o (there \o t) = i \o (h \o ((here \o there) \o t))
    <3>1. Regrouped(i, h, here, there, t)
      BY <2>6, <2>11, Regroup
    <3> QED
      BY <3>1 DEF Regrouped
  <2>16. i2 \in Seq(S)
    BY <2>6, <2>7, <2>11, ConcatProperties
  <2>17. w2 \in Seq(Seq(S))
    BY <2>6, <2>8, <2>9
  <2> QED
    BY <2>6, <2>7, <2>13, <2>14, <2>15, <2>16, <2>17 DEF Ahead
<1> QED
  BY <1>4, <1>5

LEMMA ReadIsMoved ==
  ASSUME Read
  PROVE  \E k \in 0 .. Len(wire), cut \in 0 .. 2 : Moved(in, wire, k, cut, in', wire')
  BY DEF Read, Moved

\* A ring grows for the bytes read into it, and has room for what is left when
\* some are taken out.
LEMMA RoomRead ==
  ASSUME in' \in Seq(Bytes), room \in Nat, Read
  PROVE  room' \in Nat /\ Len(in') <= room'
<1>1. room' \in Grown(Len(in')) /\ Len(in') \in Nat
  BY DEF Read
<1> QED
  BY <1>1 DEF Grown

LEMMA RoomLeft ==
  ASSUME in \in Seq(Bytes), room \in Nat, Len(in) <= room, room' = room,
         NEW n \in Nat, in' = SubSeq(in, n + 1, Len(in))
  PROVE  room' \in Nat /\ Len(in') <= room'
<1>1. Len(in') <= Len(in) /\ Len(in) \in Nat /\ Len(in') \in Nat
  <2>1. Len(in) \in Nat /\ (in' = <<>> \/ Len(in') = Len(in) - n)
    OBVIOUS
  <2> QED
    BY <2>1
<1> QED
  BY <1>1

LEMMA TypeStep ==
  ASSUME IType, [Next]_vars
  PROVE  IType'
<1> USE DEF IType, TypeOK
<1>1. ASSUME NEW unit \in Seq(Bytes), Send(unit)
      PROVE  wire' \in Seq(Seq(Bytes))
  BY <1>1 DEF Send
<1>2. ASSUME NEW text \in Text, Type(text)
      PROVE  IType'
  <2>1. text \o end \in Seq(Bytes)
    BY UnitTypes, ConcatProperties
  <2>2. wire' \in Seq(Seq(Bytes))
    BY <1>1, <1>2, <2>1 DEF Type
  <2>3. typed' \in Seq(Text)
    BY <1>2 DEF Type
  <2> QED
    BY <1>2, <2>2, <2>3 DEF Type, Send
<1>3. CASE SendRequest
  <2>1. wire' \in Seq(Seq(Bytes))
    BY <1>1, <1>3, UnitTypes DEF SendRequest
  <2> QED
    BY <1>3, <2>1 DEF SendRequest, Send
<1>4. CASE HangUp
  BY <1>4 DEF HangUp
<1>5. CASE Receive
  <2>1. mail' \in 0 .. Mail
    BY <1>5, BoundAssumption DEF Receive
  <2> QED
    BY <1>5, <2>1 DEF Receive, client
<1>6. CASE Read
  <2>1. in' \in Seq(Bytes) /\ wire' \in Seq(Seq(Bytes))
    BY <1>6, ReadIsMoved, ReadMoves
  <2>2. room' \in Nat /\ Len(in') <= room'
    BY <1>6, <2>1, RoomRead
  <2>3. UNCHANGED <<end, typed, closed, sent, line, st, up, mail, handled, torn>>
        /\ pc' = "poll"
    BY <1>6 DEF Read
  <2> QED
    BY <2>1, <2>2, <2>3
<1>7. CASE ReadEnd \/ NoInput \/ IdlePoll
  BY <1>7 DEF ReadEnd, NoInput, IdlePoll, client
<1>8. CASE HandleTelnet
  <2>1. ReqLen \in Nat
    BY DEF ReqLen
  <2>2. in' \in Seq(Bytes)
    BY <1>8, <2>1, CutTypes DEF HandleTelnet
  <2>3. up' \in BOOLEAN /\ torn' \in BOOLEAN
    BY <1>8 DEF HandleTelnet
  <2>4. room' \in Nat /\ Len(in') <= room'
    BY <1>8, <2>1, RoomLeft DEF HandleTelnet
  <2>5. UNCHANGED <<client, line, st, pc, mail, handled>>
    BY <1>8 DEF HandleTelnet
  <2> QED
    BY <2>2, <2>3, <2>4, <2>5 DEF client
<1>9. CASE Received
  BY <1>9 DEF Received, client
<1>10. CASE Command \/ Answer \/ Build
  <2>1. TakeLine /\ handled' = Append(handled, line'.bytes)
    BY <1>10 DEF Command, Answer, Build
  <2>2. in' \in Seq(Bytes) /\ handled' \in Seq(Seq(Bytes))
    BY <2>1, TakenTypes
  <2>3. st' \in Outcomes \cup {"IDLE", "RECV", "LOGIN"} /\ pc' \in {"wait", "poll"}
    BY <1>10 DEF Command, Answer, Build
  <2>4. UNCHANGED <<client, room, up, mail, torn>>
    BY <1>10 DEF Command, Answer, Build
  <2>5. room' \in Nat /\ Len(in') <= room'
    <3>1. PICK n \in 1 .. Len(in) : Taken(n)
      BY <2>1, TakeLineTakes
    <3>2. n \in Nat /\ n + 1 \in Nat /\ (n + 1) + 1 = n + 2
      OBVIOUS
    <3> QED
      BY <2>4, <3>1, <3>2, RoomLeft DEF Taken
  <2> QED
    BY <2>2, <2>3, <2>4, <2>5 DEF client
<1>11. CASE UNCHANGED vars
  BY <1>11 DEF vars
<1> QED
  BY <1>2, <1>3, <1>4, <1>5, <1>6, <1>7, <1>8, <1>9, <1>10, <1>11
     DEF Next, Client, Server, Poll

LEMMA TypeInv == Spec => []IType
<1>1. Init => IType
  <2> SUFFICES ASSUME Init PROVE IType
    OBVIOUS
  <2>1. in \in Seq(Bytes) /\ handled \in Seq(Seq(Bytes)) /\ typed \in Seq(Text)
    BY EmptySeq DEF Init
  <2>2. end \in Ends /\ wire \in Seq(Seq(Bytes))
    BY EmptySeq DEF Init
  <2>3. mail \in 0 .. Mail
    BY BoundAssumption DEF Init
  <2>4. st = "LOGIN" /\ pc = "wait" /\ up = TRUE /\ torn = FALSE
    BY DEF Init
  <2>5. room \in Nat /\ Len(in) <= room
    BY SizeAssumption DEF Init
  <2> QED
    BY <2>1, <2>2, <2>3, <2>4, <2>5 DEF IType, TypeOK
<1> QED
  BY <1>1, TypeStep, PTL DEF Spec

\* What a user has typed, what has arrived of it and the lines acted on are
\* sequences of bytes and of lines, whatever he, the network and the server do.
THEOREM LinesTypeCorrect == Spec => []TypeOK
<1>1. IType => TypeOK
  BY DEF IType
<1> QED
  BY <1>1, TypeInv, PTL

-----------------------------------------------------------------------------
(***************************************************************************)
(* With one byte to end a line, and no request torn, what is on its way is *)
(* made of whole units: the lines that have not been acted on, in the      *)
(* order typed, and requests between them.                                 *)
(***************************************************************************)
Requests == {Request, Break}
Whole(e) == {text \o e : text \in Text} \cup Requests

\* The lines are where f says among the units, in the same order, and
\* everything else is requests.
Spread(f, lines, us, e) ==
  /\ f \in [1 .. Len(lines) -> 1 .. Len(us)]
  /\ \A i, j \in 1 .. Len(lines) : i < j => f[i] < f[j]
  /\ \A i \in 1 .. Len(lines) : us[f[i]] = lines[i] \o e
  /\ \A j \in 1 .. Len(us) : us[j] \in Requests \/ \E i \in 1 .. Len(lines) : f[i] = j

Parsed(f, lines, us, e) ==
  /\ us \in Seq(Whole(e)) /\ lines \in Seq(Text)
  /\ Spread(f, lines, us, e)

IParsed ==
  Len(end) = 1 /\ ~torn =>
    \E us, lines, f :
      /\ Parsed(f, lines, us, end)
      /\ typed = handled \o lines
      /\ in \o FlattenSeq(wire) = FlattenSeq(us)

LEMMA ConcatAt ==
  ASSUME NEW S, NEW s \in Seq(S), NEW t \in Seq(S)
  PROVE  /\ \A i \in 1 .. Len(s) : (s \o t)[i] = s[i]
         /\ \A i \in 1 .. Len(t) : (s \o t)[Len(s) + i] = t[i]
  OBVIOUS

LEMMA LineShape ==
  ASSUME NEW e \in {<<CR>>, <<LF>>}, NEW text \in Text
  PROVE  /\ text \o e \in Seq(Bytes) /\ Len(text \o e) = Len(text) + 1
         /\ Len(text) \in Nat
         /\ (text \o e)[Len(text) + 1] = e[1]
         /\ \A i \in 1 .. Len(text) : (text \o e)[i] = text[i] /\ text[i] \in Letters
<1>1. text \in Seq(Letters)
  BY TextAssumption
<1>2. \A i \in 1 .. Len(text) : text[i] \in Letters
  BY <1>1
<1>3. PICK c \in {CR, LF} : e = <<c>>
  OBVIOUS
<1>4. c \in Bytes
  BY DEF Bytes
<1>5. text \in Seq(Bytes) /\ e \in Seq(Bytes) /\ Len(e) = 1 /\ e[1] = c
  BY <1>3, <1>4, UnitTypes
<1>6. PICK u : u = text \o e
  OBVIOUS
<1>7. /\ u \in Seq(Bytes) /\ Len(u) = Len(text) + 1 /\ Len(text) \in Nat
      /\ u[Len(text) + 1] = e[1] /\ \A i \in 1 .. Len(text) : u[i] = text[i]
  <2>1. u \in Seq(Bytes) /\ Len(u) = Len(text) + 1 /\ Len(text) \in Nat
    <3>1. text \in Seq(Bytes) /\ e \in Seq(Bytes) /\ Len(e) = 1
      BY <1>5
    <3>2. text \o e \in Seq(Bytes) /\ Len(text \o e) = Len(text) + Len(e)
      BY <3>1, ConcatProperties
    <3> QED
      BY <1>6, <3>1, <3>2
  <2>2. \A i \in 1 .. Len(text) : u[i] = text[i]
    BY <1>5, <1>6, ConcatAt
  <2>3. u = Append(text, c)
    BY <1>3, <1>4, <1>5, <1>6, AppendIsConcat
  <2>4. u[Len(text) + 1] = e[1]
    BY <1>4, <1>5, <2>3, AppendProperties
  <2> QED
    BY <2>1, <2>2, <2>4
<1> QED
  BY <1>2, <1>6, <1>7

LEMMA RequestShape ==
  /\ Len(Request) = 3 /\ Request[1] = IAC /\ Request[2] = "will" /\ Request[3] = "opt"
  /\ Len(Break) = 2 /\ Break[1] = IAC /\ Break[2] = "brk"
  /\ IAC \notin Letters \cup {CR, LF} /\ Letters \cap {CR, LF} = {} /\ CR # LF
<1>1. IAC \notin {CR, LF} /\ CR # LF
  BY DEF IAC, CR, LF
<1>2. IAC \in Telnet
  BY DEF Telnet
<1> QED
  BY <1>1, <1>2, LetterAssumption DEF Request, Break

LEMMA LineStart ==
  ASSUME NEW e \in {<<CR>>, <<LF>>}, NEW text \in Text
  PROVE  (text \o e)[1] \in Letters \cup {e[1]} /\ (text \o e)[1] # IAC
<1>1. e[1] \in {CR, LF}
  OBVIOUS
<1>2. CASE Len(text) = 0
  BY <1>1, <1>2, LineShape, RequestShape
<1>3. CASE Len(text) # 0
  <2>1. 1 \in 1 .. Len(text)
    BY <1>3, LineShape
  <2> QED
    BY <2>1, LineShape, RequestShape
<1> QED
  BY <1>2, <1>3

LEMMA WholeShape ==
  ASSUME NEW e \in {<<CR>>, <<LF>>}, NEW u \in Whole(e)
  PROVE  /\ u \in Seq(Bytes) /\ Len(u) \in Nat \ {0}
         /\ u[1] = IAC <=> u \in Requests
         /\ u[1] \in {IAC, e[1]} \cup Letters
         /\ u \notin Requests => \E text \in Text : u = text \o e
<1>2. CASE u \in Requests
  BY <1>2, UnitTypes, RequestShape DEF Requests
<1>3. ASSUME NEW text \in Text, u = text \o e
      PROVE  /\ u \in Seq(Bytes) /\ Len(u) \in Nat \ {0}
             /\ u[1] # IAC /\ u[1] \in Letters \cup {e[1]}
  <2>1. u \in Seq(Bytes) /\ Len(u) = Len(text) + 1 /\ Len(text) \in Nat
    BY <1>3, LineShape
  <2>2. u[1] # IAC /\ u[1] \in Letters \cup {e[1]}
    BY <1>3, LineStart
  <2> QED
    BY <2>1, <2>2
<1>4. u \notin Requests => \E text \in Text : u = text \o e
  BY DEF Whole
<1>5. CASE u \notin Requests
  <2>1. PICK text \in Text : u = text \o e
    BY <1>4, <1>5
  <2> QED
    BY <1>3, <1>4, <1>5, <2>1
<1> QED
  BY <1>2, <1>5

\* What can happen to the units: one more, or the first is taken.
LEMMA WholeTypes ==
  ASSUME NEW e \in {<<CR>>, <<LF>>}, NEW us \in Seq(Whole(e))
  PROVE  us \in Seq(Seq(Bytes))
<1>1. Whole(e) \subseteq Seq(Bytes)
  BY WholeShape
<1> QED
  BY <1>1, SeqMonotonic

LEMMA SpreadLine ==
  ASSUME NEW e \in {<<CR>>, <<LF>>}, NEW f, NEW lines, NEW us, Parsed(f, lines, us, e),
         NEW text \in Text
  PROVE  \E g : Parsed(g, Append(lines, text), Append(us, text \o e), e)
<1> DEFINE m == Len(lines)
           n == Len(us)
           g == [i \in 1 .. m + 1 |-> IF i = m + 1 THEN n + 1 ELSE f[i]]
           lines2 == Append(lines, text)
           us2 == Append(us, text \o e)
<1>1. us \in Seq(Whole(e)) /\ lines \in Seq(Text) /\ Spread(f, lines, us, e)
  BY DEF Parsed
<1>2. m \in Nat /\ n \in Nat /\ f \in [1 .. m -> 1 .. n]
  BY <1>1 DEF Spread
<1>3. text \o e \in Whole(e)
  BY DEF Whole
<1>4. /\ us2 \in Seq(Whole(e)) /\ Len(us2) = n + 1 /\ us2[n + 1] = text \o e
      /\ \A j \in 1 .. n : us2[j] = us[j]
  BY <1>1, <1>3, AppendProperties
<1>5. /\ lines2 \in Seq(Text) /\ Len(lines2) = m + 1 /\ lines2[m + 1] = text
      /\ \A i \in 1 .. m : lines2[i] = lines[i]
  BY <1>1, AppendProperties
<1>6. \A i \in 1 .. m + 1 : i # m + 1 => i \in 1 .. m
  BY <1>2
<1> HIDE DEF lines2, us2, m, n
<1>7. g \in [1 .. m + 1 -> 1 .. n + 1]
  BY <1>2, <1>6
<1>8. \A i, j \in 1 .. m + 1 : i < j => g[i] < g[j]
  <2> SUFFICES ASSUME NEW i \in 1 .. m + 1, NEW j \in 1 .. m + 1, i < j
               PROVE  g[i] < g[j]
    OBVIOUS
  <2>1. i \in 1 .. m /\ g[i] = f[i] /\ f[i] \in 1 .. n
    BY <1>2
  <2>2. CASE j = m + 1
    BY <1>2, <2>1, <2>2
  <2>3. CASE j # m + 1
    <3>1. j \in 1 .. m /\ g[j] = f[j]
      BY <1>6, <2>3
    <3>2. f[i] < f[j]
      BY <1>1, <2>1, <3>1 DEF Spread, m
    <3> QED
      BY <2>1, <3>1, <3>2
  <2> QED
    BY <2>2, <2>3
<1>9. \A i \in 1 .. m + 1 : us2[g[i]] = lines2[i] \o e
  <2> TAKE i \in 1 .. m + 1
  <2>1. CASE i = m + 1
    BY <1>4, <1>5, <2>1
  <2>2. CASE i # m + 1
    <3>1. i \in 1 .. m /\ g[i] = f[i] /\ f[i] \in 1 .. n
      BY <1>2, <1>6, <2>2
    <3>2. us[f[i]] = lines[i] \o e
      BY <1>1, <3>1 DEF Spread, m
    <3> QED
      BY <1>4, <1>5, <3>1, <3>2
  <2> QED
    BY <2>1, <2>2
<1>10. \A j \in 1 .. n + 1 : us2[j] \in Requests \/ \E i \in 1 .. m + 1 : g[i] = j
  <2> TAKE j \in 1 .. n + 1
  <2>1. CASE j = n + 1
    <3>1. m + 1 \in 1 .. m + 1 /\ g[m + 1] = n + 1
      BY <1>2
    <3> QED
      BY <2>1, <3>1
  <2>2. CASE j # n + 1
    <3>1. j \in 1 .. n /\ us2[j] = us[j]
      BY <1>2, <1>4, <2>2
    <3>2. us[j] \in Requests \/ \E i \in 1 .. m : f[i] = j
      BY <1>1, <3>1 DEF Spread, m, n
    <3>3. \A i \in 1 .. m : i \in 1 .. m + 1 /\ g[i] = f[i]
      BY <1>2
    <3> QED
      BY <3>1, <3>2, <3>3
  <2> QED
    BY <2>1, <2>2
<1>11. Spread(g, lines2, us2, e)
  BY <1>4, <1>5, <1>7, <1>8, <1>9, <1>10 DEF Spread
<1> QED
  BY <1>4, <1>5, <1>11 DEF Parsed, lines2, us2

LEMMA SpreadRequest ==
  ASSUME NEW e \in {<<CR>>, <<LF>>}, NEW f, NEW lines, NEW us, Parsed(f, lines, us, e),
         NEW r \in Requests
  PROVE  Parsed(f, lines, Append(us, r), e)
<1> DEFINE n == Len(us)
           us2 == Append(us, r)
<1>1. us \in Seq(Whole(e)) /\ lines \in Seq(Text) /\ Spread(f, lines, us, e)
  BY DEF Parsed
<1>2. r \in Whole(e)
  BY DEF Whole
<1>3. /\ us2 \in Seq(Whole(e)) /\ Len(us2) = n + 1 /\ us2[n + 1] = r
      /\ \A j \in 1 .. n : us2[j] = us[j]
      /\ n \in Nat /\ Len(lines) \in Nat
  BY <1>1, <1>2, AppendProperties
<1> HIDE DEF us2
<1>4. Spread(f, lines, us2, e)
  <2>1. f \in [1 .. Len(lines) -> 1 .. n + 1]
    BY <1>1, <1>3 DEF Spread
  <2>2. \A i \in 1 .. Len(lines) : us2[f[i]] = lines[i] \o e
    BY <1>1, <1>3 DEF Spread
  <2>3. \A j \in 1 .. n + 1 : us2[j] \in Requests \/ \E i \in 1 .. Len(lines) : f[i] = j
    <3> TAKE j \in 1 .. n + 1
    <3>1. j = n + 1 \/ j \in 1 .. n
      BY <1>3
    <3> QED
      BY <1>1, <1>3, <3>1 DEF Spread
  <2> QED
    BY <1>1, <1>3, <2>1, <2>2, <2>3 DEF Spread
<1> QED
  BY <1>1, <1>3, <1>4 DEF Parsed, us2

\* The first request of all is taken: the lines are one unit nearer.
LEMMA DropRequest ==
  ASSUME NEW e \in {<<CR>>, <<LF>>}, NEW f, NEW lines, NEW us, Parsed(f, lines, us, e),
         us # <<>>, us[1] \in Requests
  PROVE  \E g : Parsed(g, lines, Tail(us), e)
<1> DEFINE m == Len(lines)
           n == Len(us)
           us2 == Tail(us)
           g == [i \in 1 .. m |-> f[i] - 1]
<1>1. us \in Seq(Whole(e)) /\ lines \in Seq(Text) /\ Spread(f, lines, us, e)
  BY DEF Parsed
<1>2. /\ us2 \in Seq(Whole(e)) /\ Len(us2) = n - 1 /\ n \in Nat \ {0} /\ m \in Nat
      /\ \A j \in 1 .. n - 1 : us2[j] = us[j + 1]
  BY <1>1, HeadTailProperties
<1>3. f \in [1 .. m -> 1 .. n]
  BY <1>1 DEF Spread
<1>4. \A i \in 1 .. m : f[i] # 1
  <2> SUFFICES ASSUME NEW i \in 1 .. m, f[i] = 1 PROVE FALSE
    OBVIOUS
  <2>1. us[1] = lines[i] \o e /\ lines[i] \in Text
    <3>1. \A j \in 1 .. m : us[f[j]] = lines[j] \o e
      BY <1>1 DEF Spread
    <3>2. lines[i] \in Text
      BY <1>1, ElementOfSeq
    <3> QED
      BY <3>1, <3>2
  <2>2. us[1] \in Whole(e)
    BY DEF Whole
  <2>3. us[1][1] = IAC
    BY <2>2, WholeShape
  <2> QED
    BY <2>1, <2>3, LineStart
<1> HIDE DEF us2, m, n
<1>5. \A i \in 1 .. m : f[i] \in 1 .. n /\ g[i] = f[i] - 1 /\ g[i] \in 1 .. n - 1 /\ g[i] + 1 = f[i]
  BY <1>2, <1>3, <1>4
<1>6. g \in [1 .. m -> 1 .. n - 1]
  BY <1>5
<1>7. \A i, j \in 1 .. m : i < j => g[i] < g[j]
  <2> SUFFICES ASSUME NEW i \in 1 .. m, NEW j \in 1 .. m, i < j
               PROVE  g[i] < g[j]
    OBVIOUS
  <2>1. f[i] < f[j]
    BY <1>1 DEF Spread, m
  <2> HIDE DEF g
  <2> QED
    BY <1>5, <2>1
<1>8. \A i \in 1 .. m : us2[g[i]] = lines[i] \o e
  <2> TAKE i \in 1 .. m
  <2>1. us[f[i]] = lines[i] \o e
    BY <1>1 DEF Spread, m
  <2> HIDE DEF g
  <2> QED
    BY <1>2, <1>5, <2>1
<1>9. \A j \in 1 .. n - 1 : us2[j] \in Requests \/ \E i \in 1 .. m : g[i] = j
  <2> TAKE j \in 1 .. n - 1
  <2>1. j + 1 \in 1 .. n /\ (j + 1) - 1 = j
    BY <1>2
  <2>2. us[j + 1] \in Requests \/ \E i \in 1 .. m : f[i] = j + 1
    BY <1>1, <2>1 DEF Spread, m, n
  <2> HIDE DEF g
  <2>3. \A i \in 1 .. m : f[i] = j + 1 => g[i] = j
    BY <1>5, <2>1
  <2> QED
    BY <1>2, <2>2, <2>3
<1>10. Spread(g, lines, us2, e)
  <2> HIDE DEF g
  <2> QED
    BY <1>2, <1>6, <1>7, <1>8, <1>9 DEF Spread, m
<1> QED
  BY <1>1, <1>2, <1>10 DEF Parsed, us2

\* The first unit of all is a line: it is the first of the lines to come.
Leads(lines, us, e) == lines # <<>> /\ us[1] = lines[1] \o e

LEMMA DropLine ==
  ASSUME NEW e \in {<<CR>>, <<LF>>}, NEW f, NEW lines, NEW us, Parsed(f, lines, us, e),
         us # <<>>, us[1] \notin Requests
  PROVE  /\ Leads(lines, us, e)
         /\ \E g : Parsed(g, Tail(lines), Tail(us), e)
<1> DEFINE m == Len(lines)
           n == Len(us)
           us2 == Tail(us)
           lines2 == Tail(lines)
           g == [i \in 1 .. m - 1 |-> f[i + 1] - 1]
<1>1. us \in Seq(Whole(e)) /\ lines \in Seq(Text) /\ Spread(f, lines, us, e)
  BY DEF Parsed
<1>2. /\ us2 \in Seq(Whole(e)) /\ Len(us2) = n - 1 /\ n \in Nat \ {0} /\ m \in Nat
      /\ \A j \in 1 .. n - 1 : us2[j] = us[j + 1]
  BY <1>1, HeadTailProperties
<1>3. f \in [1 .. m -> 1 .. n] /\ 1 \in 1 .. n
  BY <1>1, <1>2 DEF Spread
<1>4. PICK p \in 1 .. m : f[p] = 1
  BY <1>1, <1>3 DEF Spread
<1>5. p = 1
  <2> SUFFICES ASSUME p # 1 PROVE FALSE
    OBVIOUS
  <2>1. 1 \in 1 .. m /\ 1 < p
    BY <1>2, <1>4
  <2>2. f[1] < f[p] /\ f[1] \in 1 .. n
    BY <1>1, <1>3, <2>1 DEF Spread
  <2> QED
    BY <1>2, <1>4, <2>2
<1>6. 1 \in 1 .. m /\ f[1] = 1 /\ us[1] = lines[1] \o e
  BY <1>1, <1>4, <1>5 DEF Spread
<1>7. lines # <<>>
  BY <1>6
<1>8. /\ lines2 \in Seq(Text) /\ Len(lines2) = m - 1
      /\ \A i \in 1 .. m - 1 : lines2[i] = lines[i + 1]
  BY <1>1, <1>7, HeadTailProperties
<1> HIDE DEF us2, lines2, m, n
<1>9. \A i \in 1 .. m - 1 :
        i + 1 \in 1 .. m /\ f[i + 1] \in 2 .. n /\ g[i] = f[i + 1] - 1
        /\ g[i] \in 1 .. n - 1 /\ g[i] + 1 = f[i + 1]
  <2> TAKE i \in 1 .. m - 1
  <2>1. i + 1 \in 1 .. m /\ 1 < i + 1
    BY <1>2
  <2>2. f[1] < f[i + 1] /\ f[i + 1] \in 1 .. n
    BY <1>1, <1>3, <1>6, <2>1 DEF Spread, m
  <2>3. f[i + 1] \in 2 .. n
    BY <1>2, <1>6, <2>2
  <2> QED
    BY <1>2, <2>1, <2>3
<1>10. g \in [1 .. m - 1 -> 1 .. n - 1]
  BY <1>9
<1> HIDE DEF g
<1>11. \A i, j \in 1 .. m - 1 : i < j => g[i] < g[j]
  <2> SUFFICES ASSUME NEW i \in 1 .. m - 1, NEW j \in 1 .. m - 1, i < j
               PROVE  g[i] < g[j]
    OBVIOUS
  <2>1. i + 1 < j + 1 /\ i + 1 \in 1 .. m /\ j + 1 \in 1 .. m
    BY <1>2
  <2>2. f[i + 1] < f[j + 1]
    BY <1>1, <2>1 DEF Spread, m
  <2> QED
    BY <1>2, <1>9, <2>2
<1>12. \A i \in 1 .. m - 1 : us2[g[i]] = lines2[i] \o e
  <2> TAKE i \in 1 .. m - 1
  <2>1. us[f[i + 1]] = lines[i + 1] \o e
    BY <1>1, <1>9 DEF Spread, m
  <2> QED
    BY <1>2, <1>8, <1>9, <2>1
<1>13. \A j \in 1 .. n - 1 : us2[j] \in Requests \/ \E i \in 1 .. m - 1 : g[i] = j
  <2> TAKE j \in 1 .. n - 1
  <2>1. j + 1 \in 1 .. n /\ j + 1 # 1 /\ us2[j] = us[j + 1]
    BY <1>2
  <2>2. us[j + 1] \in Requests \/ \E i \in 1 .. m : f[i] = j + 1
    BY <1>1, <2>1 DEF Spread, m, n
  <2>3. ASSUME NEW i \in 1 .. m, f[i] = j + 1
        PROVE  \E k \in 1 .. m - 1 : g[k] = j
    <3>1. i # 1
      BY <1>6, <2>1, <2>3
    <3>2. i - 1 \in 1 .. m - 1 /\ (i - 1) + 1 = i
      BY <1>2, <3>1
    <3>3. g[i - 1] + 1 = j + 1 /\ g[i - 1] \in 1 .. n - 1
      BY <1>9, <2>3, <3>2
    <3>4. g[i - 1] = j
      BY <1>2, <3>3
    <3> QED
      BY <3>2, <3>4
  <2> QED
    BY <2>1, <2>2, <2>3
<1>14. Spread(g, lines2, us2, e)
  BY <1>2, <1>8, <1>10, <1>11, <1>12, <1>13 DEF Spread
<1> QED
  BY <1>2, <1>6, <1>7, <1>8, <1>14 DEF Parsed, Leads, us2, lines2

\* What is at the front of a, when a \o c begins with u
LEMMA CutFront ==
  ASSUME NEW S, NEW a \in Seq(S), NEW c \in Seq(S), NEW u \in Seq(S), NEW v \in Seq(S),
         a \o c = u \o v
  PROVE  /\ \A i \in 1 .. Len(u) : i \in 1 .. Len(a) => a[i] = u[i]
         /\ Len(u) <= Len(a) => SubSeq(a, Len(u) + 1, Len(a)) \o c = v
<1>1. ASSUME NEW i \in 1 .. Len(u), i \in 1 .. Len(a)
      PROVE  a[i] = u[i]
  <2>1. (a \o c)[i] = a[i] /\ (u \o v)[i] = u[i]
    BY <1>1, ConcatAt
  <2> QED
    BY <2>1
<1>2. ASSUME Len(u) <= Len(a)
      PROVE  SubSeq(a, Len(u) + 1, Len(a)) \o c = v
  <2>1. PICK k \in 0 .. Len(a) : k = Len(u)
    BY <1>2
  <2>2. PICK h, t : h = SubSeq(a, 1, k) /\ t = SubSeq(a, k + 1, Len(a))
    OBVIOUS
  <2>3. h \in Seq(S) /\ t \in Seq(S) /\ a = h \o t
    BY <2>2, SplitAt
  <2>4. Len(h) = k /\ \A i \in 1 .. k : h[i] = a[i]
    BY <2>2
  <2>5. h = u
    BY <1>1, <2>1, <2>3, <2>4, SeqEqual
  <2>6. u \o (t \o c) = u \o v
    <3>1. Associative(u, t, c)
      BY <2>3, SeqAssociative
    <3> QED
      BY <2>3, <2>5, <3>1 DEF Associative
  <2>7. t \o c \in Seq(S)
    BY <2>3, ConcatProperties
  <2>8. PICK w \in Seq(S) : w = t \o c
    BY <2>7
  <2>9. w = v
    <3>1. Len(u \o w) = Len(u) + Len(w) /\ Len(u \o v) = Len(u) + Len(v)
      BY ConcatProperties
    <3>2. Len(w) = Len(v)
      BY <2>6, <2>8, <3>1
    <3>3. ASSUME NEW i \in 1 .. Len(w)
          PROVE  w[i] = v[i]
      <4>1. (u \o w)[Len(u) + i] = w[i] /\ (u \o v)[Len(u) + i] = v[i]
        BY <3>2, ConcatAt
      <4> QED
        BY <2>6, <2>8, <4>1
    <3> QED
      BY <3>2, <3>3, SeqEqual
  <2> QED
    BY <2>1, <2>2, <2>8, <2>9
<1> QED
  BY <1>1, <1>2

-----------------------------------------------------------------------------
(***************************************************************************)
(* The steps.  Without a torn request a unit is taken whole.               *)
(***************************************************************************)

\* The first unit is at the front of the input, as far as that has come.
AtFront(u, a, c, v) ==
  /\ Len(u) \in Nat \ {0} /\ a[1] = u[1]
  /\ \A i \in 1 .. Len(u) : i \in 1 .. Len(a) => a[i] = u[i]
  /\ Len(u) <= Len(a) => SubSeq(a, Len(u) + 1, Len(a)) \o c = v

LEMMA FrontUnit ==
  ASSUME NEW e \in {<<CR>>, <<LF>>}, NEW us \in Seq(Whole(e)),
         NEW a \in Seq(Bytes), NEW c \in Seq(Bytes), a \o c = FlattenSeq(us), a # <<>>
  PROVE  /\ us # <<>> /\ us[1] \in Whole(e)
         /\ AtFront(us[1], a, c, FlattenSeq(Tail(us)))
<1>1. us \in Seq(Seq(Bytes))
  BY WholeTypes
<1>2. us # <<>>
  <2> SUFFICES ASSUME us = <<>> PROVE FALSE
    OBVIOUS
  <2>1. a \o c = <<>>
    BY FlattenEmpty
  <2>2. Len(a \o c) = Len(a) + Len(c) /\ Len(a) # 0
    BY ConcatProperties
  <2> QED
    BY <2>1, <2>2
<1>3. PICK u, v : u = us[1] /\ v = FlattenSeq(Tail(us))
  OBVIOUS
<1>4. u \in Whole(e)
  BY <1>2, <1>3
<1>5. u \in Seq(Bytes) /\ Len(u) \in Nat \ {0}
  BY <1>4, WholeShape
<1>6. v \in Seq(Bytes)
  <2>1. Tail(us) \in Seq(Seq(Bytes))
    BY <1>1, <1>2
  <2> QED
    BY <1>3, <2>1, FlattenType
<1>7. a \o c = u \o v
  BY <1>1, <1>2, <1>3, FlattenFirst
<1>8. /\ \A i \in 1 .. Len(u) : i \in 1 .. Len(a) => a[i] = u[i]
      /\ Len(u) <= Len(a) => SubSeq(a, Len(u) + 1, Len(a)) \o c = v
  BY <1>5, <1>6, <1>7, CutFront
<1>9. 1 \in 1 .. Len(u) /\ 1 \in 1 .. Len(a)
  BY <1>5
<1>10. AtFront(u, a, c, v)
  BY <1>5, <1>8, <1>9 DEF AtFront
<1> QED
  BY <1>2, <1>3, <1>4, <1>10

\* a, and c behind it, are the units us joined.
Makes(a, c, us) == a \o c = FlattenSeq(us)

\* A request is taken with its option, or the tear is remembered.
LEMMA RequestTaken ==
  ASSUME NEW e \in {<<CR>>, <<LF>>}, NEW us \in Seq(Whole(e)), NEW c \in Seq(Bytes),
         in \in Seq(Bytes), Makes(in, c, us), HandleTelnet, ~torn'
  PROVE  us # <<>> /\ us[1] \in Requests /\ Makes(in', c, Tail(us))
<1>1. /\ Len(in) >= 2 /\ in[1] = IAC /\ Len(in) \in Nat
      /\ in' = SubSeq(in, ReqLen + 1, Len(in)) /\ in # <<IAC, "will">>
  <2>1. HasReq /\ in' = SubSeq(in, ReqLen + 1, Len(in))
    BY DEF HandleTelnet
  <2>2. torn' = (torn \/ in = <<IAC, "will">>)
    BY DEF HandleTelnet
  <2>3. in # <<IAC, "will">>
    BY <2>2
  <2>4. Len(in) \in Nat
    OBVIOUS
  <2> QED
    BY <2>1, <2>3, <2>4 DEF HasReq
<1>2. in # <<>>
  BY <1>1
<1>3. PICK u : u = us[1]
  OBVIOUS
<1>4. /\ us # <<>> /\ u \in Whole(e) /\ Len(u) \in Nat /\ u[1] = IAC
      /\ \A i \in 1 .. Len(u) : i \in 1 .. Len(in) => in[i] = u[i]
      /\ Len(u) <= Len(in) => SubSeq(in, Len(u) + 1, Len(in)) \o c = FlattenSeq(Tail(us))
  <2>1. us # <<>> /\ u \in Whole(e) /\ AtFront(u, in, c, FlattenSeq(Tail(us)))
    BY <1>2, <1>3, FrontUnit DEF Makes
  <2> QED
    BY <1>1, <2>1 DEF AtFront
<1>5. u \in Requests
  BY <1>4, WholeShape
<1>6. Len(u) = ReqLen /\ Len(u) <= Len(in)
  <2>1. CASE u = Request
    <3>1. Len(u) = 3 /\ u[2] = "will"
      BY <2>1, RequestShape
    <3>2. in[2] = "will"
      BY <1>1, <1>4, <3>1
    <3>3. Len(in) # 2
      <4> SUFFICES ASSUME Len(in) = 2 PROVE FALSE
        OBVIOUS
      <4>1. in = <<in[1], in[2]>>
        OBVIOUS
      <4> QED
        BY <1>1, <3>2, <4>1
    <3>4. Len(in) >= 3
      <4>1. PICK n \in Nat : n = Len(in)
        BY <1>1
      <4>2. n >= 2 /\ n # 2
        BY <1>1, <3>3, <4>1
      <4>3. n >= 3
        BY <4>2
      <4> QED
        BY <4>1, <4>3
    <3>5. ReqLen = 3
      BY <3>2, <3>4 DEF ReqLen
    <3> QED
      BY <3>1, <3>4, <3>5
  <2>2. CASE u = Break
    <3>1. Len(u) = 2 /\ u[2] = "brk"
      BY <2>2, RequestShape
    <3>2. in[2] = "brk"
      BY <1>1, <1>4, <3>1
    <3> QED
      BY <1>1, <3>1, <3>2 DEF ReqLen
  <2> QED
    BY <1>5, <2>1, <2>2 DEF Requests
<1> QED
  BY <1>1, <1>3, <1>4, <1>5, <1>6 DEF Makes

\* Where a line is found, no request is in front of it.
LEMMA LineFirst ==
  ASSUME NEW e \in {<<CR>>, <<LF>>}, NEW us \in Seq(Whole(e)), NEW c \in Seq(Bytes),
         in \in Seq(Bytes), Makes(in, c, us), ~HasReq, TakeLine
  PROVE  us # <<>> /\ us[1] \notin Requests
<1>1. PICK n \in 1 .. Len(in) : Taken(n)
  BY TakeLineTakes
<1>2. in # <<>> /\ Len(in) \in Nat /\ n \in Nat
  BY <1>1
<1>3. us # <<>> /\ us[1] \in Whole(e) /\ in[1] = us[1][1]
  BY <1>2, FrontUnit DEF AtFront, Makes
<1>4. ASSUME us[1] \in Requests PROVE FALSE
  <2>1. in[1] = IAC
    BY <1>3, <1>4, WholeShape
  <2>2. n = 1
    BY <1>1, <1>2, <2>1 DEF HasReq
  <2> QED
    BY <1>1, <2>1, <2>2, RequestShape DEF Taken
<1> QED
  BY <1>3, <1>4

\* A line is taken up to its own end and no further.
LEMMA LineTaken ==
  ASSUME NEW e \in {<<CR>>, <<LF>>}, NEW us \in Seq(Whole(e)), NEW c \in Seq(Bytes),
         in \in Seq(Bytes), Makes(in, c, us), TakeLine,
         NEW text \in Text, us[1] = text \o e
  PROVE  line'.bytes = text /\ Makes(in', c, Tail(us))
<1>1. PICK n \in 1 .. Len(in) : Taken(n)
  BY TakeLineTakes
<1>2. in # <<>> /\ Len(in) \in Nat /\ n \in Nat
  BY <1>1
<1>3. PICK u, v : u = us[1] /\ v = FlattenSeq(Tail(us))
  OBVIOUS
<1>4. /\ us # <<>> /\ Len(u) \in Nat
      /\ \A i \in 1 .. Len(u) : i \in 1 .. Len(in) => in[i] = u[i]
      /\ Len(u) <= Len(in) => SubSeq(in, Len(u) + 1, Len(in)) \o c = v
  <2>1. us # <<>> /\ AtFront(u, in, c, v)
    BY <1>2, <1>3, FrontUnit DEF Makes
  <2> QED
    BY <2>1 DEF AtFront
<1>5. u = text \o e
  BY <1>3
<1>6. PICK m \in Nat : m = Len(text)
  BY <1>5, LineShape
<1>7. /\ Len(u) = m + 1 /\ u[m + 1] = e[1] /\ e[1] \in {CR, LF}
      /\ \A i \in 1 .. m : u[i] = text[i] /\ text[i] \in Letters
  BY <1>5, <1>6, LineShape
<1>8. n = m + 1
  <2>1. ASSUME n < m + 1 PROVE FALSE
    <3>1. n \in 1 .. m /\ n \in 1 .. Len(u)
      BY <1>1, <1>6, <1>7, <2>1
    <3>2. in[n] \in Letters
      BY <1>1, <1>4, <1>7, <3>1
    <3> QED
      BY <1>1, <3>2, RequestShape DEF Taken
  <2>2. ASSUME m + 1 < n PROVE FALSE
    <3>1. m + 1 \in 1 .. n - 1 /\ m + 1 \in 1 .. Len(in) /\ m + 1 \in 1 .. Len(u)
      BY <1>1, <1>2, <1>6, <1>7, <2>2
    <3>2. in[m + 1] \in {CR, LF}
      BY <1>4, <1>7, <3>1
    <3> QED
      BY <1>1, <3>1, <3>2 DEF Taken
  <2> QED
    BY <1>2, <1>6, <2>1, <2>2
<1>9. line'.bytes = text
  <2>1. line'.bytes = SubSeq(in, 1, m)
    BY <1>1, <1>6, <1>8 DEF Taken
  <2>2. \A i \in 1 .. m : i \in 1 .. Len(in) /\ i \in 1 .. Len(u)
    BY <1>2, <1>6, <1>7, <1>8
  <2>3. \A i \in 1 .. m : in[i] = text[i]
    BY <1>4, <1>7, <2>2
  <2>4. text \in Seq(Bytes) /\ SubSeq(in, 1, m) \in Seq(Bytes)
    BY <1>2, <1>6, <1>8, UnitTypes
  <2>5. Len(SubSeq(in, 1, m)) = m /\ \A i \in 1 .. m : SubSeq(in, 1, m)[i] = in[i]
    BY <1>2, <1>6, <1>8
  <2> QED
    BY <1>6, <2>1, <2>3, <2>4, <2>5, SeqEqual
<1>10. SubSeq(in, n + 1, Len(in)) \o c = v
  BY <1>1, <1>2, <1>4, <1>7, <1>8
<1>11. in' = SubSeq(in, n + 1, Len(in))
  <2> SUFFICES ASSUME n < Len(in), in[n + 1] \in {CR, LF} \ {in[n]} PROVE FALSE
    BY <1>1 DEF Taken
  <2>1. PICK rest : rest = SubSeq(in, n + 1, Len(in))
    OBVIOUS
  <2>2. rest \in Seq(Bytes) /\ rest # <<>> /\ rest[1] = in[n + 1]
    <3>1. n + 1 \in 1 .. Len(in) /\ Len(in) \in n + 1 .. Len(in)
      BY <1>2
    <3>2. rest = <<in[n + 1]>> \o SubSeq(in, (n + 1) + 1, Len(in))
      BY <2>1, <3>1, SubSeqRecursiveFirst
    <3>3. in[n + 1] \in Bytes /\ SubSeq(in, (n + 1) + 1, Len(in)) \in Seq(Bytes)
      BY <1>2, <3>1
    <3> QED
      BY <3>2, <3>3
  <2>3. Tail(us) \in Seq(Whole(e)) /\ Makes(rest, c, Tail(us))
    BY <1>3, <1>4, <1>10, <2>1 DEF Makes
  <2>4. PICK w \in Whole(e) : rest[1] = w[1]
    <3>1. Tail(us)[1] \in Whole(e) /\ rest[1] = Tail(us)[1][1]
      BY <2>2, <2>3, FrontUnit DEF AtFront, Makes
    <3> QED
      BY <3>1
  <2>5. w[1] \in {IAC, e[1]} \cup Letters
    BY WholeShape
  <2>6. in[n] = e[1]
    <3>1. n \in 1 .. Len(u)
      BY <1>1, <1>6, <1>7, <1>8
    <3> QED
      BY <1>1, <1>4, <1>7, <1>8, <3>1
  <2> QED
    BY <2>2, <2>4, <2>5, <2>6, RequestShape
<1> QED
  BY <1>3, <1>9, <1>10, <1>11 DEF Makes

LEMMA OneByteEnd ==
  ASSUME end \in Ends, Len(end) = 1
  PROVE  end \in {<<CR>>, <<LF>>}
<1>1. Len(<<CR, LF>>) = 2
  OBVIOUS
<1> QED
  BY <1>1, EndAssumption

\* One more unit on the wire
LEMMA SentBytes ==
  ASSUME IType, NEW unit \in Seq(Bytes), Send(unit), NEW us \in Seq(Seq(Bytes)),
         in \o FlattenSeq(wire) = FlattenSeq(us)
  PROVE  in' \o FlattenSeq(wire') = FlattenSeq(Append(us, unit))
<1>1. in \in Seq(Bytes) /\ wire \in Seq(Seq(Bytes))
  BY DEF IType, TypeOK
<1>2. in' = in /\ wire' = Append(wire, unit)
  BY DEF Send
<1>3. PICK w : w = FlattenSeq(wire)
  OBVIOUS
<1>4. w \in Seq(Bytes)
  BY <1>1, <1>3, FlattenType
<1>5. FlattenSeq(wire') = w \o unit
  BY <1>1, <1>2, <1>3, FlattenAppend
<1>6. FlattenSeq(Append(us, unit)) = FlattenSeq(us) \o unit
  BY FlattenAppend
<1>7. Associative(in, w, unit)
  BY <1>1, <1>4, SeqAssociative
<1> QED
  BY <1>2, <1>3, <1>5, <1>6, <1>7 DEF Associative

\* A line or more is acted on.
LEMMA HandledMore ==
  ASSUME NEW s \in Seq(Seq(Bytes)), NEW lines \in Seq(Text), lines # <<>>
  PROVE  s \o lines = Append(s, lines[1]) \o Tail(lines)
<1>1. /\ lines \in Seq(Seq(Bytes)) /\ lines[1] \in Seq(Bytes) /\ Tail(lines) \in Seq(Seq(Bytes))
      /\ lines = <<lines[1]>> \o Tail(lines)
  <2>1. Text \subseteq Seq(Bytes)
    BY UnitTypes
  <2>2. lines \in Seq(Seq(Bytes))
    BY <2>1, SeqMonotonic
  <2> QED
    BY <2>2
<1>2. Append(s, lines[1]) = s \o <<lines[1]>>
  BY <1>1, AppendIsConcat
<1>3. <<lines[1]>> \in Seq(Seq(Bytes))
  BY <1>1
<1>4. Associative(s, <<lines[1]>>, Tail(lines))
  BY <1>1, <1>3, SeqAssociative
<1> QED
  BY <1>1, <1>2, <1>4 DEF Associative

LEMMA ParsedStep ==
  ASSUME IType, IParsed, [Next]_vars
  PROVE  IParsed'
<1> SUFFICES ASSUME Len(end') = 1, ~torn'
             PROVE  \E us, lines, f :
                      /\ Parsed(f, lines, us, end')
                      /\ typed' = handled' \o lines
                      /\ in' \o FlattenSeq(wire') = FlattenSeq(us)
  BY DEF IParsed
<1>1. end' = end
  BY DEF Next, Client, Server, Poll, HangUp, SendRequest, Type, Send, Receive, Read, ReadEnd,
         NoInput, HandleTelnet, IdlePoll, Received, Command, Answer, Build, client, vars
<1>2. ~torn
  <2>1. CASE HandleTelnet
    <3>1. torn' = (torn \/ in = <<IAC, "will">>)
      BY <2>1 DEF HandleTelnet
    <3> QED
      BY <3>1
  <2>2. CASE ~HandleTelnet
    BY <2>2
       DEF Next, Client, Server, Poll, HangUp, SendRequest, Type, Send, Receive, Read, ReadEnd,
           NoInput, IdlePoll, Received, Command, Answer, Build, client, vars
  <2> QED
    BY <2>1, <2>2
<1>3. PICK e : e = end
  OBVIOUS
<1>4. e \in {<<CR>>, <<LF>>} /\ end' = e
  BY <1>1, <1>3, OneByteEnd DEF IType
<1>5. in \in Seq(Bytes) /\ wire \in Seq(Seq(Bytes)) /\ handled \in Seq(Seq(Bytes))
  BY DEF IType, TypeOK
<1>6. PICK us, lines, f :
        /\ Parsed(f, lines, us, e)
        /\ typed = handled \o lines
        /\ in \o FlattenSeq(wire) = FlattenSeq(us)
  BY <1>1, <1>2, <1>3 DEF IParsed
<1>7. us \in Seq(Whole(e)) /\ lines \in Seq(Text) /\ us \in Seq(Seq(Bytes))
  BY <1>4, <1>6, WholeTypes DEF Parsed
<1>8. PICK rest : rest = FlattenSeq(wire)
  OBVIOUS
<1>9. rest \in Seq(Bytes) /\ Makes(in, rest, us)
  BY <1>5, <1>6, <1>8, FlattenType DEF Makes
<1>10. ASSUME NEW us2, NEW lines2, NEW g, Parsed(g, lines2, us2, e),
              typed' = handled' \o lines2, in' \o FlattenSeq(wire') = FlattenSeq(us2)
       PROVE  \E us3, lines3, h :
                /\ Parsed(h, lines3, us3, end')
                /\ typed' = handled' \o lines3
                /\ in' \o FlattenSeq(wire') = FlattenSeq(us3)
  BY <1>4, <1>10
<1>11. ASSUME NEW text \in Text, Type(text)
       PROVE  \E us2, lines2, g :
                /\ Parsed(g, lines2, us2, e)
                /\ typed' = handled' \o lines2
                /\ in' \o FlattenSeq(wire') = FlattenSeq(us2)
  <2>1. PICK g : Parsed(g, Append(lines, text), Append(us, text \o e), e)
    BY <1>4, <1>6, SpreadLine
  <2>2. Send(text \o e) /\ typed' = Append(typed, text) /\ handled' = handled
    BY <1>3, <1>11 DEF Type, Send
  <2>3. text \o e \in Seq(Bytes)
    BY <1>4, LineShape
  <2>4. in' \o FlattenSeq(wire') = FlattenSeq(Append(us, text \o e))
    BY <1>6, <1>7, <2>2, <2>3, SentBytes
  <2>5. Append(handled \o lines, text) = handled \o Append(lines, text)
    <3>1. Text \subseteq Seq(Bytes)
      BY UnitTypes
    <3>2. lines \in Seq(Seq(Bytes)) /\ text \in Seq(Bytes)
      BY <1>7, <3>1, SeqMonotonic
    <3>3. handled \o lines \in Seq(Seq(Bytes)) /\ <<text>> \in Seq(Seq(Bytes))
      BY <1>5, <3>2, ConcatProperties
    <3>4. /\ Append(handled \o lines, text) = (handled \o lines) \o <<text>>
          /\ Append(lines, text) = lines \o <<text>>
      BY <3>2, <3>3, AppendIsConcat
    <3>5. Associative(handled, lines, <<text>>)
      BY <1>5, <3>2, <3>3, SeqAssociative
    <3> QED
      BY <3>4, <3>5 DEF Associative
  <2> QED
    BY <1>6, <2>1, <2>2, <2>4, <2>5
<1>12. CASE SendRequest
  <2>1. PICK r \in Requests : Send(r)
    BY <1>12 DEF SendRequest, Requests
  <2>2. typed' = typed /\ handled' = handled
    BY <1>12, <2>1 DEF SendRequest, Send
  <2>3. r \in Seq(Bytes)
    BY UnitTypes DEF Requests
  <2>4. in' \o FlattenSeq(wire') = FlattenSeq(Append(us, r))
    BY <1>6, <1>7, <2>1, <2>3, SentBytes
  <2>5. Parsed(f, lines, Append(us, r), e)
    BY <1>4, <1>6, SpreadRequest
  <2> QED
    BY <1>6, <1>10, <2>2, <2>4, <2>5
<1>13. CASE Read
  <2>1. Ahead(in', wire') = Ahead(in, wire)
    <3>1. PICK k \in 0 .. Len(wire), cut \in 0 .. 2 : Moved(in, wire, k, cut, in', wire')
      BY <1>13, ReadIsMoved
    <3> QED
      BY <1>5, <3>1, ReadMoves
  <2>2. typed' = typed /\ handled' = handled
    BY <1>13 DEF Read
  <2> QED
    BY <1>6, <1>10, <2>1, <2>2 DEF Ahead
<1>14. CASE HandleTelnet
  <2>1. typed' = typed /\ handled' = handled /\ wire' = wire
    BY <1>14 DEF HandleTelnet, client
  <2>2. us # <<>> /\ us[1] \in Requests /\ Makes(in', rest, Tail(us))
    BY <1>4, <1>5, <1>7, <1>9, <1>14, RequestTaken
  <2>3. PICK g : Parsed(g, lines, Tail(us), e)
    BY <1>4, <1>6, <2>2, DropRequest
  <2> QED
    BY <1>6, <1>8, <1>10, <2>1, <2>2, <2>3 DEF Makes
<1>15. CASE Command \/ Answer \/ Build
  <2>1. TakeLine /\ ~HasReq /\ handled' = Append(handled, line'.bytes)
    BY <1>15 DEF Command, Answer, Build
  <2>2. typed' = typed /\ wire' = wire
    BY <1>15 DEF Command, Answer, Build, client
  <2>3. us # <<>> /\ us[1] \notin Requests
    BY <1>4, <1>5, <1>7, <1>9, <2>1, LineFirst
  <2>4. lines # <<>> /\ us[1] = lines[1] \o e
    <3>1. Leads(lines, us, e)
      BY <1>4, <1>6, <2>3, DropLine
    <3> QED
      BY <3>1 DEF Leads
  <2>5. PICK g : Parsed(g, Tail(lines), Tail(us), e)
    BY <1>4, <1>6, <2>3, DropLine
  <2>6. lines[1] \in Text
    BY <1>7, <2>4
  <2>7. line'.bytes = lines[1] /\ Makes(in', rest, Tail(us))
    <3>1. us \in Seq(Whole(e)) /\ in \in Seq(Bytes) /\ TakeLine /\ us[1] = lines[1] \o e
      BY <1>5, <1>7, <2>1, <2>4
    <3> QED
      BY <1>4, <1>9, <2>6, <3>1, LineTaken
  <2>8. handled \o lines = Append(handled, lines[1]) \o Tail(lines)
    BY <1>5, <1>7, <2>4, HandledMore
  <2> QED
    BY <1>6, <1>8, <1>10, <2>1, <2>2, <2>5, <2>7, <2>8 DEF Makes
<1>16. CASE HangUp \/ Receive \/ ReadEnd \/ NoInput \/ IdlePoll \/ Received \/ UNCHANGED vars
  <2>1. typed' = typed /\ handled' = handled /\ in' = in /\ wire' = wire
    BY <1>16 DEF HangUp, Receive, ReadEnd, NoInput, IdlePoll, Received, client, vars
  <2> QED
    BY <1>6, <1>10, <2>1
<1> QED
  BY <1>4, <1>11, <1>12, <1>13, <1>14, <1>15, <1>16 DEF Next, Client, Server, Poll

\* With one byte to end a line, and as long as no request has been taken
\* without its option, the lines acted on are the first of those typed:
\* none lost, repeated, joined, torn or mixed with a request, however
\* the network has cut them and whatever the user was doing meanwhile.
THEOREM LinesExactCorrect == Spec => []LinesExact
<1>1. Init => IParsed
  <2> SUFFICES ASSUME Init, Len(end) = 1 PROVE IParsed
    BY DEF IParsed
  <2>1. end \in {<<CR>>, <<LF>>}
    BY OneByteEnd DEF Init
  <2>2. /\ typed = <<>> /\ handled = <<>> /\ in = <<>> /\ wire = <<>>
    BY DEF Init
  <2>3. /\ typed = handled \o <<>>
        /\ in \o FlattenSeq(wire) = FlattenSeq(<<>>)
    BY <2>2, FlattenEmpty
  <2>4. Spread([i \in 1 .. 0 |-> i], <<>>, <<>>, end)
    BY DEF Spread
  <2>5. <<>> \in Seq(Whole(end)) /\ <<>> \in Seq(Text)
    BY EmptySeq
  <2> QED
    BY <2>3, <2>4, <2>5 DEF IParsed, Parsed
<1>2. IType /\ IParsed => LinesExact
  <2> SUFFICES ASSUME IType, IParsed, Len(end) = 1, ~torn
               PROVE  IsPrefix(handled, typed)
    BY DEF LinesExact
  <2>1. PICK lines : lines \in Seq(Text) /\ typed = handled \o lines
    BY DEF IParsed, Parsed
  <2>2. handled \in Seq(Seq(Bytes))
    BY DEF IType, TypeOK
  <2>3. Text \subseteq Seq(Bytes)
    BY UnitTypes
  <2>4. lines \in Seq(Seq(Bytes))
    BY <2>1, <2>3, SeqMonotonic
  <2>5. Len(handled) <= Len(typed)
    BY <2>1, <2>2, <2>4, ConcatProperties
  <2>6. SubSeq(typed, 1, Len(handled)) = SubSeq(handled, 1, Len(handled))
    <3>1. CASE Len(handled) = 0
      BY <3>1, SubSeqEmpty
    <3>2. CASE Len(handled) # 0
      <4>1. 1 \in 1 .. Len(handled) /\ Len(handled) \in 1 .. Len(handled)
        BY <2>2, <3>2
      <4> QED
        BY <2>1, <2>2, <2>4, <4>1, SubSeqOfConcat1
    <3> QED
      BY <3>1, <3>2
  <2> QED
    BY <2>5, <2>6 DEF IsPrefix
<1>3. IType /\ IParsed /\ [Next]_vars => IParsed'
  BY ParsedStep
<1> QED
  BY <1>1, <1>2, <1>3, TypeInv, PTL DEF Spec

-----------------------------------------------------------------------------
(***************************************************************************)
(* What Filled and Legible leave out                                       *)
(***************************************************************************)
Kept(x, out) == IF out THEN <<>> ELSE <<x>>

LEMMA KeptMore ==
  ASSUME NEW S, NEW s \in Seq(S), NEW x \in S
  PROVE  /\ Filled(Append(s, x)) = Filled(s) \o Kept(x, x = <<>>)
         /\ Legible(Append(s, x)) = Legible(s) \o Kept(x, x \in Telnet)
         /\ Filled(s) \in Seq(S) /\ Legible(s) \in Seq(S)
<1> DEFINE full(t) == [i \in DOMAIN t |-> IF t[i] = <<>> THEN <<>> ELSE <<t[i]>>]
           seen(t) == [i \in DOMAIN t |-> IF t[i] \in Telnet THEN <<>> ELSE <<t[i]>>]
           long == Append(s, x)
<1>1. /\ long \in Seq(S) /\ Len(long) = Len(s) + 1 /\ long[Len(s) + 1] = x
      /\ \A i \in 1 .. Len(s) : long[i] = s[i]
      /\ Len(s) \in Nat
  BY AppendProperties
<1>2. ASSUME NEW t \in Seq(S)
      PROVE  full(t) \in Seq(Seq(S)) /\ seen(t) \in Seq(Seq(S))
  <2>1. \A i \in DOMAIN t : t[i] \in S /\ <<t[i]>> \in Seq(S) /\ <<>> \in Seq(S)
    OBVIOUS
  <2>2. DOMAIN t = 1 .. Len(t) /\ Len(t) \in Nat
    OBVIOUS
  <2>3. full(t) \in [1 .. Len(t) -> Seq(S)] /\ seen(t) \in [1 .. Len(t) -> Seq(S)]
    BY <2>1, <2>2
  <2> QED
    BY <2>2, <2>3
<1>3. Kept(x, x = <<>>) \in Seq(S) /\ Kept(x, x \in Telnet) \in Seq(S)
  BY DEF Kept
<1>4. full(long) = Append(full(s), Kept(x, x = <<>>))
  <2>1. full(s) \in Seq(Seq(S)) /\ full(long) \in Seq(Seq(S))
    BY <1>1, <1>2
  <2>2. Len(full(s)) = Len(s) /\ Len(full(long)) = Len(s) + 1
    BY <1>1
  <2>3. \A i \in 1 .. Len(s) : full(long)[i] = full(s)[i]
    BY <1>1
  <2>4. full(long)[Len(s) + 1] = Kept(x, x = <<>>)
    BY <1>1 DEF Kept
  <2> HIDE DEF full, long
  <2> QED
    BY <1>1, <1>3, <2>1, <2>2, <2>3, <2>4, IsAppend
<1>5. seen(long) = Append(seen(s), Kept(x, x \in Telnet))
  <2>1. seen(s) \in Seq(Seq(S)) /\ seen(long) \in Seq(Seq(S))
    BY <1>1, <1>2
  <2>2. Len(seen(s)) = Len(s) /\ Len(seen(long)) = Len(s) + 1
    BY <1>1
  <2>3. \A i \in 1 .. Len(s) : seen(long)[i] = seen(s)[i]
    BY <1>1
  <2>4. seen(long)[Len(s) + 1] = Kept(x, x \in Telnet)
    BY <1>1 DEF Kept
  <2> HIDE DEF seen, long
  <2> QED
    BY <1>1, <1>3, <2>1, <2>2, <2>3, <2>4, IsAppend
<1>6. \A t : Filled(t) = FlattenSeq(full(t)) /\ Legible(t) = FlattenSeq(seen(t))
  BY DEF Filled, Legible
<1> HIDE DEF full, seen, long
<1>7. full(s) \in Seq(Seq(S)) /\ seen(s) \in Seq(Seq(S))
  BY <1>2
<1>8. /\ FlattenSeq(full(long)) = FlattenSeq(full(s)) \o Kept(x, x = <<>>)
      /\ FlattenSeq(seen(long)) = FlattenSeq(seen(s)) \o Kept(x, x \in Telnet)
  <2>1. FlattenSeq(full(long)) = FlattenSeq(full(s)) \o Kept(x, x = <<>>)
    BY <1>3, <1>4, <1>7, FlattenAppend
  <2>2. FlattenSeq(seen(long)) = FlattenSeq(seen(s)) \o Kept(x, x \in Telnet)
    BY <1>3, <1>5, <1>7, FlattenAppend
  <2> QED
    BY <2>1, <2>2
<1>9. FlattenSeq(full(s)) \in Seq(S) /\ FlattenSeq(seen(s)) \in Seq(S)
  BY <1>7, FlattenType
<1> QED
  BY <1>6, <1>8, <1>9 DEF long

LEMMA KeptNone == Filled(<<>>) = <<>> /\ Legible(<<>>) = <<>>
<1>1. /\ [i \in DOMAIN <<>> |-> IF <<>>[i] = <<>> THEN <<>> ELSE <<<<>>[i]>>] = <<>>
      /\ [i \in DOMAIN <<>> |-> IF <<>>[i] \in Telnet THEN <<>> ELSE <<<<>>[i]>>] = <<>>
  OBVIOUS
<1> QED
  BY <1>1, FlattenEmpty DEF Filled, Legible

-----------------------------------------------------------------------------
(***************************************************************************)
(* Somebody who reads the bytes one by one, skips what belongs to telnet   *)
(* requests, and notes the lines that are not empty.                       *)
(***************************************************************************)
Blank(lines) == [lines |-> lines, text |-> <<>>]

Noted(s, b) ==
  IF b \in Telnet THEN s
  ELSE IF b \in {CR, LF}
       THEN Blank(IF s.text = <<>> THEN s.lines ELSE Append(s.lines, s.text))
       ELSE [lines |-> s.lines, text |-> Append(s.text, b)]

\* f[i] is what he has after i bytes.
Reading(f, s, v) == f[0] = s /\ \A i \in 1 .. Len(v) : f[i] = Noted(f[i - 1], v[i])
Reads(s, v, r) == \E f : Reading(f, s, v) /\ f[Len(v)] = r

LEMMA ReadsUnique ==
  ASSUME NEW S, NEW v \in Seq(S), NEW s, NEW r, NEW q, Reads(s, v, r), Reads(s, v, q)
  PROVE  r = q
<1>1. PICK f : Reading(f, s, v) /\ f[Len(v)] = r
  BY DEF Reads
<1>2. PICK g : Reading(g, s, v) /\ g[Len(v)] = q
  BY DEF Reads
<1> DEFINE Same == {i \in 0 .. Len(v) : f[i] = g[i]}
<1>3. 0 \in Same /\ Len(v) \in Nat /\ Len(v) \in 0 .. Len(v)
  BY <1>1, <1>2 DEF Reading
<1>4. \A i \in 1 .. Len(v) : i - 1 \in Same => i \in Same
  BY <1>1, <1>2 DEF Reading
<1>5. \A i \in 0 .. Len(v) : i \in Same
  <2> HIDE DEF Same
  <2> QED
    BY <1>3, <1>4, Counting
<1> QED
  BY <1>1, <1>2, <1>3, <1>5

LEMMA ReadsNothing == \A s : Reads(s, <<>>, s)
<1> TAKE s
<1> DEFINE f == [i \in 0 .. 0 |-> s]
<1>1. Reading(f, s, <<>>) /\ f[Len(<<>>)] = s
  BY DEF Reading
<1> QED
  BY <1>1 DEF Reads

LEMMA ReadsOne ==
  ASSUME NEW s, NEW b
  PROVE  Reads(s, <<b>>, Noted(s, b))
<1> DEFINE f == [i \in 0 .. 1 |-> IF i = 0 THEN s ELSE Noted(s, b)]
<1>1. Reading(f, s, <<b>>) /\ f[Len(<<b>>)] = Noted(s, b)
  BY DEF Reading
<1> QED
  BY <1>1 DEF Reads

LEMMA ReadsOn ==
  ASSUME NEW S, NEW u \in Seq(S), NEW v \in Seq(S), NEW s, NEW m, NEW r,
         Reads(s, u, m), Reads(m, v, r)
  PROVE  Reads(s, u \o v, r)
<1>1. PICK f : Reading(f, s, u) /\ f[Len(u)] = m
  BY DEF Reads
<1>2. PICK g : Reading(g, m, v) /\ g[Len(v)] = r
  BY DEF Reads
<1>3. PICK k, n \in Nat : k = Len(u) /\ n = Len(v)
  OBVIOUS
<1>4. PICK w : w = u \o v
  OBVIOUS
<1>5. /\ Len(w) = k + n
      /\ \A i \in 1 .. k : w[i] = u[i]
      /\ \A i \in 1 .. n : w[k + i] = v[i]
  BY <1>3, <1>4, ConcatProperties, ConcatAt
<1> DEFINE h == [i \in 0 .. k + n |-> IF i <= k THEN f[i] ELSE g[i - k]]
<1>6. h[0] = s /\ h[k + n] = r
  <2>1. f[0] = s /\ f[k] = m /\ g[0] = m /\ g[n] = r
    BY <1>1, <1>2, <1>3 DEF Reading
  <2>2. h[0] = s
    BY <2>1
  <2>3. CASE n = 0
    BY <2>1, <2>3
  <2>4. CASE n # 0
    BY <2>1, <2>4
  <2> QED
    BY <2>2, <2>3, <2>4
<1>7. ASSUME NEW i \in 1 .. k + n
      PROVE  h[i] = Noted(h[i - 1], w[i])
  <2>1. CASE i <= k
    <3>1. i \in 1 .. k /\ h[i] = f[i] /\ h[i - 1] = f[i - 1]
      BY <2>1
    <3> QED
      BY <1>1, <1>3, <1>5, <3>1 DEF Reading
  <2>2. CASE i > k
    <3>1. PICK j \in 1 .. n : i = k + j
      <4>1. i - k \in 1 .. n /\ i = k + (i - k)
        BY <2>2
      <4> QED
        BY <4>1
    <3>2. h[i] = g[j]
      BY <3>1
    <3>3. h[i - 1] = g[j - 1]
      <4>1. CASE j = 1
        <5>1. i - 1 = k /\ h[k] = f[k] /\ g[0] = m /\ j - 1 = 0
          BY <1>2, <3>1, <4>1 DEF Reading
        <5> QED
          BY <1>1, <1>3, <5>1
      <4>2. CASE j # 1
        BY <3>1, <4>2
      <4> QED
        BY <4>1, <4>2
    <3>4. w[i] = v[j]
      BY <1>5, <3>1
    <3> QED
      BY <1>2, <1>3, <3>1, <3>2, <3>3, <3>4 DEF Reading
  <2> QED
    BY <2>1, <2>2
<1>8. Reading(h, s, w) /\ h[Len(w)] = r
  <2> HIDE DEF h
  <2> QED
    BY <1>5, <1>6, <1>7 DEF Reading
<1> QED
  BY <1>4, <1>8 DEF Reads

LEMMA ReadsApart ==
  ASSUME NEW S, NEW u \in Seq(S), NEW v \in Seq(S), NEW s, NEW m, NEW r,
         Reads(s, u \o v, r), Reads(s, u, m)
  PROVE  Reads(m, v, r)
<1>1. PICK k, n \in Nat : k = Len(u) /\ n = Len(v)
  OBVIOUS
<1>2. PICK w : w = u \o v
  OBVIOUS
<1>3. /\ Len(w) = k + n
      /\ \A i \in 1 .. k : w[i] = u[i]
      /\ \A i \in 1 .. n : w[k + i] = v[i]
  BY <1>1, <1>2, ConcatProperties, ConcatAt
<1>4. PICK f : Reading(f, s, w) /\ f[Len(w)] = r
  BY <1>2 DEF Reads
<1>5. Reading(f, s, u)
  BY <1>1, <1>3, <1>4 DEF Reading
<1>6. Reads(s, u, f[k])
  BY <1>1, <1>5 DEF Reads
<1>7. f[k] = m
  BY <1>6, ReadsUnique
<1> DEFINE g == [i \in 0 .. n |-> f[k + i]]
<1>8. g[0] = m /\ g[n] = r
  BY <1>3, <1>4, <1>7
<1>9. ASSUME NEW i \in 1 .. n
      PROVE  g[i] = Noted(g[i - 1], v[i])
  <2>1. k + i \in 1 .. k + n /\ (k + i) - 1 = k + (i - 1) /\ i - 1 \in 0 .. n
    OBVIOUS
  <2>2. f[k + i] = Noted(f[k + (i - 1)], v[i])
    BY <1>3, <1>4, <2>1 DEF Reading
  <2> QED
    BY <2>1, <2>2
<1>10. Reading(g, m, v) /\ g[Len(v)] = r
  <2> HIDE DEF g
  <2> QED
    BY <1>1, <1>8, <1>9 DEF Reading
<1> QED
  BY <1>10 DEF Reads

\* Nothing of a request is noted.
LEMMA ReadsTelnet ==
  ASSUME NEW v \in Seq(Telnet), NEW s
  PROVE  Reads(s, v, s)
<1> DEFINE f == [i \in 0 .. Len(v) |-> s]
<1>1. Len(v) \in Nat /\ \A i \in 1 .. Len(v) : v[i] \in Telnet
  OBVIOUS
<1>2. Reading(f, s, v) /\ f[Len(v)] = s
  BY <1>1 DEF Reading, Noted
<1> QED
  BY <1>2 DEF Reads

\* The beginnings of a sequence, each with one element more
Grows(begin, v, n, S) ==
  /\ begin[0] = <<>> /\ begin[n] = v
  /\ \A i \in 1 .. n : begin[i] = Append(begin[i - 1], v[i]) /\ begin[i - 1] \in Seq(S)

LEMMA Beginnings ==
  ASSUME NEW S, NEW v \in Seq(S), NEW n \in Nat, n = Len(v)
  PROVE  \E begin : Grows(begin, v, n, S)
<1> DEFINE begin == [i \in 0 .. n |-> SubSeq(v, 1, i)]
<1>1. \A i \in 0 .. n : begin[i] = SubSeq(v, 1, i)
  OBVIOUS
<1>2. SubSeq(v, 1, 0) = <<>> /\ SubSeq(v, 1, n) = v
  BY SubSeqEmpty, SubSeqFull
<1>3. \A i \in 1 .. n : /\ SubSeq(v, 1, i) = Append(SubSeq(v, 1, i - 1), v[i])
                        /\ SubSeq(v, 1, i - 1) \in Seq(S)
  BY Shorter
<1>4. 0 \in 0 .. n /\ n \in 0 .. n /\ \A i \in 1 .. n : i \in 0 .. n /\ i - 1 \in 0 .. n
  OBVIOUS
<1> HIDE DEF begin
<1>5. begin[0] = <<>> /\ begin[n] = v
  BY <1>1, <1>2, <1>4
<1>6. ASSUME NEW i \in 1 .. n
      PROVE  begin[i] = Append(begin[i - 1], v[i]) /\ begin[i - 1] \in Seq(S)
  <2>1. begin[i] = SubSeq(v, 1, i) /\ begin[i - 1] = SubSeq(v, 1, i - 1)
    BY <1>1, <1>4
  <2> QED
    BY <1>3, <2>1
<1>7. Grows(begin, v, n, S)
  BY <1>5, <1>6 DEF Grows
<1> QED
  BY <1>7

\* Up to the end of a line its text is gathered.
LEMMA ReadsText ==
  ASSUME NEW v \in Seq(Bytes), \A i \in 1 .. Len(v) : v[i] \notin {CR, LF}, NEW lines
  PROVE  Reads(Blank(lines), v, [lines |-> lines, text |-> Legible(v)])
<1>1. PICK n \in Nat : n = Len(v)
  OBVIOUS
<1>6. PICK begin : Grows(begin, v, n, Bytes)
  BY <1>1, Beginnings
<1> DEFINE f == [i \in 0 .. n |-> [lines |-> lines, text |-> Legible(begin[i])]]
<1>2. f[0] = Blank(lines)
  <2>1. begin[0] = <<>>
    BY <1>6 DEF Grows
  <2> QED
    BY <1>1, <2>1, KeptNone DEF Blank
<1>3. ASSUME NEW i \in 1 .. n
      PROVE  f[i] = Noted(f[i - 1], v[i])
  <2>1. v[i] \in Bytes /\ v[i] \notin {CR, LF}
    BY <1>1, ElementOfSeq
  <2>3. PICK p : p = begin[i - 1]
    OBVIOUS
  <2>2. begin[i] = Append(p, v[i]) /\ p \in Seq(Bytes)
    BY <1>6, <2>3 DEF Grows
  <2>8. PICK q : q = Append(p, v[i])
    OBVIOUS
  <2>9. begin[i] = q /\ i \in 0 .. n /\ i - 1 \in 0 .. n
    BY <2>2, <2>8
  <2>4. /\ f[i] = [lines |-> lines, text |-> Legible(q)]
        /\ f[i - 1] = [lines |-> lines, text |-> Legible(p)]
    BY <2>3, <2>9
  <2>5. Legible(q) = Legible(p) \o Kept(v[i], v[i] \in Telnet)
        /\ Legible(p) \in Seq(Bytes)
    BY <2>1, <2>2, <2>8, KeptMore
  <2> HIDE DEF f
  <2>6. CASE v[i] \in Telnet
    <3>1. Legible(q) = Legible(p)
      BY <2>5, <2>6, ConcatEmptySeq DEF Kept
    <3> QED
      BY <2>4, <2>6, <3>1 DEF Noted
  <2>7. CASE v[i] \notin Telnet
    <3>1. Legible(q) = Append(Legible(p), v[i])
      BY <2>1, <2>5, <2>7, AppendIsConcat DEF Kept
    <3> QED
      BY <2>1, <2>4, <2>7, <3>1 DEF Noted
  <2> QED
    BY <2>6, <2>7
<1>4. f[Len(v)] = [lines |-> lines, text |-> Legible(v)]
  BY <1>1, <1>6 DEF Grows
<1> HIDE DEF f
<1>5. Reading(f, Blank(lines), v)
  BY <1>1, <1>2, <1>3 DEF Reading
<1> QED
  BY <1>4, <1>5 DEF Reads

\* Text is legible as it is.
LEMMA LegibleText ==
  ASSUME NEW v \in Seq(Letters)
  PROVE  Legible(v) = v
<1>1. PICK n \in Nat : n = Len(v)
  OBVIOUS
<1>2. PICK begin : Grows(begin, v, n, Letters)
  BY <1>1, Beginnings
<1> DEFINE Right == {i \in 0 .. n : Legible(begin[i]) = begin[i]}
<1>3. 0 \in Right
  BY <1>2, KeptNone DEF Grows
<1>4. ASSUME NEW i \in 1 .. n, i - 1 \in Right
      PROVE  i \in Right
  <2>1. v[i] \in Letters /\ v[i] \notin Telnet
    BY <1>1, ElementOfSeq, LetterAssumption
  <2>2. PICK p \in Seq(Letters) : p = begin[i - 1]
    BY <1>2 DEF Grows
  <2>3. Legible(Append(p, v[i])) = p \o <<v[i]>>
    <3>1. Legible(p) = p
      BY <1>4, <2>2
    <3>2. Legible(Append(p, v[i])) = Legible(p) \o Kept(v[i], v[i] \in Telnet)
      BY <2>1, KeptMore
    <3>3. Kept(v[i], v[i] \in Telnet) = <<v[i]>>
      BY <2>1 DEF Kept
    <3> QED
      BY <3>1, <3>2, <3>3
  <2>4. Append(p, v[i]) = p \o <<v[i]>>
    BY <2>1, AppendIsConcat
  <2>5. PICK q : q = Append(p, v[i])
    OBVIOUS
  <2>6. Legible(q) = q
    BY <2>3, <2>4, <2>5
  <2>7. begin[i] = q /\ i \in 0 .. n
    BY <1>2, <2>2, <2>5 DEF Grows
  <2> QED
    BY <2>6, <2>7
<1>5. \A i \in 0 .. n : i \in Right
  <2> HIDE DEF Right
  <2> QED
    BY <1>3, <1>4, Counting
<1> QED
  BY <1>2, <1>5 DEF Grows

\* What has been noted stays.
LEMMA ReadsMore ==
  ASSUME NEW v \in Seq(Bytes), NEW lines \in Seq(Seq(Bytes)), NEW r,
         Reads(Blank(lines), v, r)
  PROVE  \E more \in Seq(Seq(Bytes)) : r.lines = lines \o more
<1>1. PICK n \in Nat : n = Len(v)
  OBVIOUS
<1>2. PICK f : Reading(f, Blank(lines), v) /\ f[n] = r
  BY <1>1 DEF Reads
<1> DEFINE Notes(s) == /\ s.text \in Seq(Bytes)
                       /\ \E more \in Seq(Seq(Bytes)) : s.lines = lines \o more
           Right == {i \in 0 .. n : Notes(f[i])}
<1>3. Notes(f[0])
  <2>1. f[0].text = <<>> /\ f[0].lines = lines
    BY <1>2 DEF Reading, Blank
  <2>2. lines = lines \o <<>> /\ <<>> \in Seq(Seq(Bytes)) /\ <<>> \in Seq(Bytes)
    BY ConcatEmptySeq, EmptySeq
  <2> QED
    BY <2>1, <2>2
<1>4. ASSUME NEW s, NEW b \in Bytes, Notes(s)
      PROVE  Notes(Noted(s, b))
  <2>1. PICK more \in Seq(Seq(Bytes)) : s.lines = lines \o more
    BY <1>4
  <2>2. PICK t \in Seq(Bytes) : t = s.text
    BY <1>4
  <2>3. CASE b \in Telnet
    BY <1>4, <2>3 DEF Noted
  <2>4. CASE b \notin Telnet /\ b \in {CR, LF}
    <3>1. Append(s.lines, t) = lines \o Append(more, t) /\ Append(more, t) \in Seq(Seq(Bytes))
      <4>1. <<t>> \in Seq(Seq(Bytes)) /\ lines \o more \in Seq(Seq(Bytes))
        BY ConcatProperties
      <4>2. Append(more, t) = more \o <<t>> /\ Append(lines \o more, t) = (lines \o more) \o <<t>>
        BY <4>1, AppendIsConcat
      <4>3. Associative(lines, more, <<t>>)
        BY <4>1, SeqAssociative
      <4> QED
        BY <2>1, <4>2, <4>3 DEF Associative
    <3>2. /\ Noted(s, b).text = <<>> /\ <<>> \in Seq(Bytes)
          /\ Noted(s, b).lines = s.lines \/ Noted(s, b).lines = Append(s.lines, t)
      BY <2>2, <2>4 DEF Noted, Blank
    <3> QED
      BY <2>1, <3>1, <3>2
  <2>5. CASE b \notin Telnet /\ b \notin {CR, LF}
    <3>1. Noted(s, b).lines = s.lines /\ Noted(s, b).text = Append(t, b)
      BY <2>2, <2>5 DEF Noted
    <3>2. Append(t, b) \in Seq(Bytes)
      BY AppendProperties
    <3> QED
      BY <2>1, <3>1, <3>2
  <2> QED
    BY <2>3, <2>4, <2>5
<1>5. ASSUME NEW i \in 1 .. n, i - 1 \in Right
      PROVE  i \in Right
  <2>1. f[i] = Noted(f[i - 1], v[i]) /\ v[i] \in Bytes
    BY <1>1, <1>2 DEF Reading
  <2>2. Notes(f[i - 1])
    BY <1>5
  <2> HIDE DEF Notes
  <2> QED
    BY <1>4, <2>1, <2>2
<1>6. \A i \in 0 .. n : i \in Right
  <2>1. 0 \in Right
    <3> HIDE DEF Notes
    <3> QED
      BY <1>3
  <2> HIDE DEF Right
  <2> QED
    BY <1>5, <2>1, Counting
<1>7. Notes(f[n])
  <2> HIDE DEF Notes
  <2>1. n \in Right
    <3> HIDE DEF Right
    <3> QED
      BY <1>6
  <2> QED
    BY <2>1
<1> QED
  BY <1>2, <1>7

\* A line with its end, and an end alone
LEMMA ReadsLine ==
  ASSUME NEW v \in Seq(Bytes), \A i \in 1 .. Len(v) : v[i] \notin {CR, LF},
         NEW c \in {CR, LF}, NEW lines \in Seq(Seq(Bytes))
  PROVE  /\ Reads(Blank(lines), v \o <<c>>, Blank(lines \o Kept(Legible(v), Legible(v) = <<>>)))
         /\ Reads(Blank(lines), <<c>>, Blank(lines))
<1>1. c \in Bytes /\ c \notin Telnet
  BY DEF Bytes, Telnet, CR, LF, IAC
<1>2. <<c>> \in Seq(Bytes)
  BY <1>1
<1>3. PICK t : t = Legible(v)
  OBVIOUS
<1>4. t \in Seq(Bytes)
  BY <1>1, <1>3, KeptMore
<1>5. PICK s : s = [lines |-> lines, text |-> t]
  OBVIOUS
<1>6. Noted(s, c) = Blank(lines \o Kept(t, t = <<>>))
  <2>1. CASE t = <<>>
    <3>1. lines \o Kept(t, t = <<>>) = lines
      BY <2>1, ConcatEmptySeq DEF Kept
    <3> QED
      BY <1>1, <1>5, <2>1, <3>1 DEF Noted
  <2>2. CASE t # <<>>
    <3>1. lines \o Kept(t, t = <<>>) = Append(lines, t)
      BY <1>4, <2>2, AppendIsConcat DEF Kept
    <3> QED
      BY <1>1, <1>5, <2>2, <3>1 DEF Noted
  <2> QED
    BY <2>1, <2>2
<1>7. Reads(Blank(lines), v, s)
  BY <1>3, <1>5, ReadsText
<1>8. Reads(s, <<c>>, Noted(s, c))
  BY ReadsOne
<1>9. Reads(Blank(lines), v \o <<c>>, Noted(s, c))
  BY <1>2, <1>7, <1>8, ReadsOn
<1>10. Noted(Blank(lines), c) = Blank(lines)
  BY <1>1 DEF Noted, Blank
<1>11. Reads(Blank(lines), <<c>>, Blank(lines))
  BY <1>10, ReadsOne
<1> QED
  BY <1>3, <1>6, <1>9, <1>11

\* What a client sends
LEMMA ReadsTyped ==
  ASSUME NEW text \in Text, NEW e \in Ends, NEW lines \in Seq(Seq(Bytes))
  PROVE  Reads(Blank(lines), text \o e, Blank(lines \o Kept(text, text = <<>>)))
<1>1. text \in Seq(Letters) /\ text \in Seq(Bytes) /\ Legible(text) = text
  BY TextAssumption, UnitTypes, LegibleText
<1>2. \A i \in 1 .. Len(text) : text[i] \notin {CR, LF}
  BY <1>1, ElementOfSeq, LetterAssumption
<1>3. ASSUME NEW c \in {CR, LF}
      PROVE  Reads(Blank(lines), text \o <<c>>, Blank(lines \o Kept(text, text = <<>>)))
  BY <1>1, <1>2, ReadsLine
<1>4. CASE e = <<CR>> \/ e = <<LF>>
  BY <1>3, <1>4
<1>5. CASE e = <<CR, LF>>
  <2>1. PICK c, d : c = CR /\ d = LF
    OBVIOUS
  <2>2. <<c>> \in Seq(Bytes) /\ <<d>> \in Seq(Bytes) /\ <<c>> \o <<d>> = <<c, d>>
    <3>1. c \in Bytes /\ d \in Bytes
      BY <2>1 DEF Bytes
    <3> QED
      BY <3>1, PairIsConcat
  <2>3. text \o <<c>> \in Seq(Bytes)
    BY <1>1, <2>2, ConcatProperties
  <2>4. (text \o <<c>>) \o <<d>> = text \o e
    <3>1. Associative(text, <<c>>, <<d>>)
      BY <1>1, <2>2, SeqAssociative
    <3> QED
      BY <1>5, <2>1, <2>2, <3>1 DEF Associative
  <2>5. PICK more : more = lines \o Kept(text, text = <<>>)
    OBVIOUS
  <2>6. more \in Seq(Seq(Bytes))
    <3>1. Kept(text, text = <<>>) \in Seq(Seq(Bytes))
      BY <1>1 DEF Kept
    <3> QED
      BY <2>5, <3>1, ConcatProperties
  <2>7. Reads(Blank(lines), text \o <<c>>, Blank(more))
    BY <1>3, <2>1, <2>5
  <2>8. Reads(Blank(more), <<d>>, Blank(more))
    <3>1. <<>> \in Seq(Bytes) /\ \A i \in 1 .. Len(<<>>) : <<>>[i] \notin {CR, LF}
      OBVIOUS
    <3> QED
      BY <2>1, <2>6, <3>1, ReadsLine
  <2>9. Reads(Blank(lines), (text \o <<c>>) \o <<d>>, Blank(more))
    BY <2>2, <2>3, <2>7, <2>8, ReadsOn
  <2> QED
    BY <2>4, <2>5, <2>9
<1> QED
  BY <1>4, <1>5, EndAssumption

LEMMA ReadsRequest ==
  ASSUME NEW u \in Requests, NEW s
  PROVE  Reads(s, u, s)
<1>1. \A a, b, c \in Telnet : <<a, b>> \in Seq(Telnet) /\ <<a, b, c>> \in Seq(Telnet)
  OBVIOUS
<1>2. u \in Seq(Telnet)
  <2>1. IAC \in Telnet /\ "will" \in Telnet /\ "opt" \in Telnet /\ "brk" \in Telnet
    BY DEF Telnet
  <2>2. u = <<IAC, "will", "opt">> \/ u = <<IAC, "brk">>
    BY DEF Requests, Request, Break
  <2> QED
    BY <1>1, <2>1, <2>2
<1> QED
  BY <1>2, ReadsTelnet

-----------------------------------------------------------------------------
(***************************************************************************)
(* However lines and requests are cut, torn or not, and whatever ends a    *)
(* line: reading on from the lines acted on, through all that is ahead,    *)
(* gives the lines typed.                                                  *)
(***************************************************************************)
Heard(s) == [i \in DOMAIN s |-> Legible(s[i])]

\* The bytes of a request follow each other; text is followed by its end.
Chained(b) ==
  \A i \in 1 .. Len(b) :
    /\ b[i] = IAC => i < Len(b) /\ b[i + 1] \in {"will", "brk"}
    /\ b[i] = "will" => i < Len(b) /\ b[i + 1] = "opt"
    /\ b[i] \in Letters => i < Len(b)
    /\ i > 1 /\ b[i] = IAC => b[i - 1] \notin Letters
    /\ i > 1 /\ b[i] \in {"will", "brk"} => b[i - 1] = IAC
    /\ i > 1 /\ b[i] = "opt" => b[i - 1] = "will"

\* The first byte is not one from within a request.
Starts(b) == b # <<>> => b[1] \notin {"will", "opt", "brk"}

IText ==
  /\ Reads(Blank(Filled(Heard(handled))), Ahead(in, wire), Blank(Filled(typed)))
  /\ Chained(Ahead(in, wire))
  /\ ~torn => /\ Starts(Ahead(in, wire))
              /\ \A i \in DOMAIN handled : handled[i] \in Seq(Letters)

LEMMA ByteKinds ==
  /\ Letters \cap {CR, LF, IAC, "will", "opt", "brk"} = {}
  /\ Telnet = {IAC, "will", "opt", "brk"} /\ Bytes = {CR, LF} \cup Telnet \cup Letters
  /\ {CR, LF} \cap Telnet = {}
  /\ IAC \notin {"will", "opt", "brk"}
<1>1. {CR, LF} \cap Telnet = {} /\ IAC \notin {"will", "opt", "brk"}
  BY DEF CR, LF, IAC, Telnet
<1> QED
  BY <1>1, LetterAssumption DEF Telnet, Bytes

LEMMA ChainedMore ==
  ASSUME NEW b \in Seq(Bytes), NEW u \in Seq(Bytes), Chained(b), Chained(u), Starts(u)
  PROVE  Chained(b \o u)
<1>1. PICK k, n \in Nat : k = Len(b) /\ n = Len(u)
  OBVIOUS
<1>2. PICK w : w = b \o u
  OBVIOUS
<1>3. /\ Len(w) = k + n
      /\ \A i \in 1 .. k : w[i] = b[i]
      /\ \A i \in 1 .. n : w[k + i] = u[i]
  BY <1>1, <1>2, ConcatProperties, ConcatAt
<1>4. ASSUME NEW i \in 1 .. k + n
      PROVE  /\ w[i] = IAC => i < k + n /\ w[i + 1] \in {"will", "brk"}
             /\ w[i] = "will" => i < k + n /\ w[i + 1] = "opt"
             /\ w[i] \in Letters => i < k + n
             /\ i > 1 /\ w[i] = IAC => w[i - 1] \notin Letters
             /\ i > 1 /\ w[i] \in {"will", "brk"} => w[i - 1] = IAC
             /\ i > 1 /\ w[i] = "opt" => w[i - 1] = "will"
  <2>1. CASE i <= k
    <3>1. i \in 1 .. k /\ w[i] = b[i] /\ (i < k => i + 1 \in 1 .. k /\ w[i + 1] = b[i + 1])
          /\ (i > 1 => i - 1 \in 1 .. k /\ w[i - 1] = b[i - 1])
      BY <1>3, <2>1
    <3>2. i < k => i < k + n
      BY <2>1
    <3> QED
      BY <1>1, <3>1, <3>2 DEF Chained
  <2>2. CASE i > k
    <3>1. PICK j \in 1 .. n : i = k + j
      <4>1. i - k \in 1 .. n /\ i = k + (i - k)
        BY <2>2
      <4> QED
        BY <4>1
    <3>2. w[i] = u[j] /\ (j < n => i < k + n /\ w[i + 1] = u[j + 1])
      <4>1. j < n => j + 1 \in 1 .. n /\ i + 1 = k + (j + 1) /\ i < k + n
        BY <3>1
      <4> QED
        BY <1>3, <3>1, <4>1
    <3>3. CASE j > 1
      <4>1. i > 1 /\ w[i - 1] = u[j - 1]
        <5>1. j - 1 \in 1 .. n /\ i - 1 = k + (j - 1) /\ i > 1
          BY <3>1, <3>3
        <5> QED
          BY <1>3, <5>1
      <4> QED
        BY <1>1, <3>1, <3>2, <3>3, <4>1 DEF Chained
    <3>4. CASE j = 1
      <4>1. u # <<>>
        BY <1>1, <3>1
      <4>2. w[i] \notin {"will", "opt", "brk"}
        BY <3>2, <3>4, <4>1 DEF Starts
      <4>3. i > 1 => w[i - 1] \notin Letters
        <5>1. i > 1 => k \in 1 .. k /\ i - 1 = k /\ w[k] = b[k]
          BY <1>3, <3>1, <3>4
        <5>2. k \in 1 .. k => b[k] \notin Letters
          BY <1>1 DEF Chained
        <5> QED
          BY <5>1, <5>2
      <4>4. /\ u[j] = IAC => j < n /\ u[j + 1] \in {"will", "brk"}
            /\ u[j] \in Letters => j < n
        BY <1>1, <3>1 DEF Chained
      <4> QED
        BY <3>2, <4>2, <4>3, <4>4
    <3> QED
      BY <3>1, <3>3, <3>4
  <2> QED
    BY <2>1, <2>2
<1> QED
  BY <1>2, <1>3, <1>4 DEF Chained

LEMMA ChainedRest ==
  ASSUME NEW h \in Seq(Bytes), NEW t \in Seq(Bytes), Chained(h \o t)
  PROVE  /\ Chained(t)
         /\ h # <<>> /\ h[Len(h)] \notin {IAC, "will"} => Starts(t)
<1>1. PICK k, n \in Nat : k = Len(h) /\ n = Len(t)
  OBVIOUS
<1>2. PICK w : w = h \o t
  OBVIOUS
<1>3. /\ Len(w) = k + n
      /\ \A i \in 1 .. k : w[i] = h[i]
      /\ \A i \in 1 .. n : w[k + i] = t[i]
  BY <1>1, <1>2, ConcatProperties, ConcatAt
<1>4. ASSUME NEW i \in 1 .. k + n
      PROVE  /\ w[i] = IAC => i < k + n /\ w[i + 1] \in {"will", "brk"}
             /\ w[i] = "will" => i < k + n /\ w[i + 1] = "opt"
             /\ w[i] \in Letters => i < k + n
             /\ i > 1 /\ w[i] = IAC => w[i - 1] \notin Letters
             /\ i > 1 /\ w[i] \in {"will", "brk"} => w[i - 1] = IAC
             /\ i > 1 /\ w[i] = "opt" => w[i - 1] = "will"
  BY <1>2, <1>3 DEF Chained
<1>5. Chained(t)
  <2> SUFFICES ASSUME NEW i \in 1 .. n
               PROVE  /\ t[i] = IAC => i < n /\ t[i + 1] \in {"will", "brk"}
                      /\ t[i] = "will" => i < n /\ t[i + 1] = "opt"
                      /\ t[i] \in Letters => i < n
                      /\ i > 1 /\ t[i] = IAC => t[i - 1] \notin Letters
                      /\ i > 1 /\ t[i] \in {"will", "brk"} => t[i - 1] = IAC
                      /\ i > 1 /\ t[i] = "opt" => t[i - 1] = "will"
    BY <1>1 DEF Chained
  <2>1. PICK j \in 1 .. k + n : j = k + i
    OBVIOUS
  <2>2. w[j] = t[i]
    BY <1>3, <2>1
  <2>3. j < k + n => i < n /\ w[j + 1] = t[i + 1]
    <3>1. j < k + n => i < n /\ i + 1 \in 1 .. n /\ j + 1 = k + (i + 1)
      BY <2>1
    <3> QED
      BY <1>3, <3>1
  <2>4. i > 1 => j > 1 /\ w[j - 1] = t[i - 1]
    <3>1. i > 1 => j > 1 /\ i - 1 \in 1 .. n /\ j - 1 = k + (i - 1)
      BY <2>1
    <3> QED
      BY <1>3, <3>1
  <2> QED
    BY <1>4, <2>2, <2>3, <2>4
<1>6. ASSUME h # <<>>, h[Len(h)] \notin {IAC, "will"}, t # <<>>
      PROVE  t[1] \notin {"will", "opt", "brk"}
  <2>1. k \in 1 .. k /\ 1 \in 1 .. n
    BY <1>1, <1>6
  <2>2. w[k] = h[k] /\ w[k + 1] = t[1] /\ k + 1 \in 1 .. k + n /\ (k + 1) - 1 = k /\ k + 1 > 1
    BY <1>3, <2>1
  <2> QED
    BY <1>1, <1>4, <1>6, <2>2
<1> QED
  BY <1>5, <1>6 DEF Starts

\* What is sent holds together.
LEMMA ChainedUnits ==
  /\ \A text \in Text, e \in Ends : Chained(text \o e) /\ Starts(text \o e)
  /\ \A u \in Requests : Chained(u) /\ Starts(u)
<1>1. ASSUME NEW text \in Text, NEW e \in Ends
      PROVE  Chained(text \o e) /\ Starts(text \o e)
  <2>1. text \in Seq(Letters) /\ text \in Seq(Bytes) /\ e \in Seq(Bytes)
    BY TextAssumption, UnitTypes
  <2>2. PICK k, n \in Nat : k = Len(text) /\ n = Len(e)
    BY <2>1
  <2>3. PICK w : w = text \o e
    OBVIOUS
  <2>4. /\ w \in Seq(Bytes) /\ Len(w) = k + n
        /\ \A i \in 1 .. k : w[i] = text[i]
        /\ \A i \in 1 .. n : w[k + i] = e[i]
    BY <2>1, <2>2, <2>3, ConcatProperties, ConcatAt
  <2>5. n > 0 /\ \A i \in 1 .. n : e[i] \in {CR, LF}
    <3>1. e = <<CR>> \/ e = <<LF>> \/ e = <<CR, LF>>
      BY EndAssumption
    <3> QED
      BY <2>2, <3>1
  <2>6. ASSUME NEW i \in 1 .. k + n
        PROVE  w[i] \notin Telnet /\ (w[i] \in Letters => i < k + n)
    <3>1. CASE i <= k
      <4>1. i \in 1 .. k /\ w[i] \in Letters /\ i < k + n
        BY <2>1, <2>2, <2>4, <2>5, <3>1
      <4> QED
        BY <4>1, ByteKinds
    <3>2. CASE i > k
      <4>1. i - k \in 1 .. n /\ k + (i - k) = i
        BY <3>2
      <4>2. w[i] \in {CR, LF}
        BY <2>4, <2>5, <4>1
      <4> QED
        BY <4>2, ByteKinds
    <3> QED
      BY <3>1, <3>2
  <2>7. Chained(w)
    BY <2>4, <2>6, ByteKinds DEF Chained
  <2>8. Starts(w)
    <3>1. 1 \in 1 .. k + n
      BY <2>5
    <3> QED
      BY <2>6, <3>1, ByteKinds DEF Starts
  <2> QED
    BY <2>3, <2>7, <2>8
<1>2. Chained(Request) /\ Starts(Request)
  BY RequestShape, ByteKinds DEF Chained, Starts
<1>3. Chained(Break) /\ Starts(Break)
  BY RequestShape, ByteKinds DEF Chained, Starts
<1> QED
  BY <1>1, <1>2, <1>3 DEF Requests

\* The first k bytes of what has arrived, and the rest of all
Divided(a, w, k) ==
  /\ Ahead(a, w) = SubSeq(a, 1, k) \o Ahead(SubSeq(a, k + 1, Len(a)), w)
  /\ SubSeq(a, 1, k) \in Seq(Bytes) /\ Ahead(SubSeq(a, k + 1, Len(a)), w) \in Seq(Bytes)

LEMMA AheadDivided ==
  ASSUME NEW a \in Seq(Bytes), NEW w \in Seq(Seq(Bytes)), NEW k \in 0 .. Len(a)
  PROVE  Divided(a, w, k)
<1>1. PICK h, t, c : h = SubSeq(a, 1, k) /\ t = SubSeq(a, k + 1, Len(a)) /\ c = FlattenSeq(w)
  OBVIOUS
<1>2. h \in Seq(Bytes) /\ t \in Seq(Bytes) /\ a = h \o t
  BY <1>1, SplitAt
<1>3. c \in Seq(Bytes)
  BY <1>1, FlattenType
<1>4. (h \o t) \o c = h \o (t \o c)
  <2>1. Associative(h, t, c)
    BY <1>2, <1>3, SeqAssociative
  <2> QED
    BY <2>1 DEF Associative
<1>5. t \o c \in Seq(Bytes)
  BY <1>2, <1>3, ConcatProperties
<1> QED
  BY <1>1, <1>2, <1>4, <1>5 DEF Divided, Ahead

LEMMA AheadBytes ==
  ASSUME IType
  PROVE  /\ Ahead(in, wire) \in Seq(Bytes)
         /\ \A i \in 1 .. Len(in) : i \in 1 .. Len(Ahead(in, wire)) /\ Ahead(in, wire)[i] = in[i]
<1>1. in \in Seq(Bytes) /\ wire \in Seq(Seq(Bytes))
  BY DEF IType, TypeOK
<1>2. PICK w \in Seq(Bytes) : w = FlattenSeq(wire)
  BY <1>1, FlattenType
<1>3. in \o w \in Seq(Bytes) /\ Len(in \o w) = Len(in) + Len(w)
  BY <1>1, ConcatProperties
<1>4. \A i \in 1 .. Len(in) : (in \o w)[i] = in[i]
  BY <1>1, ConcatAt
<1>5. \A i \in 1 .. Len(in) : i \in 1 .. Len(in) + Len(w)
  BY <1>1
<1> QED
  BY <1>2, <1>3, <1>4, <1>5 DEF Ahead

\* What is in front and goes in one step
TakenUpTo(k) == k \in 1 .. Len(in) /\ in' = SubSeq(in, k + 1, Len(in))

\* Only bytes of requests are taken for a request.
LEMMA RequestBytes ==
  ASSUME IType, IText, HandleTelnet
  PROVE  \E k : /\ TakenUpTo(k)
                /\ \A i \in 1 .. k : in[i] \in Telnet
                /\ ~torn' => ~torn /\ in[k] \notin {IAC, "will"}
<1>1. in \in Seq(Bytes) /\ Len(in) \in Nat
  BY DEF IType, TypeOK
<1>2. /\ HasReq /\ in' = SubSeq(in, ReqLen + 1, Len(in))
      /\ torn' = (torn \/ in = <<IAC, "will">>)
  BY DEF HandleTelnet
<1>3. Len(in) >= 2 /\ in[1] = IAC
  BY <1>2 DEF HasReq
<1>4. PICK b : b = Ahead(in, wire)
  OBVIOUS
<1>5. \A i \in 1 .. Len(in) : i \in 1 .. Len(b) /\ b[i] = in[i]
  BY <1>4, AheadBytes
<1>6. Chained(b)
  BY <1>4 DEF IText
<1>7. 1 \in 1 .. Len(in) /\ 2 \in 1 .. Len(in)
  BY <1>1, <1>3
<1>8. in[2] \in {"will", "brk"}
  <2>1. b[1] = IAC => b[1 + 1] \in {"will", "brk"}
    BY <1>5, <1>6, <1>7 DEF Chained
  <2> QED
    BY <1>3, <1>5, <1>7, <2>1
<1>9. CASE in[2] = "will" /\ Len(in) >= 3
  <2>1. 3 \in 1 .. Len(in)
    BY <1>1, <1>9
  <2>2. b[2] = "will" => b[2 + 1] = "opt"
    BY <1>5, <1>6, <1>7 DEF Chained
  <2>3. in[3] = "opt"
    BY <1>5, <1>7, <1>9, <2>1, <2>2
  <2>4. ReqLen = 3
    BY <1>9 DEF ReqLen
  <2>5. TakenUpTo(3)
    BY <1>2, <2>1, <2>4 DEF TakenUpTo
  <2>6. \A i \in 1 .. 3 : in[i] \in Telnet
    <3>1. \A i \in 1 .. 3 : i = 1 \/ i = 2 \/ i = 3
      OBVIOUS
    <3> QED
      BY <1>3, <1>9, <2>3, <3>1 DEF Telnet
  <2>7. ~torn' => ~torn
    BY <1>2
  <2> QED
    BY <2>3, <2>5, <2>6, <2>7, ByteKinds
<1>10. CASE ~ (in[2] = "will" /\ Len(in) >= 3)
  <2>1. ReqLen = 2
    BY <1>10 DEF ReqLen
  <2>2. TakenUpTo(2)
    BY <1>2, <1>7, <2>1 DEF TakenUpTo
  <2>3. \A i \in 1 .. 2 : in[i] \in Telnet
    <3>1. \A i \in 1 .. 2 : i = 1 \/ i = 2
      OBVIOUS
    <3> QED
      BY <1>3, <1>8, <3>1 DEF Telnet
  <2>4. ASSUME ~torn'
        PROVE  ~torn /\ in[2] \notin {IAC, "will"}
    <3>1. ~torn /\ in # <<IAC, "will">>
      BY <1>2, <2>4
    <3>2. in[2] # "will"
      <4> SUFFICES ASSUME in[2] = "will" PROVE FALSE
        OBVIOUS
      <4>1. Len(in) = 2
        <5>1. PICK m \in Nat : m = Len(in)
          BY <1>1
        <5>2. m >= 2 /\ ~ (m >= 3)
          BY <1>3, <1>10, <5>1
        <5>3. m = 2
          BY <5>2
        <5> QED
          BY <5>1, <5>3
      <4>2. in = <<in[1], in[2]>>
        BY <1>1, <4>1
      <4> QED
        BY <1>3, <3>1, <4>2
    <3> QED
      BY <1>8, <3>1, <3>2, ByteKinds
  <2> QED
    BY <2>2, <2>3, <2>4
<1> QED
  BY <1>9, <1>10

\* Unless a request has been torn, a line that is taken is all text.
LEMMA LineIsText ==
  ASSUME IType, IText, ~torn, ~HasReq, NEW n \in 1 .. Len(in), Taken(n)
  PROVE  line'.bytes \in Seq(Letters)
<1>1. in \in Seq(Bytes) /\ Len(in) \in Nat
  BY DEF IType, TypeOK
<1>2. PICK b : b = Ahead(in, wire)
  OBVIOUS
<1>3. \A i \in 1 .. Len(in) : i \in 1 .. Len(b) /\ b[i] = in[i]
  BY <1>2, AheadBytes
<1>4. Chained(b) /\ Starts(b)
  BY <1>2 DEF IText
<1>5. n - 1 \in Nat /\ \A i \in 1 .. n - 1 : in[i] \in Bytes \ {CR, LF} /\ i \in 1 .. Len(in)
  BY <1>1 DEF Taken
<1> DEFINE Plain == {i \in 0 .. n - 1 : i = 0 \/ in[i] \in Letters}
<1>6. ASSUME NEW i \in 1 .. n - 1, i - 1 \in Plain
      PROVE  i \in Plain
  <2>1. b[i] = in[i] /\ i \in 1 .. Len(b)
    BY <1>3, <1>5
  <2>2. CASE i = 1
    <3>1. Len(in) >= 2
      BY <1>1, <2>2
    <3>2. in[1] # IAC
      BY <3>1 DEF HasReq
    <3>3. in[1] \notin {"will", "opt", "brk"}
      BY <1>4, <2>1, <2>2 DEF Starts
    <3> QED
      BY <1>5, <2>2, <3>2, <3>3, ByteKinds
  <2>3. CASE i # 1
    <3>1. i > 1 /\ i - 1 \in 1 .. n - 1 /\ i - 1 # 0
      BY <2>3
    <3>2. b[i - 1] \in Letters
      BY <1>3, <1>5, <1>6, <3>1
    <3>3. b[i] \notin {IAC, "will", "opt", "brk"}
      BY <1>4, <2>1, <3>1, <3>2, ByteKinds DEF Chained
    <3> QED
      BY <1>5, <2>1, <3>3, ByteKinds
  <2> QED
    BY <2>2, <2>3
<1>7. \A i \in 0 .. n - 1 : i \in Plain
  <2>1. 0 \in Plain
    BY <1>5
  <2> HIDE DEF Plain
  <2> QED
    BY <1>5, <1>6, <2>1, Counting
<1>8. \A i \in 1 .. n - 1 : in[i] \in Letters
  BY <1>7
<1>9. line'.bytes = SubSeq(in, 1, n - 1)
  BY DEF Taken
<1> QED
  BY <1>1, <1>5, <1>8, <1>9

\* A line that is taken is noted, and nothing but it.
LEMMA LineBytes ==
  ASSUME IType, NEW n \in 1 .. Len(in), Taken(n), NEW lines \in Seq(Seq(Bytes))
  PROVE  \E k : /\ TakenUpTo(k) /\ in[k] \in {CR, LF}
                /\ Reads(Blank(lines), SubSeq(in, 1, k),
                         Blank(lines \o Kept(Legible(line'.bytes), Legible(line'.bytes) = <<>>)))
<1>1. in \in Seq(Bytes) /\ Len(in) \in Nat
  BY DEF IType, TypeOK
<1>2. PICK t : t = SubSeq(in, 1, n - 1)
  OBVIOUS
<1>3. t \in Seq(Bytes) /\ \A i \in 1 .. Len(t) : t[i] \notin {CR, LF}
  BY <1>1, <1>2 DEF Taken
<1>4. line'.bytes = t /\ in[n] \in {CR, LF}
  BY <1>2 DEF Taken
<1>5. PICK more : more = lines \o Kept(Legible(t), Legible(t) = <<>>)
  OBVIOUS
<1>6. in[n] \in Bytes
  BY <1>1
<1>7. SubSeq(in, 1, n) = t \o <<in[n]>>
  <2>1. SubSeq(in, 1, n) = Append(t, in[n])
    BY <1>1, <1>2, Shorter
  <2> QED
    BY <1>3, <1>6, <2>1, AppendIsConcat
<1>8. Reads(Blank(lines), SubSeq(in, 1, n), Blank(more))
  <2>1. Reads(Blank(lines), t \o <<in[n]>>, Blank(more))
    BY <1>3, <1>4, <1>5, ReadsLine
  <2> QED
    BY <1>7, <2>1
<1>9. CASE in' = SubSeq(in, n + 1, Len(in))
  BY <1>4, <1>5, <1>8, <1>9 DEF TakenUpTo
<1>10. CASE /\ n < Len(in) /\ in[n + 1] \in {CR, LF} \ {in[n]}
            /\ in' = SubSeq(in, n + 2, Len(in))
  <2>1. n + 1 \in 1 .. Len(in) /\ (n + 1) - 1 = n /\ (n + 1) + 1 = n + 2
    BY <1>1, <1>10
  <2>2. /\ SubSeq(in, 1, n + 1) = Append(SubSeq(in, 1, n), in[n + 1])
        /\ SubSeq(in, 1, n) \in Seq(Bytes) /\ in[n + 1] \in Bytes
    <3>1. /\ SubSeq(in, 1, n + 1) = Append(SubSeq(in, 1, (n + 1) - 1), in[n + 1])
          /\ SubSeq(in, 1, (n + 1) - 1) \in Seq(Bytes)
      BY <1>1, <2>1, Shorter
    <3> QED
      BY <1>1, <2>1, <3>1
  <2>3. SubSeq(in, 1, n + 1) = SubSeq(in, 1, n) \o <<in[n + 1]>> /\ <<in[n + 1]>> \in Seq(Bytes)
    BY <2>2, AppendIsConcat
  <2>4. more \in Seq(Seq(Bytes))
    <3>1. Legible(t) \in Seq(Bytes)
      BY <1>3, <1>6, KeptMore
    <3>2. Kept(Legible(t), Legible(t) = <<>>) \in Seq(Seq(Bytes))
      BY <3>1 DEF Kept
    <3> QED
      BY <1>5, <3>2, ConcatProperties
  <2>5. Reads(Blank(more), <<in[n + 1]>>, Blank(more))
    <3>1. <<>> \in Seq(Bytes) /\ \A i \in 1 .. Len(<<>>) : <<>>[i] \notin {CR, LF}
      OBVIOUS
    <3> QED
      BY <1>10, <2>4, <3>1, ReadsLine
  <2>6. Reads(Blank(lines), SubSeq(in, 1, n) \o <<in[n + 1]>>, Blank(more))
    BY <1>8, <2>2, <2>3, <2>5, ReadsOn
  <2>7. TakenUpTo(n + 1)
    BY <1>10, <2>1 DEF TakenUpTo
  <2> QED
    BY <1>4, <1>5, <1>10, <2>3, <2>6, <2>7
<1> QED
  BY <1>9, <1>10 DEF Taken

\* The lines that are typed and handled, with one more
LEMMA HeardMore ==
  ASSUME NEW s \in Seq(Seq(Bytes)), NEW t \in Seq(Bytes)
  PROVE  /\ Filled(Heard(Append(s, t))) = Filled(Heard(s)) \o Kept(Legible(t), Legible(t) = <<>>)
         /\ Filled(Heard(s)) \in Seq(Seq(Bytes))
<1>1. \A u \in Seq(Bytes) : Legible(u) \in Seq(Bytes)
  <2>1. IAC \in Bytes
    BY DEF Bytes, Telnet
  <2> QED
    BY <2>1, KeptMore
<1>2. \A u \in Seq(Seq(Bytes)) : Heard(u) \in Seq(Seq(Bytes)) /\ Len(Heard(u)) = Len(u)
  <2> TAKE u \in Seq(Seq(Bytes))
  <2>1. DOMAIN u = 1 .. Len(u) /\ Len(u) \in Nat /\ \A i \in DOMAIN u : u[i] \in Seq(Bytes)
    OBVIOUS
  <2>2. PICK n, h : n = Len(u) /\ n \in Nat /\ h = Heard(u)
    BY <2>1
  <2>3. h \in [1 .. n -> Seq(Bytes)]
    BY <1>1, <2>1, <2>2 DEF Heard
  <2>4. h \in Seq(Seq(Bytes))
    <3>1. n \in Nat
      BY <2>2
    <3> QED
      BY <2>3, <3>1, SeqDef
  <2>5. DOMAIN h = 1 .. n /\ DOMAIN h = 1 .. Len(h) /\ Len(h) \in Nat
    BY <2>3, <2>4
  <2>6. Len(h) = n
    BY <2>2, <2>5
  <2> QED
    BY <2>2, <2>4, <2>6
<1>3. PICK v : v = Append(s, t)
  OBVIOUS
<1>4. /\ v \in Seq(Seq(Bytes)) /\ Len(v) = Len(s) + 1 /\ v[Len(s) + 1] = t
      /\ \A i \in 1 .. Len(s) : v[i] = s[i]
      /\ Len(s) \in Nat
  BY <1>3, AppendProperties
<1>5. Heard(v) = Append(Heard(s), Legible(t))
  <2>1. Heard(v)[Len(s) + 1] = Legible(t)
    BY <1>4 DEF Heard
  <2>2. \A i \in 1 .. Len(s) : Heard(v)[i] = Heard(s)[i]
    BY <1>4 DEF Heard
  <2>3. Heard(v) \in Seq(Seq(Bytes)) /\ Heard(s) \in Seq(Seq(Bytes))
        /\ Len(Heard(v)) = Len(s) + 1 /\ Len(Heard(s)) = Len(s)
    BY <1>2, <1>4
  <2> QED
    BY <1>1, <2>1, <2>2, <2>3, IsAppend
<1>6. Heard(s) \in Seq(Seq(Bytes)) /\ Legible(t) \in Seq(Bytes)
  BY <1>1, <1>2
<1> QED
  BY <1>3, <1>5, <1>6, KeptMore

LEMMA TextStep ==
  ASSUME IType, IText, [Next]_vars
  PROVE  IText'
<1>1. /\ in \in Seq(Bytes) /\ wire \in Seq(Seq(Bytes)) /\ handled \in Seq(Seq(Bytes))
      /\ typed \in Seq(Text) /\ end \in Ends
  BY DEF IType, TypeOK
<1>2. PICK b : b = Ahead(in, wire)
  OBVIOUS
<1>3. b \in Seq(Bytes) /\ Chained(b) /\ (~torn => Starts(b))
  BY <1>2, AheadBytes DEF IText
<1>4. PICK done : done = Filled(Heard(handled))
  OBVIOUS
<1>5. done \in Seq(Seq(Bytes))
  BY <1>1, <1>4, EmptySeq, HeardMore
<1>6. PICK all : all = Filled(typed)
  OBVIOUS
<1>7. Reads(Blank(done), b, Blank(all))
  BY <1>2, <1>4, <1>6 DEF IText
<1>8. typed \in Seq(Seq(Bytes)) /\ all \in Seq(Seq(Bytes))
  <2>1. Text \subseteq Seq(Bytes)
    BY UnitTypes
  <2>2. typed \in Seq(Seq(Bytes))
    BY <1>1, <2>1, SeqMonotonic
  <2>3. <<>> \in Seq(Bytes)
    OBVIOUS
  <2> QED
    BY <1>6, <2>2, <2>3, KeptMore
\* The client sends a unit.
<1>9. ASSUME NEW u \in Seq(Bytes), Send(u), Chained(u), Starts(u)
      PROVE  /\ Ahead(in', wire') = b \o u
             /\ Chained(Ahead(in', wire')) /\ (~torn' => Starts(Ahead(in', wire')))
             /\ handled' = handled /\ torn' = torn
  <2>1. in' = in /\ wire' = Append(wire, u) /\ handled' = handled /\ torn' = torn
    BY <1>9 DEF Send
  <2>2. PICK w \in Seq(Bytes) : w = FlattenSeq(wire)
    BY <1>1, FlattenType
  <2>3. FlattenSeq(wire') = w \o u
    BY <1>1, <2>1, <2>2, FlattenAppend
  <2>4. (in \o w) \o u = in \o (w \o u)
    <3>1. Associative(in, w, u)
      BY <1>1, SeqAssociative
    <3> QED
      BY <3>1 DEF Associative
  <2>5. Ahead(in', wire') = b \o u
    BY <1>2, <2>1, <2>2, <2>3, <2>4 DEF Ahead
  <2>6. Chained(b \o u)
    BY <1>3, <1>9, ChainedMore
  <2>7. Starts(b) => Starts(b \o u)
    <3>1. PICK k, n \in Nat : k = Len(b) /\ n = Len(u)
      BY <1>3
    <3>2. /\ Len(b \o u) = k + n
          /\ \A i \in 1 .. k : (b \o u)[i] = b[i]
          /\ \A i \in 1 .. n : (b \o u)[k + i] = u[i]
      BY <1>3, <3>1, ConcatProperties, ConcatAt
    <3>3. CASE k = 0
      <4>1. b \o u = u
        <5>1. b = <<>>
          BY <1>3, <3>1, <3>3, EmptySeq
        <5> QED
          BY <5>1, ConcatEmptySeq
      <4> QED
        BY <1>9, <4>1
    <3>4. CASE k # 0
      <4>1. 1 \in 1 .. k /\ b # <<>> /\ (b \o u)[1] = b[1]
        BY <3>1, <3>2, <3>4
      <4> QED
        BY <4>1 DEF Starts
    <3> QED
      BY <3>3, <3>4
  <2> QED
    BY <1>3, <2>1, <2>5, <2>6, <2>7
<1>10. ASSUME NEW text \in Text, Type(text)
       PROVE  IText'
  <2>1. Send(text \o end) /\ typed' = Append(typed, text)
    BY <1>10 DEF Type
  <2>2. text \o end \in Seq(Bytes) /\ Chained(text \o end) /\ Starts(text \o end)
    BY <1>1, UnitTypes, ConcatProperties, ChainedUnits
  <2>3. /\ Ahead(in', wire') = b \o (text \o end)
        /\ Chained(Ahead(in', wire')) /\ (~torn' => Starts(Ahead(in', wire')))
        /\ handled' = handled /\ torn' = torn
    BY <1>9, <2>1, <2>2
  <2>4. Reads(Blank(all), text \o end, Blank(all \o Kept(text, text = <<>>)))
    BY <1>1, <1>8, ReadsTyped
  <2>5. Filled(typed') = all \o Kept(text, text = <<>>)
    <3>1. text \in Seq(Bytes)
      BY UnitTypes
    <3>2. Filled(Append(typed, text)) = Filled(typed) \o Kept(text, text = <<>>)
      BY <1>8, <3>1, KeptMore
    <3>3. PICK longer : longer = Append(typed, text)
      OBVIOUS
    <3> QED
      BY <1>6, <2>1, <3>2, <3>3
  <2>6. Reads(Blank(done), b \o (text \o end), Blank(Filled(typed')))
    BY <1>3, <1>7, <2>2, <2>4, <2>5, ReadsOn
  <2> QED
    BY <1>4, <2>3, <2>6 DEF IText
<1>11. CASE SendRequest
  <2>1. PICK u \in Requests : Send(u)
    BY <1>11 DEF SendRequest, Requests
  <2>2. typed' = typed
    BY <1>11 DEF SendRequest
  <2>3. u \in Seq(Bytes) /\ Chained(u) /\ Starts(u)
    BY UnitTypes, ChainedUnits DEF Requests
  <2>4. /\ Ahead(in', wire') = b \o u
        /\ Chained(Ahead(in', wire')) /\ (~torn' => Starts(Ahead(in', wire')))
        /\ handled' = handled /\ torn' = torn
    BY <1>9, <2>1, <2>3
  <2>5. Reads(Blank(all), u, Blank(all))
    BY ReadsRequest
  <2>6. Reads(Blank(done), b \o u, Blank(all))
    BY <1>3, <1>7, <2>3, <2>5, ReadsOn
  <2> QED
    BY <1>4, <1>6, <2>2, <2>4, <2>6 DEF IText
<1>12. CASE Read
  <2>1. Ahead(in', wire') = b
    <3>1. PICK k \in 0 .. Len(wire), cut \in 0 .. 2 : Moved(in, wire, k, cut, in', wire')
      BY <1>12, ReadIsMoved
    <3> QED
      BY <1>1, <1>2, <3>1, ReadMoves
  <2>2. typed' = typed /\ handled' = handled /\ torn' = torn
    BY <1>12 DEF Read
  <2> QED
    BY <1>2, <2>1, <2>2 DEF IText
\* The server takes the first k bytes, which read as the lines it acts on.
<1>13. ASSUME NEW k, TakenUpTo(k), wire' = wire, typed' = typed, NEW more,
              Reads(Blank(done), SubSeq(in, 1, k), Blank(more)),
              more = Filled(Heard(handled'))
       PROVE  /\ Reads(Blank(Filled(Heard(handled'))), Ahead(in', wire'), Blank(Filled(typed')))
              /\ Chained(Ahead(in', wire'))
              /\ in[k] \notin {IAC, "will"} => Starts(Ahead(in', wire'))
  <2>1. k \in 1 .. Len(in) /\ k \in 0 .. Len(in) /\ in' = SubSeq(in, k + 1, Len(in))
    BY <1>1, <1>13 DEF TakenUpTo
  <2>2. PICK h, t : h = SubSeq(in, 1, k) /\ t = Ahead(in', wire')
    OBVIOUS
  <2>3. b = h \o t /\ h \in Seq(Bytes) /\ t \in Seq(Bytes)
    <3>1. Divided(in, wire, k)
      BY <1>1, <2>1, AheadDivided
    <3> QED
      BY <1>2, <1>13, <2>1, <2>2, <3>1 DEF Divided
  <2>4. Reads(Blank(more), t, Blank(all))
    <3>1. Reads(Blank(done), h \o t, Blank(all))
      BY <1>7, <2>3
    <3>2. Reads(Blank(done), h, Blank(more))
      BY <1>13, <2>2
    <3> QED
      BY <2>3, <3>1, <3>2, ReadsApart
  <2>5. h # <<>> /\ h[Len(h)] = in[k]
    <3>1. Len(h) = k /\ h[k] = in[k]
      BY <1>1, <2>1, <2>2
    <3> QED
      BY <2>1, <2>3, <3>1
  <2>6. Chained(t) /\ (in[k] \notin {IAC, "will"} => Starts(t))
    BY <1>3, <2>3, <2>5, ChainedRest
  <2> QED
    BY <1>6, <1>13, <2>2, <2>4, <2>6
<1>14. CASE HandleTelnet
  <2>1. wire' = wire /\ typed' = typed /\ handled' = handled
    BY <1>14 DEF HandleTelnet, client
  <2>2. PICK k : /\ TakenUpTo(k)
                 /\ \A i \in 1 .. k : in[i] \in Telnet
                 /\ ~torn' => ~torn /\ in[k] \notin {IAC, "will"}
    BY <1>14, RequestBytes
  <2>3. SubSeq(in, 1, k) \in Seq(Telnet)
    <3>1. k \in 1 .. Len(in)
      BY <2>2 DEF TakenUpTo
    <3> QED
      BY <1>1, <2>2, <3>1
  <2>4. Reads(Blank(done), SubSeq(in, 1, k), Blank(done))
    BY <2>3, ReadsTelnet
  <2>5. /\ Reads(Blank(Filled(Heard(handled'))), Ahead(in', wire'), Blank(Filled(typed')))
        /\ Chained(Ahead(in', wire'))
        /\ in[k] \notin {IAC, "will"} => Starts(Ahead(in', wire'))
    BY <1>4, <1>13, <2>1, <2>2, <2>4
  <2> QED
    BY <2>1, <2>2, <2>5 DEF IText
<1>15. CASE Command \/ Answer \/ Build
  <2>1. TakeLine /\ ~HasReq /\ handled' = Append(handled, line'.bytes)
    BY <1>15 DEF Command, Answer, Build
  <2>2. typed' = typed /\ wire' = wire /\ torn' = torn
    BY <1>15 DEF Command, Answer, Build, client
  <2>3. PICK n \in 1 .. Len(in) : Taken(n)
    BY <1>1, <2>1, TakeLineTakes
  <2>4. PICK t : t = line'.bytes
    OBVIOUS
  <2>5. t \in Seq(Bytes)
    BY <1>1, <2>1, <2>4, TakenTypes
  <2>6. PICK more : more = done \o Kept(Legible(t), Legible(t) = <<>>)
    OBVIOUS
  <2>7. PICK k : /\ TakenUpTo(k) /\ in[k] \in {CR, LF}
                 /\ Reads(Blank(done), SubSeq(in, 1, k), Blank(more))
    BY <1>5, <2>3, <2>4, <2>6, LineBytes
  <2>8. more = Filled(Heard(handled'))
    BY <1>1, <1>4, <2>1, <2>4, <2>5, <2>6, HeardMore
  <2>9. /\ Reads(Blank(Filled(Heard(handled'))), Ahead(in', wire'), Blank(Filled(typed')))
        /\ Chained(Ahead(in', wire'))
        /\ Starts(Ahead(in', wire'))
    BY <1>13, <2>2, <2>7, <2>8, ByteKinds
  <2>10. ASSUME ~torn'
         PROVE  \A i \in DOMAIN handled' : handled'[i] \in Seq(Letters)
    <3>1. t \in Seq(Letters)
      BY <2>1, <2>2, <2>3, <2>4, <2>10, LineIsText
    <3>2. \A i \in DOMAIN handled : handled[i] \in Seq(Letters)
      BY <2>2, <2>10 DEF IText
    <3>3. /\ Len(handled') = Len(handled) + 1 /\ handled'[Len(handled) + 1] = t
          /\ \A i \in 1 .. Len(handled) : handled'[i] = handled[i]
          /\ DOMAIN handled' = 1 .. Len(handled) + 1 /\ DOMAIN handled = 1 .. Len(handled)
          /\ Len(handled) \in Nat
      BY <1>1, <2>1, <2>4, <2>5, AppendProperties
    <3>4. \A i \in 1 .. Len(handled) + 1 : i \in 1 .. Len(handled) \/ i = Len(handled) + 1
      BY <3>3
    <3> QED
      BY <3>1, <3>2, <3>3, <3>4
  <2> QED
    BY <2>9, <2>10 DEF IText
<1>16. CASE HangUp \/ Receive \/ ReadEnd \/ NoInput \/ IdlePoll \/ Received \/ UNCHANGED vars
  <2>1. typed' = typed /\ handled' = handled /\ in' = in /\ wire' = wire /\ torn' = torn
    BY <1>16 DEF HangUp, Receive, ReadEnd, NoInput, IdlePoll, Received, client, vars
  <2> QED
    BY <2>1 DEF IText
<1> QED
  BY <1>10, <1>11, <1>12, <1>14, <1>15, <1>16 DEF Next, Client, Server, Poll

\* Whatever ends a line, and however lines and requests are cut: the lines
\* with text that the server acts on are the first of those typed, in their
\* order and without a byte of a request's that is not skipped; and until a
\* request is taken without its option there is none to skip.
THEOREM TextKeptCorrect == Spec => []TextKept
<1>1. Init => IText
  <2> SUFFICES ASSUME Init PROVE IText
    OBVIOUS
  <2>1. typed = <<>> /\ handled = <<>> /\ in = <<>> /\ wire = <<>>
    BY DEF Init
  <2>2. Ahead(in, wire) = <<>>
    BY <2>1, FlattenEmpty, ConcatEmptySeq DEF Ahead
  <2>3. Heard(handled) = <<>>
    BY <2>1 DEF Heard
  <2>4. Filled(Heard(handled)) = <<>> /\ Filled(typed) = <<>>
    BY <2>1, <2>3, KeptNone
  <2>5. Reads(Blank(<<>>), <<>>, Blank(<<>>))
    BY ReadsNothing
  <2>6. Chained(<<>>) /\ Starts(<<>>)
    BY DEF Chained, Starts
  <2> QED
    BY <2>1, <2>2, <2>4, <2>5, <2>6 DEF IText
<1>2. IType /\ IText => TextKept
  <2> SUFFICES ASSUME IType, IText PROVE TextKept
    OBVIOUS
  <2>1. handled \in Seq(Seq(Bytes)) /\ Ahead(in, wire) \in Seq(Bytes)
    BY AheadBytes DEF IType, TypeOK
  <2>2. PICK done, all : done = Filled(Heard(handled)) /\ all = Filled(typed)
    OBVIOUS
  <2>3. done \in Seq(Seq(Bytes))
    BY <2>1, <2>2, EmptySeq, HeardMore
  <2>4. Reads(Blank(done), Ahead(in, wire), Blank(all))
    BY <2>2 DEF IText
  <2>5. PICK more \in Seq(Seq(Bytes)) : all = done \o more
    <3>1. \E more \in Seq(Seq(Bytes)) : Blank(all).lines = done \o more
      BY <2>1, <2>3, <2>4, ReadsMore
    <3> QED
      BY <3>1 DEF Blank
  <2>6. IsPrefix(done, all)
    <3>1. Len(done) <= Len(all)
      BY <2>3, <2>5, ConcatProperties
    <3>2. SubSeq(all, 1, Len(done)) = SubSeq(done, 1, Len(done))
      <4>1. CASE Len(done) = 0
        BY <4>1, SubSeqEmpty
      <4>2. CASE Len(done) # 0
        <5>1. 1 \in 1 .. Len(done) /\ Len(done) \in 1 .. Len(done)
          BY <2>3, <4>2
        <5> QED
          BY <2>3, <2>5, <5>1, SubSeqOfConcat1
      <4> QED
        BY <4>1, <4>2
    <3> QED
      BY <3>1, <3>2 DEF IsPrefix
  <2>7. ~torn => \A i \in DOMAIN handled : handled[i] = Legible(handled[i])
    BY LegibleText DEF IText
  <2> QED
    BY <2>2, <2>6, <2>7 DEF TextKept, Heard
<1>3. IType /\ IText /\ [Next]_vars => IText'
  BY TextStep
<1> QED
  BY <1>1, <1>2, <1>3, TypeInv, PTL DEF Spec

=============================================================================
