--------------------------- MODULE CommandsProofs ---------------------------
(***************************************************************************)
(* Proofs about Commands: whatever a line says, it calls the command its   *)
(* word is a spelling of, and its arguments name the users whose numbers   *)
(* they hold.                                                              *)
(***************************************************************************)
EXTENDS Commands, Numbers, FiniteSetTheorems, SequenceTheorems

-----------------------------------------------------------------------------
(* Strings: any sequences of characters that are not NUL.                  *)

IsString(s) == s \in Seq({s[i] : i \in 1 .. Len(s)}) /\ \A i \in 1 .. Len(s) : s[i] # NUL

LEMMA StringLen ==
  ASSUME NEW s, IsString(s)
  PROVE  Len(s) \in Nat /\ DOMAIN s = 1 .. Len(s)
BY DEF IsString

LEMMA CharIn ==
  ASSUME NEW s, IsString(s), NEW i \in 1 .. Len(s)
  PROVE  Char(s, i) = s[i] /\ Char(s, i) # NUL
BY DEF IsString, Char

LEMMA CharOut ==
  ASSUME NEW s, NEW i, i \notin 1 .. Len(s)
  PROVE  Char(s, i) = NUL
BY DEF Char

LEMMA LineIsString ==
  ASSUME NEW s \in Seq(Characters)
  PROVE  IsString(s) /\ \A i \in 1 .. Len(s) : Char(s, i) \in Characters
<1>1. NUL \notin Characters
  <2>1. \A d \in 1 .. 10 : Digits[d] \in {"0", "1", "2", "3", "4", "5", "6", "7", "8", "9"}
    BY DEF Digits
  <2>2. NUL \notin IsDigit
    BY <2>1 DEF IsDigit, NUL
  <2>3. NUL \notin IsSpace \cup IsAlpha \cup {Comma, Semicolon}
    BY DEF IsSpace, IsAlpha, NUL, Blank, Comma, Semicolon
  <2> QED
    BY <2>2, <2>3, OthersAssumption DEF Characters
<1>2. s \in Seq({s[i] : i \in 1 .. Len(s)})
  <2>1. PICK n \in Nat : n = Len(s)
    OBVIOUS
  <2>2. s \in [1 .. n -> {s[i] : i \in 1 .. n}]
    BY <2>1
  <2> QED
    BY <2>1, <2>2, SeqDef
<1> QED
  BY <1>1, <1>2 DEF IsString, Char

\* t holds the characters of s from i to j.
IsPart(t, s, i, j) ==
  /\ IsString(t) /\ Len(t) = j - i + 1
  /\ \A k \in Int : Char(t, k) = IF k \in 1 .. j - i + 1 THEN Char(s, k + i - 1) ELSE NUL

LEMMA PartIs ==
  ASSUME NEW s, IsString(s), NEW i \in 1 .. Len(s) + 1, NEW j \in i - 1 .. Len(s)
  PROVE  IsPart(SubSeq(s, i, j), s, i, j)
<1>1. PICK n \in Nat : n = Len(s)
  BY StringLen
<1> DEFINE C == {s[k] : k \in 1 .. Len(s)}
<1>2. PICK t : t = SubSeq(s, i, j)
  OBVIOUS
<1>3. s \in Seq(C)
  BY DEF IsString
<1>4. t \in Seq(C) /\ Len(t) = j - i + 1 /\ \A k \in 1 .. j - i + 1 : t[k] = s[k + i - 1]
  <2> HIDE DEF C
  <2> QED
    BY <1>1, <1>2, <1>3, SMTT(30)
<1>5. PICK m \in Nat : m = Len(t)
  BY <1>1, <1>4
<1>6. t \in Seq({t[k] : k \in 1 .. m})
  <2>1. t \in [1 .. m -> {t[k] : k \in 1 .. m}]
    BY <1>4, <1>5
  <2>2. PICK D : D = {t[k] : k \in 1 .. m}
    OBVIOUS
  <2>3. t \in [1 .. m -> D] /\ m \in Nat
    BY <2>1, <2>2, <1>5
  <2>4. t \in Seq(D)
    BY <2>3, SeqDef
  <2> QED
    BY <2>2, <2>4
<1>7. \A k \in 1 .. m : t[k] = s[k + i - 1] /\ k + i - 1 \in 1 .. n
  BY <1>1, <1>4, <1>5
<1>8. \A k \in 1 .. m : t[k] # NUL
  BY <1>1, <1>7 DEF IsString
<1>9. IsString(t)
  BY <1>5, <1>6, <1>8 DEF IsString
<1>10. \A k \in Int : Char(t, k) = IF k \in 1 .. m THEN Char(s, k + i - 1) ELSE NUL
  BY <1>1, <1>5, <1>7 DEF Char
<1> QED
  BY <1>2, <1>4, <1>5, <1>9, <1>10 DEF IsPart

LEMMA SameString ==
  ASSUME NEW s, NEW t, IsString(s), IsString(t), Len(s) = Len(t),
         \A i \in 1 .. Len(s) : s[i] = t[i]
  PROVE  s = t
<1> DEFINE C == {s[k] : k \in 1 .. Len(s)} \cup {t[k] : k \in 1 .. Len(t)}
<1>1. s \in [1 .. Len(s) -> C] /\ t \in [1 .. Len(s) -> C]
  BY DEF IsString
<1> QED
  BY <1>1

LEMMA Classes ==
  /\ NUL \notin IsDigit \cup IsSpace \cup IsAlpha \cup {Comma, Semicolon, "*"}
  /\ IsDigit \cap (IsSpace \cup IsAlpha \cup {Comma, Semicolon}) = {}
  /\ IsAlpha \cap {Blank, Comma, Semicolon, "*"} = {}
  /\ IsSpace = {Blank} /\ Blank # Comma /\ Blank # Semicolon /\ Comma # Semicolon
<1>1. \A d \in 1 .. 10 : Digits[d] \in {"0", "1", "2", "3", "4", "5", "6", "7", "8", "9"}
  BY DEF Digits
<1>2. IsDigit \subseteq {"0", "1", "2", "3", "4", "5", "6", "7", "8", "9"}
  BY <1>1 DEF IsDigit
<1>3. NUL \notin IsDigit
  BY <1>2 DEF NUL
<1>4. NUL \notin IsSpace \cup IsAlpha \cup {Comma, Semicolon, "*"}
  BY DEF IsSpace, IsAlpha, NUL, Blank, Comma, Semicolon
<1>5. \A c \in IsDigit : c \notin IsSpace \cup IsAlpha \cup {Comma, Semicolon}
  BY <1>2 DEF IsSpace, IsAlpha, Blank, Comma, Semicolon
<1>6. IsAlpha \cap {Blank, Comma, Semicolon, "*"} = {}
  BY DEF IsAlpha, Blank, Comma, Semicolon
<1>7. IsSpace = {Blank} /\ Blank # Comma /\ Blank # Semicolon /\ Comma # Semicolon
  BY DEF IsSpace, Blank, Comma, Semicolon
<1> QED
  BY <1>3, <1>4, <1>5, <1>6, <1>7

-----------------------------------------------------------------------------
(* Where the loops over a class of characters stop.                        *)

StopsAt(s, i, class, j) ==
  j \in i .. Len(s) + 1 /\ Char(s, j) \notin class /\ \A k \in i .. j - 1 : Char(s, k) \in class

\* They stop at the first character that is not of the class: there is one, the
\* NUL at the latest.
LEMMA SpanStops ==
  ASSUME NEW s, IsString(s), NEW i \in 1 .. Len(s) + 1, NEW class, NUL \notin class
  PROVE  StopsAt(s, i, class, Span(s, i, class)) /\ Span(s, i, class) \in Nat
<1>1. PICK n \in Nat : n = Len(s)
  BY StringLen
<1> DEFINE Stops == {k \in i .. n + 1 : Char(s, k) \notin class}
<1>2. n + 1 \in Stops
  BY <1>1, CharOut
<1>3. PICK j \in Stops : \A k \in Stops : j <= k
  <2>1. Stops \in SUBSET Nat
    BY <1>1
  <2> HIDE DEF Stops
  <2> QED
    BY <2>1, <1>2, LeastNumber
<1>4. j \in i .. Len(s) + 1 /\ Char(s, j) \notin class
  BY <1>1, <1>3
<1>5. ASSUME NEW k \in i .. j - 1
      PROVE  Char(s, k) \in class
  BY <1>1, <1>3
<1>6. Span(s, i, class) \in i .. Len(s) + 1 /\ Char(s, Span(s, i, class)) \notin class
      /\ \A k \in i .. Span(s, i, class) - 1 : Char(s, k) \in class
  BY <1>4, <1>5, Zenon DEF Span
<1> QED
  BY <1>1, <1>6 DEF StopsAt

\* Nowhere else
LEMMA SpanIs ==
  ASSUME NEW s, IsString(s), NEW i \in 1 .. Len(s) + 1, NEW class, NUL \notin class,
         NEW j, StopsAt(s, i, class, j)
  PROVE  Span(s, i, class) = j
<1>1. PICK n \in Nat : n = Len(s)
  BY StringLen
<1>2. PICK h \in Nat : h = Span(s, i, class)
  BY SpanStops
<1>3. StopsAt(s, i, class, h)
  BY <1>2, SpanStops
<1>4. h \in Int /\ j \in Int /\ i <= h /\ i <= j
  BY <1>1, <1>2, <1>3 DEF StopsAt
<1>5. ~ (h < j) /\ ~ (j < h)
  BY <1>3, <1>4 DEF StopsAt
<1> QED
  BY <1>2, <1>4, <1>5

-----------------------------------------------------------------------------
(* The vector: cmd_comp accepts what a name spells.                        *)

Places(str, cmd) ==
  CHOOSE at : at = [cx \in 0 .. Len(cmd) |->
        IF cx = 0 THEN 1
        ELSE LET sx == at[cx - 1]
             IN  IF Char(str, sx) = cmd[cx] THEN sx + 1
                 ELSE IF cmd[cx] = "*" THEN sx ELSE 0]

NextPlace(str, c, sx) ==
  IF Char(str, sx) = c THEN sx + 1 ELSE IF c = "*" THEN sx ELSE 0

LEMMA PlacesAre ==
  ASSUME NEW str, NEW cmd, NEW n \in Nat, n = Len(cmd)
  PROVE  /\ Places(str, cmd)[0] = 1
         /\ \A cx \in 1 .. n : Places(str, cmd)[cx] = NextPlace(str, cmd[cx], Places(str, cmd)[cx - 1])
<1>1. PICK g : g = [i \in 1 .. n |-> [sx \in Int |-> NextPlace(str, cmd[i], sx)]]
  OBVIOUS
<1>2. \A i \in 1 .. n, sx \in Int :
        g[i][sx] = NextPlace(str, cmd[i], sx) /\ g[i][sx] \in Int
  BY <1>1 DEF NextPlace
<1>3. g \in [1 .. n -> [Int -> Int]]
  BY <1>1 DEF NextPlace
<1>4. PICK f : Steps(f, n, Int, 1, g)
  <2>1. 1 \in Int
    OBVIOUS
  <2> QED
    BY <1>3, <2>1, Recursion
<1>5. ASSUME NEW i \in 1 .. n
      PROVE  i - 1 \in 0 .. n /\ f[i] = NextPlace(str, cmd[i], f[i - 1])
  <2>1. i - 1 \in 0 .. n
    OBVIOUS
  <2>2. f[i - 1] \in Int /\ f[i] = g[i][f[i - 1]]
    BY <1>4, <2>1 DEF Steps
  <2> QED
    BY <1>2, <2>1, <2>2
<1>6. f = [cx \in 0 .. n |-> IF cx = 0 THEN 1 ELSE NextPlace(str, cmd[cx], f[cx - 1])]
  <2>1. \A cx \in 0 .. n : cx # 0 => cx \in 1 .. n
    OBVIOUS
  <2> QED
    BY <1>4, <1>5, <2>1 DEF Steps
<1>7. PICK at : at = Places(str, cmd)
  OBVIOUS
<1>8. at = [cx \in 0 .. n |-> IF cx = 0 THEN 1 ELSE NextPlace(str, cmd[cx], at[cx - 1])]
  <2>1. \E h : h = [cx \in 0 .. n |-> IF cx = 0 THEN 1 ELSE NextPlace(str, cmd[cx], h[cx - 1])]
    BY <1>6
  <2>2. at = CHOOSE h : h = [cx \in 0 .. n |-> IF cx = 0 THEN 1 ELSE NextPlace(str, cmd[cx], h[cx - 1])]
    BY <1>7 DEF Places, NextPlace
  <2> QED
    BY <2>1, <2>2, Zenon
<1> QED
  BY <1>7, <1>8

LEMMA CompIs ==
  ASSUME NEW str, NEW cmd
  PROVE  cmd_comp(str, cmd) <=>
           \E cx \in 0 .. Len(cmd) :
             Places(str, cmd)[cx] = Len(str) + 1 /\ Char(cmd, cx + 1) \in {NUL, "*"}
BY DEF cmd_comp, Places

LEMMA StrippedIs ==
  ASSUME NEW C, NEW name \in Seq(C), NEW n \in Nat, n = Len(name)
  PROVE  /\ Stripped(name) \in [0 .. n -> Seq(C)] /\ Stripped(name)[0] = <<>>
         /\ \A i \in 1 .. n :
              Stripped(name)[i] = IF name[i] = "*" THEN Stripped(name)[i - 1]
                                  ELSE Append(Stripped(name)[i - 1], name[i])
<1>1. PICK g : g = [i \in 1 .. n |-> [t \in Seq(C) |->
                      IF name[i] = "*" THEN t ELSE Append(t, name[i])]]
  OBVIOUS
<1>2. \A i \in 1 .. n : name[i] \in C
  OBVIOUS
<1>3. g \in [1 .. n -> [Seq(C) -> Seq(C)]]
  BY <1>1, <1>2
<1>4. PICK f : Steps(f, n, Seq(C), <<>>, g)
  <2>1. <<>> \in Seq(C)
    OBVIOUS
  <2> QED
    BY <1>3, <2>1, Recursion
<1>5. ASSUME NEW i \in 1 .. n
      PROVE  i - 1 \in 0 .. n
             /\ f[i] = IF name[i] = "*" THEN f[i - 1] ELSE Append(f[i - 1], name[i])
  <2>1. i - 1 \in 0 .. n
    OBVIOUS
  <2>2. f[i - 1] \in Seq(C) /\ f[i] = g[i][f[i - 1]]
    BY <1>4, <2>1 DEF Steps
  <2> QED
    BY <1>1, <2>1, <2>2
<1>6. f = [i \in 0 .. n |-> IF i = 0 THEN <<>>
                            ELSE IF name[i] = "*" THEN f[i - 1] ELSE Append(f[i - 1], name[i])]
  <2>1. \A i \in 0 .. n : i # 0 => i \in 1 .. n
    OBVIOUS
  <2> QED
    BY <1>4, <1>5, <2>1 DEF Steps
<1>7. PICK strip : strip = Stripped(name)
  OBVIOUS
<1>8. strip = [i \in 0 .. n |-> IF i = 0 THEN <<>>
                 ELSE IF name[i] = "*" THEN strip[i - 1] ELSE Append(strip[i - 1], name[i])]
  <2>1. \E h : h = [i \in 0 .. n |-> IF i = 0 THEN <<>>
                      ELSE IF name[i] = "*" THEN h[i - 1] ELSE Append(h[i - 1], name[i])]
    BY <1>6
  <2>2. strip = CHOOSE h : h = [i \in 0 .. n |-> IF i = 0 THEN <<>>
                      ELSE IF name[i] = "*" THEN h[i - 1] ELSE Append(h[i - 1], name[i])]
    BY <1>7 DEF Stripped
  <2> QED
    BY <2>1, <2>2, Zenon
<1>9. PICK T : T = {i \in 0 .. n : strip[i] \in Seq(C)}
  OBVIOUS
<1>10. 0 \in T
  BY <1>8, <1>9
<1>11. \A i \in 1 .. n : i - 1 \in T => i \in T
  <2> SUFFICES ASSUME NEW i \in 1 .. n, i - 1 \in T PROVE i \in T
    OBVIOUS
  <2>1. i \in 0 .. n /\ i # 0 /\ strip[i - 1] \in Seq(C) /\ name[i] \in C
    BY <1>2, <1>9
  <2>2. strip[i] = IF name[i] = "*" THEN strip[i - 1] ELSE Append(strip[i - 1], name[i])
    BY <1>8, <2>1
  <2>3. strip[i] \in Seq(C)
    BY <2>1, <2>2
  <2> QED
    BY <1>9, <2>1, <2>3
<1>12. \A i \in 0 .. n : strip[i] \in Seq(C)
  BY <1>9, <1>10, <1>11, Counting
<1>13. strip \in [0 .. n -> Seq(C)]
  BY <1>8, <1>12
<1>14. ASSUME NEW i \in 1 .. n
       PROVE  strip[i] = IF name[i] = "*" THEN strip[i - 1] ELSE Append(strip[i - 1], name[i])
  <2>1. i \in 0 .. n /\ i # 0
    OBVIOUS
  <2> QED
    BY <1>8, <2>1
<1>15. strip[0] = <<>>
  BY <1>8
<1> QED
  BY <1>7, <1>13, <1>14, <1>15

\* str begins with t
Opens(str, t) == Len(t) <= Len(str) /\ \A k \in 1 .. Len(t) : str[k] = t[k]

\* After cx characters of the name the loop has passed what they spell, or str does
\* not begin with it.
Passed(str, t, sx) ==
  IF sx = 0 THEN ~ Opens(str, t)
  ELSE sx = Len(t) + 1 /\ Opens(str, t)

LEMMA CompPasses ==
  ASSUME NEW str, IsString(str), NEW C, NUL \notin C, NEW cmd \in Seq(C),
         \A k \in 1 .. Len(str), cx \in 1 .. Len(cmd) : str[k] # "*" \/ cmd[cx] # "*",
         NEW n \in 0 .. Len(cmd)
  PROVE  Passed(str, Stripped(cmd)[n], Places(str, cmd)[n])
<1>1. PICK L, m : L = Len(str) /\ m = Len(cmd)
  OBVIOUS
<1>2. L \in Nat /\ m \in Nat
  BY <1>1, StringLen
<1>3. PICK at, strip : at = Places(str, cmd) /\ strip = Stripped(cmd)
  OBVIOUS
<1>4. at[0] = 1 /\ \A cx \in 1 .. m : at[cx] = NextPlace(str, cmd[cx], at[cx - 1])
  BY <1>1, <1>2, <1>3, PlacesAre
<1>5. /\ strip \in [0 .. m -> Seq(C)] /\ strip[0] = <<>>
      /\ \A i \in 1 .. m : strip[i] = IF cmd[i] = "*" THEN strip[i - 1]
                                      ELSE Append(strip[i - 1], cmd[i])
  BY <1>1, <1>2, <1>3, StrippedIs
<1>6. PICK T : T = {i \in 0 .. m : Passed(str, strip[i], at[i])}
  OBVIOUS
<1>7. 0 \in T
  BY <1>1, <1>2, <1>4, <1>5, <1>6 DEF Passed, Opens
<1>8. ASSUME NEW i \in 1 .. m, i - 1 \in T
      PROVE  i \in T
  <2>1. i - 1 \in 0 .. m /\ i \in 0 .. m /\ Passed(str, strip[i - 1], at[i - 1])
    BY <1>2, <1>6, <1>8
  <2>2. PICK t, sx, c : t = strip[i - 1] /\ sx = at[i - 1] /\ c = cmd[i]
    OBVIOUS
  <2>3. t \in Seq(C) /\ c \in C /\ c # NUL
    BY <1>1, <1>5, <2>1, <2>2
  <2>4. PICK p \in Nat : p = Len(t)
    BY <2>3
  <2>5. strip[i] = (IF c = "*" THEN t ELSE Append(t, c)) /\ at[i] = NextPlace(str, c, sx)
    BY <1>4, <1>5, <2>2
  <2>6. Passed(str, t, sx)
    BY <2>1, <2>2
  <2>7. CASE c = "*"
    <3>1. Char(str, sx) # c
      <4>1. \A k \in 1 .. L : str[k] # "*"
        BY <1>1, <1>2, <2>2, <2>7
      <4> QED
        BY <1>1, <2>3, <2>7, <4>1 DEF Char
    <3>2. at[i] = sx /\ strip[i] = t
      BY <2>5, <2>7, <3>1 DEF NextPlace
    <3> QED
      BY <1>6, <2>1, <2>6, <3>2
  <2>8. CASE c # "*"
    <3>1. PICK u : u = Append(t, c)
      OBVIOUS
    <3>2. Len(u) = p + 1 /\ u[p + 1] = c /\ \A k \in 1 .. p : u[k] = t[k]
      BY <2>3, <2>4, <3>1
    <3>3. Opens(str, u) <=> Opens(str, t) /\ p + 1 <= L /\ str[p + 1] = c
      <4>1. \A k \in 1 .. p + 1 : k = p + 1 \/ k \in 1 .. p
        BY <2>4
      <4>2. p + 1 \in 1 .. p + 1 /\ \A k \in 1 .. p : k \in 1 .. p + 1
        BY <2>4
      <4> QED
        BY <1>1, <1>2, <2>4, <3>2, <4>1, <4>2 DEF Opens
    <3>4. at[i] = IF Char(str, sx) = c THEN sx + 1 ELSE 0
      BY <2>5, <2>8 DEF NextPlace
    <3>5. CASE sx = 0
      <4>1. Char(str, sx) = NUL
        BY <1>1, <1>2, <3>5 DEF Char
      <4> QED
        BY <1>6, <2>1, <2>3, <2>5, <2>6, <2>8, <3>1, <3>3, <3>4, <3>5, <4>1 DEF Passed
    <3>6. CASE sx # 0
      <4>1. sx = p + 1 /\ Opens(str, t)
        BY <2>4, <2>6, <3>6 DEF Passed
      <4>2. Char(str, sx) = c <=> p + 1 <= L /\ str[p + 1] = c
        BY <1>1, <1>2, <2>3, <2>4, <4>1 DEF Char
      <4>3. Passed(str, u, at[i])
        BY <2>4, <3>2, <3>3, <3>4, <4>1, <4>2 DEF Passed
      <4> QED
        BY <1>6, <2>1, <2>5, <2>8, <3>1, <4>3
    <3> QED
      BY <3>5, <3>6
  <2> QED
    BY <2>7, <2>8
<1>9. \A i \in 0 .. m : i \in T
  BY <1>2, <1>7, <1>8, Counting
<1> QED
  BY <1>1, <1>3, <1>6, <1>9

\* cmd_comp accepts exactly the spellings of a name.
LEMMA CompSpells ==
  ASSUME NEW str, IsString(str), NEW C, NUL \notin C, NEW cmd \in Seq(C),
         \A k \in 1 .. Len(str), cx \in 1 .. Len(cmd) : str[k] # "*" \/ cmd[cx] # "*"
  PROVE  cmd_comp(str, cmd) <=> str \in Spelt(cmd)
<1>1. PICK at, strip : at = Places(str, cmd) /\ strip = Stripped(cmd)
  OBVIOUS
<1>2. PICK m \in Nat : m = Len(cmd)
  OBVIOUS
<1>3. ASSUME NEW n \in 0 .. m
      PROVE  at[n] = Len(str) + 1 <=> strip[n] = str
  <2>1. Passed(str, strip[n], at[n])
    BY <1>1, <1>2, CompPasses
  <2>2. PICK t : t = strip[n]
    OBVIOUS
  <2>3. t \in Seq(C)
    BY <1>1, <1>2, <2>2, StrippedIs
  <2>4. PICK L \in Nat, p \in Nat : L = Len(str) /\ p = Len(t)
    BY <2>3, StringLen
  <2>5. CASE at[n] = L + 1
    <3>1. p = L /\ \A k \in 1 .. L : str[k] = t[k]
      BY <2>1, <2>2, <2>4, <2>5 DEF Passed, Opens
    <3>2. IsString(t)
      <4>1. \A k \in 1 .. p : t[k] # NUL
        BY <2>3, <2>4
      <4>2. PICK D : D = {t[k] : k \in 1 .. p}
        OBVIOUS
      <4>3. t \in [1 .. p -> D]
        BY <2>3, <2>4, <4>2
      <4>4. t \in Seq(D)
        BY <2>4, <4>3, SeqDef
      <4> QED
        BY <2>4, <4>1, <4>2, <4>4 DEF IsString
    <3>3. str = t
      BY <2>4, <3>1, <3>2, SameString
    <3> QED
      BY <2>2, <2>4, <2>5, <3>3
  <2>6. CASE at[n] # L + 1
    <3>1. t # str
      <4> SUFFICES ASSUME t = str PROVE FALSE
        OBVIOUS
      <4>1. Opens(str, t) /\ p = L
        BY <2>4 DEF Opens
      <4> QED
        BY <2>1, <2>2, <2>4, <2>6, <4>1 DEF Passed
    <3> QED
      BY <2>2, <2>4, <2>6, <3>1
  <2> QED
    BY <2>5, <2>6
<1>4. cmd_comp(str, cmd) <=>
        \E n \in 0 .. m : at[n] = Len(str) + 1 /\ Char(cmd, n + 1) \in {NUL, "*"}
  BY <1>1, <1>2, CompIs
<1>5. str \in Spelt(cmd) <=> \E n \in 0 .. m : Char(cmd, n + 1) \in {NUL, "*"} /\ strip[n] = str
  BY <1>1, <1>2 DEF Spelt
<1> QED
  BY <1>3, <1>4, <1>5

\* No command's name is empty: the words and names of the vector are strings.
LEMMA NamesAreStrings ==
  ASSUME NEW ix \in DOMAIN cmdtab
  PROVE  Names[ix] \in Seq(IsAlpha \cup {"*"}) /\ NUL \notin IsAlpha \cup {"*"}
BY TableAssumption, Classes

\* No word is a spelling of two commands: the one it spells is the one it calls.
LEMMA MatchIsNamed ==
  ASSUME NEW str \in Seq(IsAlpha), NEW named,
         named = {ix \in DOMAIN cmdtab : str \in Spellings[ix]}
  PROVE  /\ Cardinality(named) <= 1
         /\ cmd_match(str) = IF named = {} THEN Unknown ELSE cmdtab[CHOOSE ix \in named : TRUE][2]
<1>1. IsString(str) /\ \A k \in 1 .. Len(str) : str[k] # "*"
  <2>1. str \in Seq(Characters)
    <3>1. IsAlpha \subseteq Characters
      BY DEF Characters
    <3>2. PICK n \in Nat : n = Len(str)
      OBVIOUS
    <3>3. str \in [1 .. n -> Characters]
      BY <3>1, <3>2
    <3> QED
      BY <3>2, <3>3, SeqDef
  <2>2. \A k \in 1 .. Len(str) : str[k] \in IsAlpha
    OBVIOUS
  <2> QED
    BY <2>1, <2>2, LineIsString, Classes
<1>2. ASSUME NEW ix \in DOMAIN cmdtab
      PROVE  cmd_comp(str, Names[ix]) <=> str \in Spellings[ix]
  <2>1. PICK C, cmd : C = IsAlpha \cup {"*"} /\ cmd = Names[ix]
    OBVIOUS
  <2>2. cmd \in Seq(C) /\ NUL \notin C
    BY <2>1, NamesAreStrings
  <2>3. cmd_comp(str, cmd) <=> str \in Spelt(cmd)
    BY <1>1, <2>2, CompSpells
  <2>4. Spellings[ix] = Spelt(Names[ix])
    BY DEF Spellings
  <2> QED
    BY <2>1, <2>3, <2>4
<1> DEFINE found == {ix \in DOMAIN cmdtab : cmd_comp(str, Names[ix])}
<1>4. found = named
  BY <1>2
<1>5. cmd_match(str) = IF found = {} THEN Unknown
                       ELSE cmdtab[CHOOSE ix \in found : \A jx \in found : ix <= jx][2]
  BY DEF cmd_match
<1> HIDE DEF found
<1>6. CASE named = {}
  <2>1. Cardinality(named) = 0
    BY <1>6, FS_EmptySet
  <2>2. cmd_match(str) = Unknown
    BY <1>4, <1>5, <1>6
  <2> QED
    BY <1>6, <2>1, <2>2
<1>7. CASE named # {}
  <2>1. PICK ix \in named : TRUE
    BY <1>7
  <2>2. named = {ix}
    <3>1. \A jx \in named : jx = ix
      BY <2>1, TableAssumption
    <3> QED
      BY <2>1, <3>1
  <2>3. Cardinality(named) = 1
    BY <2>2, FS_Singleton
  <2>4. ix \in Nat
    BY <2>1 DEF cmdtab
  <2>5. (CHOOSE jx \in found : \A kx \in found : jx <= kx) = ix
    <3>1. found = {ix} /\ ix <= ix
      BY <1>4, <2>2, <2>4
    <3> QED
      BY <3>1
  <2>6. (CHOOSE jx \in named : TRUE) = ix
    BY <2>2
  <2>7. cmd_match(str) = cmdtab[ix][2]
    BY <1>4, <1>5, <1>7, <2>5
  <2>8. cmd_match(str) = cmdtab[CHOOSE jx \in named : TRUE][2]
    BY <2>6, <2>7
  <2>9. Cardinality(named) <= 1
    BY <2>3
  <2> QED
    BY <1>7, <2>8, <2>9, Zenon
<1> QED
  BY <1>6, <1>7

-----------------------------------------------------------------------------
(* A line: blanks, the word, the rest.                                     *)

LEMMA LineParts ==
  ASSUME NEW s \in Seq(Characters)
  PROVE  /\ Word(s) \in Seq(IsAlpha) /\ IsString(Rest(s))
         /\ Word(s) = <<>> /\ Rest(s) = <<>> <=> \A i \in 1 .. Len(s) : Char(s, i) = Blank
<1>1. IsString(s)
  BY LineIsString
<1>2. PICK n \in Nat : n = Len(s)
  OBVIOUS
<1>3. PICK a \in Nat : a = WordStart(s) /\ StopsAt(s, 1, IsSpace, a)
  <2>1. 1 \in 1 .. Len(s) + 1
    BY <1>2
  <2> QED
    BY <1>1, <2>1, SpanStops, Classes DEF WordStart
<1>4. a \in 1 .. n + 1
  BY <1>2, <1>3 DEF StopsAt
<1>5. PICK b \in Nat : b = WordEnd(s) /\ StopsAt(s, a, IsAlpha, b)
  BY <1>1, <1>2, <1>3, <1>4, SpanStops, Classes DEF WordEnd
<1>6. b \in a .. n + 1
  BY <1>2, <1>5 DEF StopsAt
<1>7. PICK w : w = Word(s)
  OBVIOUS
<1>8. w = SubSeq(s, a, b - 1)
  BY <1>3, <1>5, <1>7 DEF Word
<1>9. IsString(w) /\ Len(w) = b - a /\ \A k \in 1 .. b - a : Char(w, k) = Char(s, k + a - 1)
  <2>1. a \in 1 .. Len(s) + 1 /\ b - 1 \in a - 1 .. Len(s)
    BY <1>2, <1>4, <1>6
  <2> QED
    BY <1>1, <1>4, <1>6, <1>8, <2>1, PartIs DEF IsPart
<1>10. w \in Seq(IsAlpha)
  <2>1. \A k \in 1 .. b - a : w[k] \in IsAlpha
    <3> SUFFICES ASSUME NEW k \in 1 .. b - a PROVE w[k] \in IsAlpha
      OBVIOUS
    <3>1. k + a - 1 \in a .. b - 1 /\ k \in 1 .. Len(w)
      BY <1>4, <1>6, <1>9
    <3>2. Char(w, k) \in IsAlpha
      BY <1>5, <1>9, <3>1 DEF StopsAt
    <3> QED
      BY <1>9, <3>1, <3>2, CharIn
  <2>2. PICK l \in Nat : l = b - a
    BY <1>4, <1>6
  <2>3. w \in [1 .. l -> IsAlpha]
    BY <1>9, <2>1, <2>2 DEF IsString
  <2> QED
    BY <2>2, <2>3, SeqDef
<1>11. PICK r : r = Rest(s)
  OBVIOUS
<1>12. IsString(r) /\ Len(r) = n - b + 1
  <2>1. r = SubSeq(s, b, Len(s))
    BY <1>5, <1>11 DEF Rest, From
  <2>2. b \in 1 .. Len(s) + 1 /\ Len(s) \in b - 1 .. Len(s)
    BY <1>2, <1>4, <1>6
  <2> QED
    BY <1>1, <1>2, <2>1, <2>2, PartIs DEF IsPart
<1>13. w = <<>> /\ r = <<>> <=> a = n + 1
  <2>1. w = <<>> <=> Len(w) = 0
    BY <1>10
  <2>2. r = <<>> <=> Len(r) = 0
    BY <1>12 DEF IsString
  <2> QED
    BY <1>2, <1>4, <1>6, <1>9, <1>12, <2>1, <2>2
<1>14. a = n + 1 <=> \A i \in 1 .. n : Char(s, i) = Blank
  <2>1. ASSUME a = n + 1 PROVE \A i \in 1 .. n : Char(s, i) = Blank
    <3>1. \A k \in 1 .. a - 1 : Char(s, k) \in IsSpace
      BY <1>3 DEF StopsAt
    <3>2. \A k \in 1 .. n : k \in 1 .. a - 1
      BY <1>2, <2>1
    <3> QED
      BY <3>1, <3>2, Classes
  <2>2. ASSUME a # n + 1 PROVE \E i \in 1 .. n : Char(s, i) # Blank
    <3>1. a \in 1 .. n
      BY <1>2, <1>4, <2>2
    <3>2. Char(s, a) # Blank
      BY <1>3, Classes DEF StopsAt
    <3> QED
      BY <3>1, <3>2
  <2> QED
    BY <2>1, <2>2
<1> QED
  BY <1>2, <1>7, <1>10, <1>11, <1>12, <1>13, <1>14

-----------------------------------------------------------------------------
(* The invariant: what has been typed is a line of characters, and a       *)
(* complete one has been taken for what con_command makes of it.           *)

ICall ==
  /\ cp.lead \subseteq cp.who /\ cp.who \subseteq 0 .. Size - 1
  /\ line \in Seq(Characters)
  /\ Complete => call = con_command(cp, line)

THEOREM CallCorrect == Spec => []ICall
<1>1. Init => ICall
  <2> SUFFICES ASSUME Init PROVE ICall
    OBVIOUS
  <2>1. cp.lead \subseteq cp.who /\ cp.who \subseteq 0 .. Size - 1
    BY PresentAssumption DEF Init
  <2>2. line \in Seq(Characters) /\ ~Complete
    BY DEF Init, Complete
  <2> QED
    BY <2>1, <2>2 DEF ICall
<1>2. ICall /\ [Next]_vars => ICall'
  <2> SUFFICES ASSUME ICall, [Next]_vars PROVE ICall'
    OBVIOUS
  <2> USE DEF ICall, Complete
  <2>1. ASSUME NEW c \in IsAlpha \cup IsSpace, TypeWord(c) PROVE ICall'
    <3>1. c \in Characters
      BY DEF Characters
    <3>2. line' \in Seq(Characters)
      BY <2>1, <3>1, AppendProperties DEF TypeWord
    <3> QED
      BY <2>1, <3>2 DEF TypeWord
  <2>2. ASSUME NEW c \in Tokens, TypeArgs(c) PROVE ICall'
    <3>1. c \in Seq(Characters) /\ line' = line \o c
      BY <2>2, TokensAssumption DEF TypeArgs
    <3>2. line' \in Seq(Characters)
      BY <3>1, ConcatProperties
    <3> QED
      BY <2>2, <3>2 DEF TypeArgs
  <2>3. ASSUME Return PROVE ICall'
    <3>1. con_command(cp, line)' = con_command(cp, line)
      BY <2>3 DEF Return
    <3> QED
      BY <2>3, <3>1 DEF Return
  <2>4. ASSUME NextLine PROVE ICall'
    BY <2>4 DEF NextLine
  <2>5. ASSUME UNCHANGED vars PROVE ICall'
    <3>1. con_command(cp, line)' = con_command(cp, line)
      BY <2>5 DEF vars
    <3> QED
      BY <2>5, <3>1 DEF vars
  <2> QED
    BY <2>1, <2>2, <2>3, <2>4, <2>5 DEF Next
<1> QED
  BY <1>1, <1>2, PTL DEF Spec

\* A line calls the one command its word spells; an empty line is IM.
LEMMA DispatchIs ==
  ASSUME NEW con, NEW s \in Seq(Characters), NEW named,
         named = {ix \in DOMAIN cmdtab : Word(s) \in Spellings[ix]}
  PROVE  /\ Cardinality(named) <= 1
         /\ con_command(con, s).entry =
              IF \A i \in 1 .. Len(s) : Char(s, i) = Blank THEN "im"
              ELSE IF named = {} THEN Unknown ELSE cmdtab[CHOOSE ix \in named : TRUE][2]
<1>1. PICK w : w = Word(s)
  OBVIOUS
<1>2. w \in Seq(IsAlpha)
  BY <1>1, LineParts
<1>3. PICK e : e = IF named = {} THEN Unknown ELSE cmdtab[CHOOSE ix \in named : TRUE][2]
  OBVIOUS
<1>4. Cardinality(named) <= 1 /\ cmd_match(w) = e
  <2>1. named = {ix \in DOMAIN cmdtab : w \in Spellings[ix]}
    BY <1>1
  <2> QED
    BY <1>2, <1>3, <2>1, MatchIsNamed
<1>5. con_command(con, s).entry =
        cmd_match(IF Word(s) = <<>> /\ Rest(s) = <<>> THEN <<"i", "m">> ELSE w)
  BY <1>1 DEF con_command
<1>6. CASE \A i \in 1 .. Len(s) : Char(s, i) = Blank
  <2>1. Word(s) = <<>> /\ Rest(s) = <<>>
    BY <1>6, LineParts
  <2>2. con_command(con, s).entry = "im"
    BY <1>5, <2>1, TableAssumption
  <2> QED
    BY <1>4, <1>6, <2>2
<1>7. CASE ~ \A i \in 1 .. Len(s) : Char(s, i) = Blank
  <2>1. ~ (Word(s) = <<>> /\ Rest(s) = <<>>)
    BY <1>7, LineParts
  <2>2. con_command(con, s).entry = e
    BY <1>4, <1>5, <2>1
  <2> QED
    BY <1>3, <1>4, <1>7, <2>2
<1> QED
  BY <1>6, <1>7

\* DispatchExact: whatever the order of the vector, a line calls the one command its
\* word is a spelling of, or none (con_command, cmd_match, cmd_comp).
THEOREM DispatchExactCorrect == Spec => []DispatchExact
<1>1. ICall => DispatchExact
  <2> SUFFICES ASSUME ICall, Complete
               PROVE  LET named == {ix \in DOMAIN cmdtab : Word(line) \in Spellings[ix]}
                      IN  /\ Cardinality(named) <= 1
                          /\ call.entry =
                               IF \A i \in 1 .. Len(line) : Char(line, i) = Blank THEN "im"
                               ELSE IF named = {} THEN Unknown
                               ELSE cmdtab[CHOOSE ix \in named : TRUE][2]
    BY DEF DispatchExact
  <2> DEFINE named == {ix \in DOMAIN cmdtab : Word(line) \in Spellings[ix]}
  <2>1. line \in Seq(Characters) /\ call = con_command(cp, line)
    BY DEF ICall
  <2>2. /\ Cardinality(named) <= 1
        /\ con_command(cp, line).entry =
             IF \A i \in 1 .. Len(line) : Char(line, i) = Blank THEN "im"
             ELSE IF named = {} THEN Unknown ELSE cmdtab[CHOOSE ix \in named : TRUE][2]
    BY <2>1, DispatchIs
  <2> QED
    BY <2>1, <2>2
<1> QED
  BY <1>1, CallCorrect, PTL

-----------------------------------------------------------------------------
(* A list of users, up to its semicolon or its end.                        *)

\* The list in s is its first m characters.
Ends(s, m) ==
  /\ m \in 0 .. Len(s) /\ Char(s, m + 1) \in {NUL, Semicolon}
  /\ \A k \in 1 .. m : Char(s, k) \notin {NUL, Semicolon}

IsBefore(s, m, b) ==
  /\ Ends(s, m) /\ b = SubSeq(s, 1, m) /\ IsString(b) /\ Len(b) = m
  /\ \A k \in Int : Char(b, k) = IF k \in 1 .. m THEN Char(s, k) ELSE NUL

LEMMA BeforeIs ==
  ASSUME NEW s, IsString(s)
  PROVE  \E m \in Nat : IsBefore(s, m, Before(s))
<1>1. PICK n \in Nat : n = Len(s)
  BY StringLen
<1>2. PICK class : class = {Char(s, i) : i \in 1 .. Len(s)} \ {Semicolon}
  OBVIOUS
<1>3. NUL \notin class
  BY <1>2, CharIn
<1>4. PICK j \in Nat : j = Span(s, 1, class) /\ StopsAt(s, 1, class, j)
  <2>1. 1 \in 1 .. Len(s) + 1
    BY <1>1
  <2> QED
    BY <1>3, <2>1, SpanStops
<1>5. j \in 1 .. n + 1 /\ Char(s, j) \notin class /\ \A k \in 1 .. j - 1 : Char(s, k) \in class
  BY <1>1, <1>4 DEF StopsAt
<1>6. PICK m \in Nat : m = j - 1
  BY <1>4, <1>5
<1>7. m + 1 = j /\ m \in 0 .. Len(s)
  BY <1>1, <1>5, <1>6
<1>8. Ends(s, m)
  <2>1. Char(s, m + 1) \in {NUL, Semicolon}
    <3>1. CASE j = n + 1
      <4>1. m + 1 \notin 1 .. Len(s)
        BY <1>1, <1>7, <3>1
      <4> QED
        BY <4>1, CharOut
    <3>2. CASE j # n + 1
      <4>1. j \in 1 .. Len(s)
        BY <1>1, <1>5, <3>2
      <4> QED
        BY <1>2, <1>5, <1>7, <4>1
    <3> QED
      BY <3>1, <3>2
  <2>2. \A k \in 1 .. m : Char(s, k) \notin {NUL, Semicolon}
    BY <1>2, <1>3, <1>5, <1>6
  <2> QED
    BY <1>7, <2>1, <2>2 DEF Ends
<1>9. Before(s) = SubSeq(s, 1, m)
  BY <1>2, <1>4, <1>6 DEF Before
<1>10. PICK b : b = Before(s)
  OBVIOUS
<1>11. /\ IsString(b) /\ Len(b) = m
       /\ \A k \in Int : Char(b, k) = IF k \in 1 .. m THEN Char(s, k) ELSE NUL
  <2>1. 1 \in 1 .. Len(s) + 1 /\ m \in 1 - 1 .. Len(s)
    BY <1>1, <1>7
  <2>2. /\ IsString(b) /\ Len(b) = m - 1 + 1
        /\ \A k \in Int : Char(b, k) = IF k \in 1 .. m - 1 + 1 THEN Char(s, k + 1 - 1) ELSE NUL
    BY <1>9, <1>10, <2>1, PartIs DEF IsPart
  <2>3. m - 1 + 1 = m /\ \A k \in Int : k + 1 - 1 = k
    BY <1>6
  <2> QED
    BY <2>2, <2>3
<1> QED
  BY <1>8, <1>9, <1>10, <1>11 DEF IsBefore

\* No loop over blanks, digits or letters goes past the end of the list.
LEMMA SpanInside ==
  ASSUME NEW s, IsString(s), NEW m \in Nat, Ends(s, m), NEW i \in 1 .. m + 1,
         NEW class, NUL \notin class, Semicolon \notin class
  PROVE  /\ StopsAt(s, i, class, Span(s, i, class))
         /\ Span(s, i, class) \in Nat /\ Span(s, i, class) \in i .. m + 1
<1>1. PICK n \in Nat : n = Len(s)
  BY StringLen
<1>2. PICK b \in Nat : b = m + 1
  OBVIOUS
<1>3. i \in 1 .. n + 1 /\ i \in Nat /\ i <= b /\ b <= n + 1
  <2>1. m \in 0 .. n /\ i \in 1 .. b
    BY <1>1, <1>2 DEF Ends
  <2> QED
    BY <1>2, <2>1
<1>4. PICK j \in Nat : j = Span(s, i, class) /\ StopsAt(s, i, class, j)
  <2>1. i \in 1 .. Len(s) + 1
    BY <1>1, <1>3
  <2> QED
    BY <2>1, SpanStops
<1>5. j \in i .. n + 1 /\ \A k \in i .. j - 1 : Char(s, k) \in class
  BY <1>1, <1>4 DEF StopsAt
<1>6. ~ (b < j)
  <2>1. b < j => b \in i .. j - 1
    BY <1>3
  <2>2. Char(s, b) \notin class
    BY <1>2 DEF Ends
  <2> QED
    BY <1>5, <2>1, <2>2
<1>7. j \in i .. b
  BY <1>3, <1>5, <1>6
<1> QED
  BY <1>2, <1>4, <1>7

\* The items of a list: where the number at i begins and ends, its value and the
\* separator behind it, and where the next item begins
Begin(s, i) == Span(s, i, IsSpace)
End(s, i) == Span(s, Begin(s, i), IsDigit)
Value(s, i) == Number(SubSeq(s, Begin(s, i), End(s, i) - 1))
Separator(s, i) == Char(s, End(s, i))
NextItem(s, i) == IF Separator(s, i) \in {NUL, Semicolon} THEN End(s, i) ELSE End(s, i) + 1
Bad(con, s, i) ==
  Separator(s, i) \notin {Blank, Comma, Semicolon, NUL} \/ Value(s, i) \notin con.who

Lists(con, s) ==
  CHOOSE list : list = [i \in 1 .. Len(s) + 1 |->
        IF Char(s, i) \in {NUL, Semicolon} THEN {}
        ELSE LET first == Span(s, i, IsSpace)
                 last == Span(s, first, IsDigit)
                 val == Number(SubSeq(s, first, last - 1))
                 sep == Char(s, last)
             IN  IF sep \notin {Blank, Comma, Semicolon, NUL} \/ val \notin con.who THEN {Refused}
                 ELSE {val} \cup list[IF sep \in {NUL, Semicolon} THEN last ELSE last + 1]]

LEMMA ArgmapIs ==
  ASSUME NEW con, NEW s
  PROVE  cmd_argmap(con, s) =
           IF cmd_isok(s) THEN Lists(con, s)[Span(s, 1, IsSpace)] ELSE {Refused}
BY DEF cmd_argmap, Lists

ListFrom(con, s, i, list) ==
  IF Char(s, i) \in {NUL, Semicolon} THEN {}
  ELSE IF Bad(con, s, i) THEN {Refused}
  ELSE {Value(s, i)} \cup list[NextItem(s, i)]

LEMMA ListsAre ==
  ASSUME NEW con, NEW s, IsString(s), NEW i \in 1 .. Len(s) + 1
  PROVE  Lists(con, s)[i] = ListFrom(con, s, i, Lists(con, s))
<1>1. PICK n \in Nat : n = Len(s) + 1
  BY StringLen
<1>2. PICK halt : halt = {k \in 1 .. n : Char(s, k) \in {NUL, Semicolon} \/ Bad(con, s, k)}
  OBVIOUS
<1>3. PICK a : a = [k \in 1 .. n |-> IF Char(s, k) \in {NUL, Semicolon} THEN {}
                                     ELSE IF Bad(con, s, k) THEN {Refused}
                                     ELSE {Value(s, k)}]
  OBVIOUS
<1>4. PICK next : next = [k \in 1 .. n |-> NextItem(s, k)]
  OBVIOUS
<1>5. ASSUME NEW k \in 1 .. n, k \notin halt
      PROVE  next[k] \in k + 1 .. n
  <2>1. Char(s, k) \notin {NUL, Semicolon}
    BY <1>2, <1>5
  <2>2. k \in 1 .. Len(s) + 1
    BY <1>1
  <2>3. PICK f \in Nat : f = Begin(s, k) /\ StopsAt(s, k, IsSpace, f)
    BY <2>2, SpanStops, Classes DEF Begin
  <2>4. f \in 1 .. Len(s) + 1 /\ f \in k .. n
    BY <1>1, <2>3 DEF StopsAt
  <2>5. PICK l \in Nat : l = End(s, k) /\ StopsAt(s, f, IsDigit, l)
    BY <2>3, <2>4, SpanStops, Classes DEF End
  <2>6. l \in f .. n
    BY <1>1, <2>5 DEF StopsAt
  <2>7. next[k] = IF Char(s, l) \in {NUL, Semicolon} THEN l ELSE l + 1
    BY <1>4, <2>5 DEF NextItem, Separator
  <2>8. CASE Char(s, l) \in {NUL, Semicolon}
    <3>1. l # k /\ next[k] = l
      BY <2>1, <2>7, <2>8
    <3>2. k \in Nat /\ k <= f /\ f <= l /\ l <= n
      BY <2>4, <2>6
    <3>3. l \in k + 1 .. n
      BY <2>5, <3>1, <3>2
    <3> QED
      BY <3>1, <3>3
  <2>9. CASE Char(s, l) \notin {NUL, Semicolon}
    <3>1. l # n
      <4>1. n \notin 1 .. Len(s)
        BY <1>1
      <4> QED
        BY <2>9, <4>1, CharOut
    <3>2. k \in Nat /\ k <= f /\ f <= l /\ l <= n
      BY <2>4, <2>6
    <3>3. l + 1 \in k + 1 .. n
      BY <2>5, <3>1, <3>2
    <3> QED
      BY <2>7, <2>9, <3>3
  <2> QED
    BY <2>8, <2>9
<1>6. PICK f : f = [k \in 1 .. n |-> f[k]] /\ Gathers(f, n, 1, halt, a, next)
  BY <1>5, Gathering
<1> DEFINE Item(k, list) ==
             IF Char(s, k) \in {NUL, Semicolon} THEN {}
             ELSE IF Bad(con, s, k) THEN {Refused}
             ELSE {Value(s, k)} \cup list[NextItem(s, k)]
<1>7. \A k \in 1 .. n : f[k] = Item(k, f)
  <2> SUFFICES ASSUME NEW k \in 1 .. n PROVE f[k] = Item(k, f)
    OBVIOUS
  <2>1. f[k] = IF k \in halt THEN a[k] ELSE a[k] \cup f[next[k]]
    BY <1>6 DEF Gathers
  <2> QED
    BY <1>2, <1>3, <1>4, <2>1
<1>8. f = [k \in 1 .. n |-> Item(k, f)]
  <2> HIDE DEF Item
  <2> QED
    BY <1>6, <1>7
<1>9. PICK list : list = Lists(con, s)
  OBVIOUS
<1>10. list = [k \in 1 .. n |-> Item(k, list)]
  <2>1. list = CHOOSE g : g = [k \in 1 .. n |-> Item(k, g)]
    BY <1>1, <1>9 DEF Lists, Bad, Value, Separator, NextItem, Begin, End
  <2> HIDE DEF Item
  <2> QED
    BY <1>8, <2>1
<1>11. list[i] = Item(i, list)
  <2>1. i \in 1 .. n
    BY <1>1
  <2> HIDE DEF Item
  <2> QED
    BY <1>10, <2>1
<1> QED
  BY <1>9, <1>11 DEF ListFrom

\* What the first m characters of s mean from i on: a number, all of it; whether a
\* separator stands where a number was due; the users meant; and no other characters
IsRun(s, p, q) ==
  /\ p <= q /\ \A k \in p .. q : Char(s, k) \in IsDigit
  /\ Char(s, p - 1) \notin IsDigit /\ Char(s, q + 1) \notin IsDigit

Numbered(s, m, i, x) ==
  \E p \in i .. m, q \in i .. m : IsRun(s, p, q) /\ x = Number(SubSeq(s, p, q))

StrayIn(s, m, i) ==
  \/ \E j \in i .. m : Char(s, j) = Comma /\ Unled(s, j)
  \/ i <= m /\ Char(s, m) = Blank /\ Unled(s, m)

MeantIn(s, m, i, x) == Numbered(s, m, i, x) \/ (x = 0 /\ StrayIn(s, m, i))

Legal(s, m, i) == \A k \in i .. m : Char(s, k) \in IsDigit \cup {Blank, Comma}

\* How an item lies in s: blanks, digits, and what ends them
IsItem(s, m, i, f, l, next) ==
  /\ f \in i .. m + 1 /\ l \in f .. m + 1
  /\ \A k \in i .. f - 1 : Char(s, k) = Blank
  /\ Char(s, f) # Blank
  /\ \A k \in f .. l - 1 : Char(s, k) \in IsDigit
  /\ Char(s, l) \notin IsDigit
  /\ next = IF l = m + 1 THEN l ELSE l + 1

LEMMA ItemIs ==
  ASSUME NEW s, IsString(s), NEW m \in Nat, Ends(s, m), NEW i \in 1 .. m
  PROVE  /\ IsItem(s, m, i, Begin(s, i), End(s, i), NextItem(s, i))
         /\ NextItem(s, i) \in i + 1 .. m + 1
         /\ End(s, i) = m + 1 <=> Separator(s, i) \in {NUL, Semicolon}
<1>1. NUL \notin IsSpace /\ Semicolon \notin IsSpace /\ NUL \notin IsDigit /\ Semicolon \notin IsDigit
  BY Classes
<1>2. PICK f \in Nat : f = Begin(s, i) /\ StopsAt(s, i, IsSpace, f) /\ f \in i .. m + 1
  <2>1. i \in 1 .. m + 1
    OBVIOUS
  <2> QED
    BY <1>1, <2>1, SpanInside DEF Begin
<1>3. PICK l \in Nat : l = End(s, i) /\ StopsAt(s, f, IsDigit, l) /\ l \in f .. m + 1
  <2>1. f \in 1 .. m + 1
    BY <1>2
  <2> QED
    BY <1>1, <1>2, <2>1, SpanInside DEF End
<1>4. Char(s, f) # Blank /\ \A k \in i .. f - 1 : Char(s, k) = Blank
  BY <1>2, Classes DEF StopsAt
<1>5. Char(s, l) \notin IsDigit /\ \A k \in f .. l - 1 : Char(s, k) \in IsDigit
  BY <1>3 DEF StopsAt
<1>6. l = m + 1 <=> Char(s, l) \in {NUL, Semicolon}
  <2>1. l # m + 1 => l \in 1 .. m
    BY <1>2, <1>3
  <2> QED
    BY <2>1 DEF Ends
<1>7. PICK next : next = NextItem(s, i)
  OBVIOUS
<1>8. next = IF l = m + 1 THEN l ELSE l + 1
  BY <1>3, <1>6, <1>7 DEF NextItem, Separator
<1>9. IsItem(s, m, i, f, l, next)
  BY <1>2, <1>3, <1>4, <1>5, <1>8 DEF IsItem
<1>10. next \in i + 1 .. m + 1
  <2>1. i <= f /\ f <= l /\ l <= m + 1 /\ i < m + 1
    BY <1>2, <1>3
  <2> QED
    BY <1>8, <2>1
<1> QED
  BY <1>2, <1>3, <1>6, <1>7, <1>9, <1>10 DEF Separator

\* The digits of an item are a number.
LEMMA ItemRun ==
  ASSUME NEW s, NEW m \in Nat, NEW i \in 1 .. m, NEW f, NEW l, NEW next,
         IsItem(s, m, i, f, l, next), Char(s, i - 1) \notin IsDigit,
         f < l
  PROVE  f \in i .. m /\ l - 1 \in i .. m /\ IsRun(s, f, l - 1)
<1>1. /\ f \in Nat /\ l \in Nat /\ i <= f /\ f <= l /\ l <= m + 1
      /\ next = IF l = m + 1 THEN l ELSE l + 1
  BY DEF IsItem
<1>2. next \in Nat /\ i <= next /\ l <= next
  BY <1>1
<1>3. f \in i .. m /\ l - 1 \in i .. m /\ f <= l - 1 /\ (l - 1) + 1 = l
  BY <1>1
<1>4. Char(s, f - 1) \notin IsDigit
  <2>1. CASE f = i
    BY <2>1
  <2>2. CASE f # i
    <3>1. f - 1 \in i .. f - 1
      BY <1>1, <2>2
    <3>2. Char(s, f - 1) = Blank
      BY <3>1 DEF IsItem
    <3> QED
      BY <3>2, Classes
  <2> QED
    BY <2>1, <2>2
<1>5. Char(s, l) \notin IsDigit /\ \A k \in f .. l - 1 : Char(s, k) \in IsDigit
  BY DEF IsItem
<1> QED
  BY <1>3, <1>4, <1>5 DEF IsRun

\* Every other number is in a later item.
LEMMA LaterRun ==
  ASSUME NEW s, NEW m \in Nat, NEW i \in 1 .. m, NEW f, NEW l, NEW next,
         IsItem(s, m, i, f, l, next), Char(s, i - 1) \notin IsDigit,
         NEW p \in i .. m, NEW q \in i .. m, IsRun(s, p, q)
  PROVE  (p = f /\ q = l - 1 /\ f < l) \/ (p \in next .. m /\ q \in next .. m)
<1>1. /\ f \in Nat /\ l \in Nat /\ i <= f /\ f <= l /\ l <= m + 1
      /\ next = IF l = m + 1 THEN l ELSE l + 1
  BY DEF IsItem
<1>2. next \in Nat /\ i <= next /\ l <= next
  BY <1>1
<1>3. /\ p \in Nat /\ q \in Nat /\ p <= q /\ q <= m
      /\ \A k \in p .. q : Char(s, k) \in IsDigit
      /\ Char(s, p - 1) \notin IsDigit /\ Char(s, q + 1) \notin IsDigit
  BY DEF IsRun
<1>4. f <= p
  <2> SUFFICES ASSUME p < f PROVE FALSE
    BY <1>1, <1>3
  <2>1. p \in i .. f - 1 /\ p \in p .. q
    BY <1>1, <1>3
  <2>2. Char(s, p) = Blank
    BY <2>1 DEF IsItem
  <2> QED
    BY <1>3, <2>1, <2>2, Classes
<1>5. p = f \/ l <= p
  <2> SUFFICES ASSUME f < p, p < l PROVE FALSE
    BY <1>1, <1>3, <1>4
  <2>1. p - 1 \in f .. l - 1
    BY <1>1, <1>3
  <2> QED
    BY <1>3, <2>1 DEF IsItem
<1>6. p # l
  <2>1. p \in p .. q
    BY <1>3
  <2> QED
    BY <1>3, <2>1 DEF IsItem
<1>7. CASE p = f
  <2>1. f < l
    BY <1>1, <1>6, <1>7
  <2>2. ~ (l - 1 < q)
    <3>1. l - 1 < q => l \in p .. q
      BY <1>1, <1>3, <1>7
    <3> QED
      BY <1>3, <3>1 DEF IsItem
  <2>3. ~ (q < l - 1)
    <3>1. q < l - 1 => q + 1 \in f .. l - 1
      BY <1>1, <1>3, <1>7
    <3> QED
      BY <1>3, <3>1 DEF IsItem
  <2>4. q = l - 1
    BY <1>1, <1>3, <2>2, <2>3
  <2> QED
    BY <1>7, <2>1, <2>4
<1>8. CASE p # f
  <2>1. l < p
    BY <1>1, <1>3, <1>5, <1>6, <1>8
  <2> QED
    BY <1>1, <1>3, <2>1
<1> QED
  BY <1>7, <1>8

\* The numbers from i on are the item's, if it has one, and those from the next on.
LEMMA NextNumbers ==
  ASSUME NEW s, NEW m \in Nat, NEW i \in 1 .. m, NEW f, NEW l, NEW next,
         IsItem(s, m, i, f, l, next), Char(s, i - 1) \notin IsDigit,
         NEW x
  PROVE  Numbered(s, m, i, x) <=>
           (f < l /\ x = Number(SubSeq(s, f, l - 1))) \/ Numbered(s, m, next, x)
<1>1. /\ f \in Nat /\ l \in Nat /\ i <= f /\ f <= l /\ l <= m + 1
      /\ next = IF l = m + 1 THEN l ELSE l + 1
  BY DEF IsItem
<1>2. next \in Nat /\ i <= next /\ l <= next
  BY <1>1
<1>3. ASSUME f < l PROVE f \in i .. m /\ l - 1 \in i .. m /\ IsRun(s, f, l - 1)
  BY <1>3, ItemRun
<1>4. ASSUME NEW p \in i .. m, NEW q \in i .. m, IsRun(s, p, q)
      PROVE  (p = f /\ q = l - 1 /\ f < l) \/ (p \in next .. m /\ q \in next .. m)
  BY <1>4, LaterRun
<1>5. ASSUME Numbered(s, m, i, x)
      PROVE  (f < l /\ x = Number(SubSeq(s, f, l - 1))) \/ Numbered(s, m, next, x)
  <2>1. PICK p \in i .. m, q \in i .. m : IsRun(s, p, q) /\ x = Number(SubSeq(s, p, q))
    BY <1>5 DEF Numbered
  <2>2. CASE p = f /\ q = l - 1 /\ f < l
    BY <2>1, <2>2
  <2>3. CASE p \in next .. m /\ q \in next .. m
    BY <2>1, <2>3 DEF Numbered
  <2> QED
    BY <1>4, <2>1, <2>2, <2>3
<1>6. ASSUME f < l, x = Number(SubSeq(s, f, l - 1)) PROVE Numbered(s, m, i, x)
  BY <1>3, <1>6 DEF Numbered
<1>7. ASSUME Numbered(s, m, next, x) PROVE Numbered(s, m, i, x)
  <2>1. PICK p \in next .. m, q \in next .. m : IsRun(s, p, q) /\ x = Number(SubSeq(s, p, q))
    BY <1>7 DEF Numbered
  <2>2. p \in i .. m /\ q \in i .. m
    BY <1>2
  <2> QED
    BY <2>1, <2>2 DEF Numbered
<1> QED
  BY <1>5, <1>6, <1>7

\* Behind a number the separators that stray are those of the rest.
LEMMA StrayLater ==
  ASSUME NEW s, NEW m \in Nat, NEW i \in 1 .. m, NEW f, NEW l, NEW next,
         IsItem(s, m, i, f, l, next), f < l
  PROVE  StrayIn(s, m, i) <=> StrayIn(s, m, next)
<1>1. /\ f \in Nat /\ l \in Nat /\ i <= f /\ f <= l /\ l <= m + 1
      /\ next = IF l = m + 1 THEN l ELSE l + 1
  BY DEF IsItem
<1>2. next \in Nat /\ i <= next
  BY <1>1
<1>3. Char(s, l - 1) \in IsDigit
  <2>1. l - 1 \in f .. l - 1
    BY <1>1
  <2> QED
    BY <2>1 DEF IsItem
<1>4. ASSUME NEW j \in i .. m, Char(s, j) \notin IsDigit \cup {Blank} \/ j = m, Char(s, j) \notin IsDigit,
             Unled(s, j)
      PROVE  j \in next .. m
  <2>1. ~ (f <= j /\ j < l)
    <3>1. f <= j /\ j < l => j \in f .. l - 1
      BY <1>1
    <3> QED
      BY <1>4, <3>1 DEF IsItem
  <2>2. ~ (j < f)
    <3>1. j < f => j \in i .. f - 1 /\ j # m
      BY <1>1
    <3>2. j < f => Char(s, j) = Blank
      BY <3>1 DEF IsItem
    <3> QED
      BY <1>4, <3>1, <3>2
  <2>3. j # l
    BY <1>3, <1>4 DEF Unled
  <2> QED
    BY <1>1, <2>1, <2>2, <2>3
<1>5. Comma \notin IsDigit \cup {Blank} /\ Blank \notin IsDigit
  BY Classes
<1>6. ASSUME StrayIn(s, m, i) PROVE StrayIn(s, m, next)
  <2>1. CASE \E j \in i .. m : Char(s, j) = Comma /\ Unled(s, j)
    <3>1. PICK j \in i .. m : Char(s, j) = Comma /\ Unled(s, j)
      BY <2>1
    <3>2. j \in next .. m
      BY <1>4, <1>5, <3>1
    <3> QED
      BY <3>1, <3>2 DEF StrayIn
  <2>2. CASE i <= m /\ Char(s, m) = Blank /\ Unled(s, m)
    <3>1. m \in i .. m
      BY <1>1
    <3>2. m \in next .. m
      BY <1>4, <1>5, <2>2, <3>1
    <3>3. next <= m
      BY <1>2, <3>2
    <3> QED
      BY <2>2, <3>3 DEF StrayIn
  <2> QED
    BY <1>6, <2>1, <2>2 DEF StrayIn
<1>7. ASSUME StrayIn(s, m, next) PROVE StrayIn(s, m, i)
  <2>1. \A j \in next .. m : j \in i .. m
    BY <1>2
  <2>2. i <= m
    OBVIOUS
  <2> QED
    BY <1>7, <2>1, <2>2 DEF StrayIn
<1> QED
  BY <1>6, <1>7

\* An item without digits has a separator that strays.
LEMMA StrayHere ==
  ASSUME NEW s, NEW m \in Nat, Ends(s, m), NEW i \in 1 .. m, NEW f, NEW l, NEW next,
         IsItem(s, m, i, f, l, next), Char(s, i - 1) \notin IsDigit, f = l,
         Char(s, l) \in {Blank, Comma, Semicolon, NUL}
  PROVE  StrayIn(s, m, i)
<1>1. f \in Nat /\ i <= f /\ f <= m + 1 /\ l = f
  BY DEF IsItem
<1>2. ASSUME NEW k \in i .. m, k <= f PROVE Unled(s, k)
  <2>1. CASE k = i
    BY <2>1 DEF Unled
  <2>2. CASE k # i
    <3>1. k - 1 \in i .. f - 1
      BY <1>1, <1>2, <2>2
    <3>2. Char(s, k - 1) = Blank
      BY <3>1 DEF IsItem
    <3> QED
      BY <3>2, Classes DEF Unled
  <2> QED
    BY <2>1, <2>2
<1>3. CASE f = m + 1
  <2>1. m \in i .. m /\ m \in i .. f - 1 /\ m <= f /\ i <= m
    BY <1>1, <1>3
  <2>2. Char(s, m) = Blank /\ Unled(s, m)
    BY <1>2, <2>1 DEF IsItem
  <2> QED
    BY <2>1, <2>2 DEF StrayIn
<1>4. CASE f # m + 1
  <2>1. f \in i .. m /\ f \in 1 .. m /\ f <= f
    BY <1>1, <1>4
  <2>2. Char(s, f) = Comma
    BY <1>1, <2>1 DEF Ends, IsItem
  <2> QED
    BY <1>2, <2>1, <2>2 DEF StrayIn
<1> QED
  BY <1>3, <1>4

LEMMA NumberEmpty == Number(<<>>) = 0
<1> DEFINE val == CHOOSE val : val = [n \in 0 .. Len(<<>>) |->
        IF n = 0 THEN 0
        ELSE 10 * val[n - 1] + (CHOOSE d \in 0 .. 9 : Digits[d + 1] = Char(<<>>, n))]
<1>1. PICK f : f = [n \in 0 .. 0 |-> 0]
  OBVIOUS
<1>2. f = [n \in 0 .. Len(<<>>) |->
        IF n = 0 THEN 0
        ELSE 10 * f[n - 1] + (CHOOSE d \in 0 .. 9 : Digits[d + 1] = Char(<<>>, n))]
  <2>1. Len(<<>>) = 0 /\ \A n \in 0 .. 0 : n = 0
    OBVIOUS
  <2> QED
    BY <1>1, <2>1
<1>3. val = [n \in 0 .. Len(<<>>) |->
        IF n = 0 THEN 0
        ELSE 10 * val[n - 1] + (CHOOSE d \in 0 .. 9 : Digits[d + 1] = Char(<<>>, n))]
  BY <1>2, Zenon
<1>4. val[0] = 0
  <2>1. 0 \in 0 .. Len(<<>>)
    OBVIOUS
  <2> QED
    BY <1>3, <2>1, Zenon
<1>5. Number(<<>>) = val[0]
  <2>1. Number(<<>>) = val[Len(<<>>)]
    BY DEF Number
  <2>2. Len(<<>>) = 0
    OBVIOUS
  <2> HIDE DEF val
  <2> QED
    BY <2>1, <2>2
<1> QED
  BY <1>4, <1>5

\* Whoever is meant from i on is the item's user or meant from the next item on.
LEMMA NextMeans ==
  ASSUME NEW s, IsString(s), NEW m \in Nat, Ends(s, m), NEW i \in 1 .. m,
         Char(s, i - 1) \notin IsDigit, Separator(s, i) \in {Blank, Comma, Semicolon, NUL}
  PROVE  /\ \A x : MeantIn(s, m, i, x) <=> x = Value(s, i) \/ MeantIn(s, m, NextItem(s, i), x)
         /\ Legal(s, m, i) <=> Legal(s, m, NextItem(s, i))
         /\ NextItem(s, i) = m + 1 \/ Char(s, NextItem(s, i) - 1) \notin IsDigit
<1>1. PICK f, l, next : f = Begin(s, i) /\ l = End(s, i) /\ next = NextItem(s, i)
  OBVIOUS
<1>2. IsItem(s, m, i, f, l, next) /\ next \in i + 1 .. m + 1
  BY <1>1, ItemIs
<1>3. /\ f \in Nat /\ l \in Nat /\ i <= f /\ f <= l /\ l <= m + 1
      /\ next = IF l = m + 1 THEN l ELSE l + 1
  BY <1>2 DEF IsItem
<1>4. Char(s, l) \in {Blank, Comma, Semicolon, NUL}
  BY <1>1 DEF Separator
<1>5. Value(s, i) = Number(SubSeq(s, f, l - 1))
  BY <1>1 DEF Value
<1>6. ASSUME NEW x
      PROVE  MeantIn(s, m, i, x) <=> x = Value(s, i) \/ MeantIn(s, m, next, x)
  <2>1. Numbered(s, m, i, x) <=>
          (f < l /\ x = Value(s, i)) \/ Numbered(s, m, next, x)
    BY <1>2, <1>5, NextNumbers
  <2>2. CASE f < l
    <3>1. StrayIn(s, m, i) <=> StrayIn(s, m, next)
      BY <1>2, <2>2, StrayLater
    <3> QED
      BY <2>1, <2>2, <3>1 DEF MeantIn
  <2>3. CASE f = l
    <3>1. StrayIn(s, m, i)
      BY <1>2, <1>4, <2>3, StrayHere
    <3>2. Value(s, i) = 0
      <4>1. SubSeq(s, f, l - 1) = <<>>
        <5>1. f \in 1 .. Len(s) + 1 /\ l - 1 \in f - 1 .. Len(s)
          <6>1. PICK n \in Nat : n = Len(s)
            BY StringLen
          <6>2. m \in 0 .. n
            BY <6>1 DEF Ends
          <6>3. f \in 1 .. n + 1 /\ l - 1 \in f - 1 .. n
            BY <1>3, <2>3, <6>2
          <6> QED
            BY <6>1, <6>3
        <5>2. PICK t : t = SubSeq(s, f, l - 1)
          OBVIOUS
        <5>3. IsString(t) /\ Len(t) = l - 1 - f + 1
          BY <5>1, <5>2, PartIs DEF IsPart
        <5>4. Len(t) = 0
          BY <1>3, <2>3, <5>3
        <5>5. t = <<>>
          BY <5>3, <5>4 DEF IsString
        <5> QED
          BY <5>2, <5>5
      <4> QED
        BY <1>5, <4>1, NumberEmpty
    <3>3. ~ (f < l)
      BY <1>3, <2>3
    <3> QED
      BY <2>1, <3>1, <3>2, <3>3 DEF MeantIn
  <2> QED
    BY <1>3, <2>2, <2>3
<1>7. Legal(s, m, i) <=> Legal(s, m, next)
  <2>1. ASSUME NEW k \in i .. m, k < next PROVE Char(s, k) \in IsDigit \cup {Blank, Comma}
    <3>1. CASE k < f
      <4>1. k \in i .. f - 1
        BY <1>3, <3>1
      <4> QED
        BY <1>2, <4>1 DEF IsItem
    <3>2. CASE f <= k /\ k < l
      <4>1. k \in f .. l - 1
        BY <1>3, <3>2
      <4> QED
        BY <1>2, <4>1 DEF IsItem
    <3>3. CASE l <= k
      <4>1. k = l /\ k \in 1 .. m
        BY <1>3, <2>1, <3>3
      <4> QED
        BY <1>4, <4>1 DEF Ends
    <3> QED
      BY <1>3, <3>1, <3>2, <3>3
  <2>2. \A k \in next .. m : k \in i .. m
    BY <1>2
  <2>3. \A k \in i .. m : k < next \/ k \in next .. m
    BY <1>2
  <2> QED
    BY <2>1, <2>2, <2>3 DEF Legal
<1>8. next = m + 1 \/ Char(s, next - 1) \notin IsDigit
  <2>1. next = m + 1 \/ next - 1 = l
    BY <1>3
  <2> QED
    BY <1>2, <2>1 DEF IsItem
<1> QED
  BY <1>1, <1>6, <1>7, <1>8

\* What the list from i on must come to
ReadRight(con, s, m, i) ==
  IF Legal(s, m, i) /\ \A x : MeantIn(s, m, i, x) => x \in con.who
  THEN \A x : x \in Lists(con, s)[i] <=> MeantIn(s, m, i, x)
  ELSE Refused \in Lists(con, s)[i]

\* The item at i does to the list what it means.
LEMMA ItemRead ==
  ASSUME NEW con, NEW s, IsString(s), NEW m \in Nat, Ends(s, m), NEW i \in 1 .. m,
         Char(s, i - 1) \notin IsDigit,
         NextItem(s, i) = m + 1 \/ Char(s, NextItem(s, i) - 1) \notin IsDigit
           => ReadRight(con, s, m, NextItem(s, i))
  PROVE  ReadRight(con, s, m, i)
<1>1. i \in 1 .. Len(s) + 1 /\ Char(s, i) \notin {NUL, Semicolon}
  <2>1. PICK n \in Nat : n = Len(s)
    BY StringLen
  <2>2. m \in 0 .. n /\ Char(s, i) \notin {NUL, Semicolon}
    BY <2>1 DEF Ends
  <2> QED
    BY <2>1, <2>2
<1>2. PICK here, next, v :
        here = Lists(con, s)[i] /\ next = NextItem(s, i) /\ v = Value(s, i)
  OBVIOUS
<1>3. PICK later : later = Lists(con, s)[next]
  OBVIOUS
<1>4. here = IF Bad(con, s, i) THEN {Refused} ELSE {v} \cup later
  <2>1. Lists(con, s)[i] = ListFrom(con, s, i, Lists(con, s))
    BY <1>1, ListsAre
  <2>2. here = ListFrom(con, s, i, Lists(con, s))
    BY <1>2, <2>1
  <2>3. CASE Bad(con, s, i)
    BY <1>1, <2>2, <2>3 DEF ListFrom
  <2>4. CASE ~ Bad(con, s, i)
    BY <1>1, <1>2, <1>3, <2>2, <2>4 DEF ListFrom
  <2> QED
    BY <2>3, <2>4
<1>5. CASE Separator(s, i) \notin {Blank, Comma, Semicolon, NUL}
  <2>1. here = {Refused}
    BY <1>4, <1>5 DEF Bad
  <2>2. PICK l : l = End(s, i)
    OBVIOUS
  <2>3. l \in i .. m + 1 /\ Char(s, l) \notin IsDigit /\ l # m + 1
    <3>1. IsItem(s, m, i, Begin(s, i), l, next)
      BY <1>2, <2>2, ItemIs
    <3>2. Begin(s, i) \in i .. m + 1 /\ l \in Begin(s, i) .. m + 1 /\ Char(s, l) \notin IsDigit
      BY <3>1 DEF IsItem
    <3>3. l # m + 1
      BY <1>5, <2>2, ItemIs
    <3> QED
      BY <3>2, <3>3
  <2>4. l \in i .. m /\ Char(s, l) \notin IsDigit \cup {Blank, Comma}
    BY <1>5, <2>2, <2>3 DEF Separator
  <2>5. ~ Legal(s, m, i)
    BY <2>4 DEF Legal
  <2> QED
    BY <1>2, <2>1, <2>5 DEF ReadRight
<1>6. CASE Separator(s, i) \in {Blank, Comma, Semicolon, NUL}
  <2>1. \A x : MeantIn(s, m, i, x) <=> x = v \/ MeantIn(s, m, next, x)
    BY <1>2, <1>6, NextMeans
  <2>2. /\ Legal(s, m, i) <=> Legal(s, m, next)
        /\ next = m + 1 \/ Char(s, next - 1) \notin IsDigit
    BY <1>2, <1>6, NextMeans
  <2>3. IF Legal(s, m, next) /\ \A x : MeantIn(s, m, next, x) => x \in con.who
        THEN \A x : x \in later <=> MeantIn(s, m, next, x)
        ELSE Refused \in later
    BY <1>2, <1>3, <2>2 DEF ReadRight
  <2>4. here = IF v \notin con.who THEN {Refused} ELSE {v} \cup later
    BY <1>2, <1>4, <1>6 DEF Bad
  <2>5. CASE v \notin con.who
    <3>1. ~ \A x : MeantIn(s, m, i, x) => x \in con.who
      BY <2>1, <2>5
    <3> QED
      BY <1>2, <2>4, <2>5, <3>1 DEF ReadRight
  <2>6. CASE v \in con.who
    <3>1. here = {v} \cup later
      BY <2>4, <2>6
    <3>2. (\A x : MeantIn(s, m, i, x) => x \in con.who)
            <=> \A x : MeantIn(s, m, next, x) => x \in con.who
      BY <2>1, <2>6
    <3>3. CASE Legal(s, m, next) /\ \A x : MeantIn(s, m, next, x) => x \in con.who
      <4>1. \A x : x \in here <=> MeantIn(s, m, i, x)
        BY <2>1, <2>3, <3>1, <3>3
      <4> QED
        BY <1>2, <2>2, <3>2, <3>3, <4>1 DEF ReadRight
    <3>4. CASE ~ (Legal(s, m, next) /\ \A x : MeantIn(s, m, next, x) => x \in con.who)
      <4>1. Refused \in here
        BY <2>3, <3>1, <3>4
      <4> QED
        BY <1>2, <2>2, <3>2, <3>4, <4>1 DEF ReadRight
    <3> QED
      BY <3>3, <3>4
  <2> QED
    BY <2>5, <2>6
<1> QED
  BY <1>5, <1>6

\* So does the whole list, from any place where no number is cut in two.
LEMMA ListRead ==
  ASSUME NEW con, NEW s, IsString(s), NEW m \in Nat, Ends(s, m), NEW i \in 1 .. m + 1,
         i = m + 1 \/ Char(s, i - 1) \notin IsDigit
  PROVE  ReadRight(con, s, m, i)
<1> DEFINE Cut(j) == ~ (j = m + 1 \/ Char(s, j - 1) \notin IsDigit)
<1> DEFINE Wrong == {k \in 0 .. m : ~ Cut(m + 1 - k) /\ ~ ReadRight(con, s, m, m + 1 - k)}
<1>1. Wrong = {}
  <2> SUFFICES ASSUME Wrong # {} PROVE FALSE
    OBVIOUS
  <2>1. PICK k \in Wrong : \A h \in Wrong : k <= h
    <3>1. Wrong \in SUBSET Nat
      OBVIOUS
    <3> HIDE DEF Wrong
    <3> QED
      BY <3>1, LeastNumber
  <2>2. PICK j \in Nat : j = m + 1 - k
    BY <2>1
  <2>3. j \in 1 .. m + 1 /\ ~ Cut(j) /\ ~ ReadRight(con, s, m, j)
    BY <2>1, <2>2
  <2>4. CASE j = m + 1
    <3>1. Lists(con, s)[j] = {}
      <4>1. j \in 1 .. Len(s) + 1 /\ Char(s, j) \in {NUL, Semicolon}
        <5>1. PICK n \in Nat : n = Len(s)
          BY StringLen
        <5>2. m \in 0 .. n /\ Char(s, j) \in {NUL, Semicolon}
          BY <2>4, <5>1 DEF Ends
        <5> QED
          BY <2>4, <5>1, <5>2
      <4> QED
        BY <4>1, ListsAre DEF ListFrom
    <3>2. \A x : ~ MeantIn(s, m, j, x)
      <4>1. ~ (j <= m) /\ \A p \in j .. m : FALSE
        BY <2>4
      <4> QED
        BY <4>1 DEF MeantIn, Numbered, StrayIn
    <3>3. Legal(s, m, j)
      <4>1. \A p \in j .. m : FALSE
        BY <2>4
      <4> QED
        BY <4>1 DEF Legal
    <3> QED
      BY <2>3, <3>1, <3>2, <3>3 DEF ReadRight
  <2>5. CASE j # m + 1
    <3>1. j \in 1 .. m /\ Char(s, j - 1) \notin IsDigit
      BY <2>3, <2>5
    <3>2. PICK next : next = NextItem(s, j)
      OBVIOUS
    <3>3. next \in j + 1 .. m + 1
      BY <3>1, <3>2, ItemIs
    <3>4. ~ Cut(next) => ReadRight(con, s, m, next)
      <4>1. PICK h \in Int : h = m + 1 - next
        BY <3>3
      <4>2. h \in 0 .. m /\ h < k /\ m + 1 - h = next
        BY <2>1, <2>2, <3>1, <3>3, <4>1
      <4>3. h \notin Wrong
        BY <2>1, <4>2
      <4> QED
        BY <4>2, <4>3
    <3> QED
      BY <2>3, <3>1, <3>2, <3>4, ItemRead
  <2> QED
    BY <2>4, <2>5
<1>2. m + 1 - i \in 0 .. m /\ m + 1 - (m + 1 - i) = i
  OBVIOUS
<1> QED
  BY <1>1, <1>2

\* The first m characters of s, read by themselves, hold the same numbers.
LEMMA BeforeRuns ==
  ASSUME NEW s, IsString(s), NEW m \in Nat, NEW b, IsBefore(s, m, b),
         NEW p \in 1 .. m, NEW q \in 1 .. m
  PROVE  /\ IsRun(b, p, q) <=> IsRun(s, p, q)
         /\ p <= q => SubSeq(b, p, q) = SubSeq(s, p, q)
<1>1. PICK n \in Nat : n = Len(s)
  BY StringLen
<1>2. /\ b = SubSeq(s, 1, m) /\ IsString(b) /\ Len(b) = m
      /\ \A k \in Int : Char(b, k) = IF k \in 1 .. m THEN Char(s, k) ELSE NUL
  BY DEF IsBefore
<1>3. m \in 0 .. n /\ Char(s, m + 1) \in {NUL, Semicolon}
  BY <1>1 DEF IsBefore, Ends
<1>4. Char(b, p - 1) \in IsDigit <=> Char(s, p - 1) \in IsDigit
  <2>1. CASE p = 1
    <3>1. p - 1 \notin 1 .. Len(s) /\ p - 1 \notin 1 .. Len(b)
      BY <1>2, <1>1, <2>1
    <3> QED
      BY <3>1, CharOut
  <2>2. CASE p # 1
    <3>1. p - 1 \in 1 .. m
      BY <2>2
    <3> QED
      BY <1>2, <3>1
  <2> QED
    BY <2>1, <2>2
<1>5. Char(b, q + 1) \in IsDigit <=> Char(s, q + 1) \in IsDigit
  <2>1. CASE q = m
    <3>1. q + 1 \notin 1 .. m /\ q + 1 \in Int /\ q + 1 = m + 1
      BY <2>1
    <3>2. Char(b, q + 1) = NUL
      BY <1>2, <3>1
    <3> QED
      BY <1>3, <3>1, <3>2, Classes
  <2>2. CASE q # m
    <3>1. q + 1 \in 1 .. m
      BY <2>2
    <3> QED
      BY <1>2, <3>1
  <2> QED
    BY <2>1, <2>2
<1>6. \A k \in p .. q : k \in 1 .. m /\ Char(b, k) = Char(s, k)
  BY <1>2
<1>7. IsRun(b, p, q) <=> IsRun(s, p, q)
  BY <1>4, <1>5, <1>6 DEF IsRun
<1>8. ASSUME p <= q
      PROVE  SubSeq(b, p, q) = SubSeq(s, p, q)
  <2>1. PICK t, u : t = SubSeq(b, p, q) /\ u = SubSeq(s, p, q)
    OBVIOUS
  <2>2. p \in 1 .. Len(b) + 1 /\ q \in p - 1 .. Len(b)
    BY <1>2, <1>8
  <2>3. p \in 1 .. Len(s) + 1 /\ q \in p - 1 .. Len(s)
    <3>1. p \in 1 .. n + 1 /\ q \in p - 1 .. n
      BY <1>3, <1>8
    <3> QED
      BY <1>1, <3>1
  <2>4. IsPart(t, b, p, q) /\ IsPart(u, s, p, q)
    BY <1>2, <2>1, <2>2, <2>3, PartIs
  <2>5. /\ IsString(t) /\ Len(t) = q - p + 1
        /\ \A k \in Int : Char(t, k) = IF k \in 1 .. q - p + 1 THEN Char(b, k + p - 1) ELSE NUL
    BY <2>4 DEF IsPart
  <2>6. /\ IsString(u) /\ Len(u) = q - p + 1
        /\ \A k \in Int : Char(u, k) = IF k \in 1 .. q - p + 1 THEN Char(s, k + p - 1) ELSE NUL
    BY <2>4 DEF IsPart
  <2>7. ASSUME NEW k \in 1 .. q - p + 1
        PROVE  t[k] = u[k]
    <3>1. k + p - 1 \in p .. q /\ k \in Int
      OBVIOUS
    <3>2. Char(t, k) = Char(u, k)
      BY <1>6, <2>5, <2>6, <3>1
    <3>3. Char(t, k) = t[k] /\ Char(u, k) = u[k]
      BY <2>5, <2>6, CharIn
    <3> QED
      BY <3>2, <3>3
  <2> QED
    BY <2>1, <2>5, <2>6, <2>7, SameString
<1> QED
  BY <1>7, <1>8

\* a is where the list's first blanks end.
LEMMA BeforeNumbers ==
  ASSUME NEW s, IsString(s), NEW m \in Nat, NEW b, IsBefore(s, m, b),
         NEW a \in 1 .. m + 1, \A k \in 1 .. a - 1 : Char(s, k) = Blank,
         NEW x
  PROVE  x \in Numbers(b) <=> Numbered(s, m, a, x)
<1>1. ASSUME NEW p \in 1 .. m, NEW q \in 1 .. m, IsRun(s, p, q)
      PROVE  p \in a .. m /\ q \in a .. m /\ SubSeq(b, p, q) = SubSeq(s, p, q)
  <2>1. p <= q /\ Char(s, p) \in IsDigit
    BY <1>1 DEF IsRun
  <2>2. ~ (p < a)
    <3>1. p < a => p \in 1 .. a - 1
      OBVIOUS
    <3> QED
      BY <2>1, <3>1, Classes
  <2>3. SubSeq(b, p, q) = SubSeq(s, p, q)
    BY <2>1, BeforeRuns
  <2> QED
    BY <2>1, <2>2, <2>3
<1>2. Runs(b) = {r \in (1 .. m) \X (1 .. m) : IsRun(b, r[1], r[2])}
  BY DEF Runs, IsRun, IsBefore
<1>3. ASSUME x \in Numbers(b) PROVE Numbered(s, m, a, x)
  <2>1. PICK r \in Runs(b) : x = Number(SubSeq(b, r[1], r[2]))
    BY <1>3 DEF Numbers
  <2>2. PICK p, q : p = r[1] /\ q = r[2]
    OBVIOUS
  <2>3. p \in 1 .. m /\ q \in 1 .. m /\ IsRun(b, p, q) /\ x = Number(SubSeq(b, p, q))
    BY <1>2, <2>1, <2>2
  <2>4. IsRun(s, p, q)
    BY <2>3, BeforeRuns
  <2> QED
    BY <1>1, <2>3, <2>4 DEF Numbered
<1>4. ASSUME Numbered(s, m, a, x) PROVE x \in Numbers(b)
  <2>1. PICK p \in a .. m, q \in a .. m : IsRun(s, p, q) /\ x = Number(SubSeq(s, p, q))
    BY <1>4 DEF Numbered
  <2>2. p \in 1 .. m /\ q \in 1 .. m
    OBVIOUS
  <2>3. IsRun(b, p, q) /\ x = Number(SubSeq(b, p, q))
    BY <1>1, <2>1, <2>2, BeforeRuns
  <2>4. PICK r : r = <<p, q>>
    OBVIOUS
  <2>5. r \in Runs(b) /\ x = Number(SubSeq(b, r[1], r[2]))
    BY <1>2, <2>2, <2>3, <2>4
  <2> QED
    BY <2>5 DEF Numbers
<1> QED
  BY <1>3, <1>4

LEMMA BeforeStray ==
  ASSUME NEW s, IsString(s), NEW m \in Nat, NEW b, IsBefore(s, m, b),
         NEW a \in 1 .. m + 1, \A k \in 1 .. a - 1 : Char(s, k) = Blank, Char(s, a) # Blank
  PROVE  Stray(b) <=> StrayIn(s, m, a)
<1>1. /\ IsString(b) /\ Len(b) = m
      /\ \A k \in Int : Char(b, k) = IF k \in 1 .. m THEN Char(s, k) ELSE NUL
  BY DEF IsBefore
<1>2. Span(b, 1, IsSpace) = a
  <2>1. a \in 1 .. Len(b) + 1 /\ 1 \in 1 .. Len(b) + 1
    BY <1>1
  <2>2. \A k \in 1 .. a - 1 : Char(b, k) \in IsSpace
    <3>1. \A k \in 1 .. a - 1 : k \in 1 .. m /\ k \in Int
      OBVIOUS
    <3> QED
      BY <1>1, <3>1, Classes
  <2>3. Char(b, a) \notin IsSpace
    <3>1. Char(b, a) = NUL \/ Char(b, a) = Char(s, a)
      BY <1>1
    <3> QED
      BY <3>1, Classes
  <2> QED
    BY <1>1, <2>1, <2>2, <2>3, SpanIs, Classes DEF StopsAt
<1>3. PICK t : t = SubSeq(b, a, m)
  OBVIOUS
<1>4. PICK l \in Nat : l = m - a + 1
  OBVIOUS
<1>5. /\ Len(t) = l
      /\ \A k \in Int : Char(t, k) = IF k \in 1 .. l THEN Char(b, k + a - 1) ELSE NUL
  <2>1. a \in 1 .. Len(b) + 1 /\ m \in a - 1 .. Len(b)
    BY <1>1
  <2> QED
    BY <1>3, <1>4, <1>1, <2>1, PartIs DEF IsPart
<1>6. ASSUME NEW k \in 1 .. l
      PROVE  /\ k + a - 1 \in a .. m /\ Char(t, k) = Char(s, k + a - 1)
             /\ Unled(t, k) <=> Unled(s, k + a - 1)
  <2>1. k + a - 1 \in a .. m /\ k + a - 1 \in 1 .. m /\ k \in Int
    BY <1>4
  <2>2. Char(t, k) = Char(s, k + a - 1)
    BY <1>5, <1>1, <2>1
  <2>3. CASE k = 1
    <3>1. k - 1 \in Int /\ k - 1 \notin 1 .. l /\ k + a - 1 = a
      BY <2>3
    <3>2. Char(t, k - 1) = NUL
      BY <1>5, <3>1
    <3>3. Char(s, a - 1) \notin IsDigit
      <4>1. CASE a = 1
        <5>1. a - 1 \notin 1 .. Len(s)
          BY <4>1
        <5> QED
          BY <5>1, CharOut, Classes
      <4>2. CASE a # 1
        <5>1. a - 1 \in 1 .. a - 1
          BY <4>2
        <5> QED
          BY <5>1, Classes
      <4> QED
        BY <4>1, <4>2
    <3> QED
      BY <2>1, <2>2, <3>1, <3>2, <3>3, Classes DEF Unled
  <2>4. CASE k # 1
    <3>1. k - 1 \in 1 .. l /\ k - 1 \in Int /\ (k - 1) + a - 1 \in 1 .. m
          /\ (k - 1) + a - 1 = k + a - 1 - 1
      BY <1>4, <2>4
    <3>2. Char(t, k - 1) = Char(s, k + a - 1 - 1)
      BY <1>5, <1>1, <3>1
    <3> QED
      BY <2>1, <2>2, <3>2 DEF Unled
  <2> QED
    BY <2>3, <2>4
<1>7. Stray(b) <=> \/ \E k \in 1 .. l : Char(t, k) = Comma /\ Unled(t, k)
                   \/ l > 1 /\ Char(t, l) = Blank /\ Unled(t, l)
  BY <1>2, <1>3, <1>5, <1>1 DEF Stray, From
<1>8. ASSUME Stray(b) PROVE StrayIn(s, m, a)
  <2>1. CASE \E k \in 1 .. l : Char(t, k) = Comma /\ Unled(t, k)
    <3>1. PICK k \in 1 .. l : Char(t, k) = Comma /\ Unled(t, k)
      BY <2>1
    <3> QED
      BY <1>6, <3>1 DEF StrayIn
  <2>2. CASE l > 1 /\ Char(t, l) = Blank /\ Unled(t, l)
    <3>1. l \in 1 .. l /\ l + a - 1 = m /\ a <= m
      BY <1>4, <2>2
    <3> QED
      BY <1>6, <2>2, <3>1 DEF StrayIn
  <2> QED
    BY <1>7, <1>8, <2>1, <2>2
<1>9. ASSUME StrayIn(s, m, a) PROVE Stray(b)
  <2>1. CASE \E j \in a .. m : Char(s, j) = Comma /\ Unled(s, j)
    <3>1. PICK j \in a .. m : Char(s, j) = Comma /\ Unled(s, j)
      BY <2>1
    <3>2. PICK k \in Int : k = j - a + 1
      OBVIOUS
    <3>3. k \in 1 .. l /\ k + a - 1 = j
      BY <1>4, <3>2
    <3> QED
      BY <1>6, <1>7, <3>1, <3>3
  <2>2. CASE a <= m /\ Char(s, m) = Blank /\ Unled(s, m)
    <3>1. m # a
      BY <2>2
    <3>2. l \in 1 .. l /\ l + a - 1 = m /\ l > 1
      BY <1>4, <2>2, <3>1
    <3> QED
      BY <1>6, <1>7, <2>2, <3>2
  <2> QED
    BY <1>9, <2>1, <2>2 DEF StrayIn
<1> QED
  BY <1>8, <1>9

LEMMA IsokIs ==
  ASSUME NEW s, IsString(s), NEW m \in Nat, Ends(s, m)
  PROVE  cmd_isok(s) <=> \A k \in 1 .. m : Char(s, k) \in IsAlpha \cup IsDigit \cup IsSpace \cup {Comma}
<1>1. PICK class : class = IsAlpha \cup IsDigit \cup IsSpace \cup {Comma}
  OBVIOUS
<1>2. NUL \notin class /\ Semicolon \notin class
  BY <1>1, Classes
<1>3. PICK j \in Nat : j = Span(s, 1, class) /\ StopsAt(s, 1, class, j) /\ j \in 1 .. m + 1
  <2>1. 1 \in 1 .. m + 1
    OBVIOUS
  <2> QED
    BY <1>2, <2>1, SpanInside
<1>4. cmd_isok(s) <=> Char(s, j) \in {NUL, Semicolon}
  BY <1>1, <1>3 DEF cmd_isok
<1>5. CASE j = m + 1
  <2>1. \A k \in 1 .. m : Char(s, k) \in class
    <3>1. \A k \in 1 .. m : k \in 1 .. j - 1
      BY <1>5
    <3> QED
      BY <1>3, <3>1 DEF StopsAt
  <2>2. Char(s, j) \in {NUL, Semicolon}
    BY <1>5 DEF Ends
  <2> QED
    BY <1>1, <1>4, <2>1, <2>2
<1>6. CASE j # m + 1
  <2>1. j \in 1 .. m
    BY <1>3, <1>6
  <2>2. Char(s, j) \notin {NUL, Semicolon} /\ Char(s, j) \notin class
    BY <1>3, <2>1 DEF Ends, StopsAt
  <2> QED
    BY <1>1, <1>4, <2>1, <2>2
<1> QED
  BY <1>5, <1>6

\* Whom a list means, by the places of its characters in s
LEMMA MeantIs ==
  ASSUME NEW s, IsString(s), NEW m \in Nat, IsBefore(s, m, Before(s)),
         NEW a \in 1 .. m + 1, \A k \in 1 .. a - 1 : Char(s, k) = Blank, Char(s, a) # Blank
  PROVE  IF Legal(s, m, a) /\ \A x : MeantIn(s, m, a, x) => x \in cp.who
         THEN \A x : x \in Meant(s) <=> MeantIn(s, m, a, x)
         ELSE Meant(s) = {Refused}
<1>1. PICK b : b = Before(s)
  OBVIOUS
<1>2. PICK map : map = Numbers(b) \cup {z \in {0} : Stray(b)}
  OBVIOUS
<1>3. Ends(s, m) /\ IsBefore(s, m, b)
  BY <1>1 DEF IsBefore
<1>4. ASSUME NEW x
      PROVE  x \in map <=> MeantIn(s, m, a, x)
  <2>1. x \in Numbers(b) <=> Numbered(s, m, a, x)
    BY <1>3, BeforeNumbers
  <2>2. Stray(b) <=> StrayIn(s, m, a)
    BY <1>3, BeforeStray
  <2> QED
    BY <1>2, <2>1, <2>2 DEF MeantIn
<1>5. (\A k \in 1 .. Len(b) : Char(b, k) \in IsDigit \cup {Blank, Comma}) <=> Legal(s, m, a)
  <2>1. Len(b) = m /\ \A k \in 1 .. m : Char(b, k) = Char(s, k)
    BY <1>3 DEF IsBefore
  <2>2. \A k \in 1 .. m : k \in 1 .. a - 1 \/ k \in a .. m
    OBVIOUS
  <2>3. \A k \in a .. m : k \in 1 .. m
    OBVIOUS
  <2> QED
    BY <2>1, <2>2, <2>3 DEF Legal
<1>6. Meant(s) = IF map \subseteq cp.who
                    /\ \A k \in 1 .. Len(b) : Char(b, k) \in IsDigit \cup {Blank, Comma}
                 THEN map ELSE {Refused}
  BY <1>1, <1>2 DEF Meant
<1>7. map \subseteq cp.who <=> \A x : MeantIn(s, m, a, x) => x \in cp.who
  BY <1>4
<1> QED
  BY <1>4, <1>5, <1>6, <1>7

\* The users a list comes to are those it means.
LEMMA ArgmapMeant ==
  ASSUME NEW s, IsString(s), Refused \notin cp.who
  PROVE  /\ Listed(cmd_argmap(cp, s)).users = Meant(s)
         /\ cmd_argmap(cp, s) = {} <=> Meant(s) = {}
         /\ Refused \in cmd_argmap(cp, s) <=> Meant(s) = {Refused}
<1>1. PICK m \in Nat : IsBefore(s, m, Before(s))
  BY BeforeIs
<1>2. Ends(s, m)
  BY <1>1 DEF IsBefore
<1>3. PICK a \in Nat : a = Span(s, 1, IsSpace) /\ StopsAt(s, 1, IsSpace, a) /\ a \in 1 .. m + 1
  <2>1. 1 \in 1 .. m + 1
    OBVIOUS
  <2> QED
    BY <1>2, <2>1, SpanInside, Classes
<1>4. Char(s, a) # Blank /\ \A k \in 1 .. a - 1 : Char(s, k) = Blank
  BY <1>3, Classes DEF StopsAt
<1>5. PICK map : map = cmd_argmap(cp, s)
  OBVIOUS
<1>6. map = IF cmd_isok(s) THEN Lists(cp, s)[a] ELSE {Refused}
  BY <1>3, <1>5, ArgmapIs
<1>7. ReadRight(cp, s, m, a)
  <2>1. Char(s, a - 1) \notin IsDigit
    <3>1. CASE a = 1
      <4>1. a - 1 \notin 1 .. Len(s)
        BY <3>1
      <4> QED
        BY <4>1, CharOut, Classes
    <3>2. CASE a # 1
      <4>1. a - 1 \in 1 .. a - 1
        BY <1>3, <3>2
      <4> QED
        BY <1>4, <4>1, Classes
    <3> QED
      BY <3>1, <3>2
  <2> QED
    BY <1>2, <1>3, <2>1, ListRead
<1>8. IF Legal(s, m, a) /\ \A x : MeantIn(s, m, a, x) => x \in cp.who
      THEN \A x : x \in Meant(s) <=> MeantIn(s, m, a, x)
      ELSE Meant(s) = {Refused}
  BY <1>1, <1>3, <1>4, MeantIs
<1>9. Legal(s, m, a) => cmd_isok(s)
  <2>1. \A k \in 1 .. m : k \in 1 .. a - 1 \/ k \in a .. m
    BY <1>3
  <2> QED
    BY <1>2, <1>4, <2>1, IsokIs, Classes DEF Legal
<1>10. CASE Legal(s, m, a) /\ \A x : MeantIn(s, m, a, x) => x \in cp.who
  <2>1. \A x : x \in map <=> MeantIn(s, m, a, x)
    BY <1>6, <1>7, <1>9, <1>10 DEF ReadRight
  <2>2. \A x : x \in Meant(s) <=> MeantIn(s, m, a, x)
    BY <1>8, <1>10
  <2>3. map = Meant(s)
    BY <2>1, <2>2
  <2>4. Refused \notin map
    BY <1>10, <2>1
  <2>5. Listed(map).users = map
    BY <2>4 DEF Listed, Plain
  <2>6. Meant(s) # {Refused}
    BY <2>3, <2>4
  <2> QED
    BY <1>5, <2>3, <2>4, <2>5, <2>6
<1>11. CASE ~ (Legal(s, m, a) /\ \A x : MeantIn(s, m, a, x) => x \in cp.who)
  <2>1. Refused \in map
    BY <1>6, <1>7, <1>11 DEF ReadRight
  <2>2. Meant(s) = {Refused}
    BY <1>8, <1>11
  <2>3. Listed(map).users = {Refused}
    BY <2>1 DEF Listed, Rejected, Plain
  <2> QED
    BY <1>5, <2>1, <2>2, <2>3
<1> QED
  BY <1>10, <1>11

\* ListExact: a list of users means the numbers typed, all connected, and nobody else
\* but #0 for a separator that strays (cmd_argmap, cmd_isok).
THEOREM ListExactCorrect == Spec => []ListExact
<1>1. ICall => ListExact
  <2> SUFFICES ASSUME ICall, Complete, call.entry \in ListTakers
               PROVE  call.reading.users = Meant(Rest(line))
    BY DEF ListExact
  <2>1. line \in Seq(Characters) /\ call = con_command(cp, line) /\ Refused \notin cp.who
    BY SizeAssumption DEF ICall, Refused
  <2>2. IsString(Rest(line))
    BY <2>1, LineParts
  <2>3. call.reading = Read(call.entry, cp, Rest(line))
    BY <2>1 DEF con_command
  <2>4. call.entry # "give"
    BY DEF ListTakers
  <2>5. call.reading = Listed(cmd_argmap(cp, Rest(line)))
    BY <2>3, <2>4 DEF Read
  <2> QED
    BY <2>1, <2>2, <2>5, ArgmapMeant
<1> QED
  BY <1>1, CallCorrect, PTL

-----------------------------------------------------------------------------
(* The header of GIVE.                                                     *)

\* NEW is spelt in full.
LEMMA NewIs ==
  ASSUME NEW str, IsString(str)
  PROVE  cmd_comp(str, NewWord) <=> str = NewWord
<1>1. PICK C, cmd : C = {"n", "e", "w"} /\ cmd = NewWord
  OBVIOUS
<1>2. cmd \in Seq(C) /\ Len(cmd) = 3 /\ cmd[1] = "n" /\ cmd[2] = "e" /\ cmd[3] = "w"
  BY <1>1 DEF NewWord
<1>3. NUL \notin C /\ "*" \notin C
  BY <1>1 DEF NUL
<1>4. \A k \in 1 .. Len(cmd) : cmd[k] # "*" /\ cmd[k] # NUL /\ cmd[k] \in C
  BY <1>2, <1>3
<1>5. cmd_comp(str, cmd) <=> str \in Spelt(cmd)
  BY <1>2, <1>3, <1>4, CompSpells
<1>6. PICK strip : strip = Stripped(cmd)
  OBVIOUS
<1>7. strip[3] = cmd
  <2>1. /\ strip \in [0 .. 3 -> Seq(C)] /\ strip[0] = <<>>
        /\ \A i \in 1 .. 3 : strip[i] = IF cmd[i] = "*" THEN strip[i - 1]
                                        ELSE Append(strip[i - 1], cmd[i])
    <3>1. 3 \in Nat
      OBVIOUS
    <3> QED
      BY <1>2, <1>6, <3>1, StrippedIs
  <2>2. \A i \in 1 .. 3 : strip[i] = Append(strip[i - 1], cmd[i])
    BY <1>2, <1>4, <2>1
  <2>3. strip[1] = Append(<<>>, "n") /\ strip[2] = Append(strip[1], "e")
        /\ strip[3] = Append(strip[2], "w")
    <3>1. 1 - 1 = 0 /\ 2 - 1 = 1 /\ 3 - 1 = 2 /\ 1 \in 1 .. 3 /\ 2 \in 1 .. 3 /\ 3 \in 1 .. 3
      OBVIOUS
    <3> QED
      BY <1>2, <2>1, <2>2, <3>1
  <2>4. PICK x, y, z : x = strip[1] /\ y = strip[2] /\ z = strip[3]
    OBVIOUS
  <2>5. x \in Seq(C) /\ Len(x) = 1 /\ x[1] = "n"
    BY <1>1, <2>3, <2>4
  <2>6. y \in Seq(C) /\ Len(y) = 2 /\ y[1] = "n" /\ y[2] = "e"
    BY <1>1, <2>3, <2>4, <2>5
  <2>7. z \in Seq(C) /\ Len(z) = 3 /\ z[1] = "n" /\ z[2] = "e" /\ z[3] = "w"
    BY <1>1, <2>3, <2>4, <2>6
  <2>8. \A k \in 1 .. 3 : z[k] = cmd[k]
    BY <1>2, <2>7
  <2> QED
    BY <1>2, <2>4, <2>7, <2>8, SeqEqual
<1>8. \A m \in 0 .. 3 : Char(cmd, m + 1) \in {NUL, "*"} <=> m = 3
  <2>1. Char(cmd, 3 + 1) = NUL
    BY <1>2 DEF Char
  <2>2. \A m \in 0 .. 3 : m # 3 => m + 1 \in 1 .. Len(cmd)
    BY <1>2
  <2>3. \A m \in 0 .. 3 : m # 3 => Char(cmd, m + 1) \notin {NUL, "*"}
    BY <1>4, <2>2 DEF Char
  <2> QED
    BY <2>1, <2>3
<1>9. Spelt(cmd) = {strip[3]}
  <2>1. 3 \in 0 .. 3
    OBVIOUS
  <2>2. {m \in 0 .. Len(cmd) : Char(cmd, m + 1) \in {NUL, "*"}} = {3}
    BY <1>2, <1>8, <2>1
  <2> QED
    BY <1>6, <2>2 DEF Spelt
<1> QED
  BY <1>1, <1>5, <1>7, <1>9

\* What is left of the rest when its blanks are skipped
LEMMA RestIs ==
  ASSUME NEW s, IsString(s), NEW i \in 1 .. Len(s) + 1
  PROVE  /\ From(From(s, i), Span(From(s, i), 1, IsSpace)) = From(s, Span(s, i, IsSpace))
         /\ IsString(From(s, Span(s, i, IsSpace)))
<1>1. PICK n \in Nat : n = Len(s)
  BY StringLen
<1>2. PICK u : u = From(s, i)
  OBVIOUS
<1>3. IsString(u) /\ Len(u) = n - i + 1
      /\ \A k \in Int : Char(u, k) = IF k \in 1 .. n - i + 1 THEN Char(s, k + i - 1) ELSE NUL
  <2>1. n \in i - 1 .. Len(s) /\ u = SubSeq(s, i, n)
    BY <1>1, <1>2 DEF From
  <2>2. IsPart(u, s, i, n)
    BY <2>1, PartIs
  <2> QED
    BY <2>2 DEF IsPart
<1>4. PICK j \in Nat : j = Span(s, i, IsSpace) /\ StopsAt(s, i, IsSpace, j)
  BY SpanStops, Classes
<1>5. j \in i .. n + 1 /\ Char(s, j) \notin IsSpace /\ \A k \in i .. j - 1 : Char(s, k) \in IsSpace
  BY <1>1, <1>4 DEF StopsAt
<1>6. PICK h \in Nat : h = j - i + 1
  BY <1>1, <1>5
<1>7. Span(u, 1, IsSpace) = h
  <2>1. h \in 1 .. Len(u) + 1 /\ 1 \in 1 .. Len(u) + 1
    BY <1>1, <1>3, <1>5, <1>6
  <2>2. Char(u, h) \notin IsSpace
    <3>1. CASE h \in 1 .. n - i + 1
      <4>1. h + i - 1 = j
        BY <1>5, <1>6
      <4>2. Char(u, h) = Char(s, h + i - 1)
        BY <1>3, <3>1
      <4>3. Char(u, h) = Char(s, j)
        BY <4>1, <4>2
      <4> QED
        BY <1>5, <4>3
    <3>2. CASE h \notin 1 .. n - i + 1
      BY <1>3, <3>2, Classes
    <3> QED
      BY <3>1, <3>2
  <2>3. ASSUME NEW k \in 1 .. h - 1
        PROVE  Char(u, k) \in IsSpace
    <3>1. k \in Int /\ k \in 1 .. n - i + 1 /\ k + i - 1 \in i .. j - 1
      BY <1>1, <1>5, <1>6
    <3> QED
      BY <1>3, <1>5, <3>1
  <2> QED
    BY <1>3, <2>1, <2>2, <2>3, SpanIs, Classes DEF StopsAt
<1>8. PICK t, v : t = From(u, h) /\ v = From(s, j)
  OBVIOUS
<1>9. PICK l \in Nat : l = n - j + 1
  BY <1>1, <1>5
<1>10. IsString(t) /\ Len(t) = l
       /\ \A k \in 1 .. l : Char(t, k) = Char(u, k + h - 1)
  <2>1. PICK e \in Int : e = n - i + 1
    BY <1>1
  <2>2. h \in 1 .. Len(u) + 1 /\ e \in h - 1 .. Len(u) /\ t = SubSeq(u, h, e)
    BY <1>1, <1>3, <1>5, <1>6, <1>8, <2>1 DEF From
  <2>3. IsPart(t, u, h, e)
    BY <1>3, <2>2, PartIs
  <2>4. e - h + 1 = l
    BY <1>1, <1>5, <1>6, <1>9, <2>1
  <2> QED
    BY <2>3, <2>4 DEF IsPart
<1>11. IsString(v) /\ Len(v) = l
       /\ \A k \in 1 .. l : Char(v, k) = Char(s, k + j - 1)
  <2>1. j \in 1 .. Len(s) + 1 /\ n \in j - 1 .. Len(s) /\ v = SubSeq(s, j, n)
    BY <1>1, <1>5, <1>8 DEF From
  <2>2. IsPart(v, s, j, n)
    BY <2>1, PartIs
  <2> QED
    BY <1>9, <2>2 DEF IsPart
<1>12. ASSUME NEW k \in 1 .. l
       PROVE  t[k] = v[k]
  <2>1. /\ k + h - 1 \in 1 .. n - i + 1 /\ k + h - 1 \in Int
        /\ (k + h - 1) + i - 1 = k + j - 1
    BY <1>1, <1>5, <1>6, <1>9
  <2>2. Char(t, k) = Char(s, k + j - 1) /\ Char(v, k) = Char(s, k + j - 1)
    BY <1>3, <1>10, <1>11, <2>1
  <2>3. Char(t, k) = t[k] /\ Char(v, k) = v[k]
    BY <1>10, <1>11, CharIn
  <2> QED
    BY <2>2, <2>3
<1>13. t = v
  BY <1>10, <1>11, <1>12, SameString
<1> QED
  BY <1>2, <1>4, <1>7, <1>8, <1>11, <1>13

LEMMA RunsAre ==
  ASSUME NEW s, IsString(s), NEW m \in Nat, NEW b, IsBefore(s, m, b)
  PROVE  /\ IsFiniteSet(Runs(b))
         /\ \A r : r \in Runs(b) <=> \E p \in 1 .. m, q \in 1 .. m : r = <<p, q>> /\ IsRun(s, p, q)
<1>1. Runs(b) = {r \in (1 .. m) \X (1 .. m) : IsRun(b, r[1], r[2])}
  BY DEF Runs, IsRun, IsBefore
<1>2. IsFiniteSet(Runs(b))
  <2>1. IsFiniteSet(1 .. m)
    BY FS_Interval
  <2>2. IsFiniteSet((1 .. m) \X (1 .. m))
    BY <2>1, FS_Product
  <2>3. Runs(b) \in SUBSET ((1 .. m) \X (1 .. m))
    BY <1>1
  <2> QED
    BY <2>2, <2>3, FS_Subset
<1>3. \A p \in 1 .. m, q \in 1 .. m : IsRun(b, p, q) <=> IsRun(s, p, q)
  <2>1. Ends(s, m)
    BY DEF IsBefore
  <2> QED
    BY <2>1, BeforeRuns
<1>4. ASSUME NEW r \in Runs(b)
      PROVE  \E p \in 1 .. m, q \in 1 .. m : r = <<p, q>> /\ IsRun(s, p, q)
  <2>1. PICK p \in 1 .. m, q \in 1 .. m : r = <<p, q>>
    BY <1>1
  <2>2. IsRun(b, p, q)
    BY <1>1, <2>1
  <2> QED
    BY <1>3, <2>1, <2>2
<1>5. ASSUME NEW p \in 1 .. m, NEW q \in 1 .. m, IsRun(s, p, q)
      PROVE  <<p, q>> \in Runs(b)
  <2>1. PICK r : r = <<p, q>>
    OBVIOUS
  <2>2. r \in (1 .. m) \X (1 .. m) /\ IsRun(b, r[1], r[2])
    BY <1>3, <1>5, <2>1
  <2> QED
    BY <1>1, <2>1, <2>2
<1> QED
  BY <1>2, <1>4, <1>5

\* How cmd_give reads the header: blanks, the number, blanks, and what comes then
HeadSemi(s) == Span(s, End(s, 1), IsSpace)
GoodHead(s) == Begin(s, 1) # End(s, 1) /\ Char(s, HeadSemi(s)) = Semicolon

IsHead(s, m, f, l, h) ==
  /\ f \in Nat /\ l \in Nat /\ h \in Nat /\ 1 <= f /\ f <= l /\ l <= h /\ h <= m + 1
  /\ IsItem(s, m, 1, f, l, IF l = m + 1 THEN l ELSE l + 1)
  /\ Char(s, 1 - 1) \notin IsDigit
  /\ Char(s, h) # Blank /\ \A k \in l .. h - 1 : Char(s, k) = Blank

LEMMA HeadIs ==
  ASSUME NEW s, IsString(s), NEW m \in Nat, Ends(s, m)
  PROVE  IsHead(s, m, Begin(s, 1), End(s, 1), HeadSemi(s))
<1>1. NUL \notin IsSpace /\ Semicolon \notin IsSpace /\ NUL \notin IsDigit /\ Semicolon \notin IsDigit
  BY Classes
<1>2. PICK f \in Nat : f = Begin(s, 1) /\ StopsAt(s, 1, IsSpace, f) /\ f \in 1 .. m + 1
  <2>1. 1 \in 1 .. m + 1
    OBVIOUS
  <2> QED
    BY <1>1, <2>1, SpanInside DEF Begin
<1>3. PICK l \in Nat : l = End(s, 1) /\ StopsAt(s, f, IsDigit, l) /\ l \in f .. m + 1
  BY <1>1, <1>2, SpanInside DEF End
<1>4. PICK h \in Nat : h = HeadSemi(s) /\ StopsAt(s, l, IsSpace, h) /\ h \in l .. m + 1
  <2>1. l \in 1 .. m + 1
    BY <1>2, <1>3
  <2> QED
    BY <1>1, <1>3, <2>1, SpanInside DEF HeadSemi
<1>5. Char(s, f) # Blank /\ \A k \in 1 .. f - 1 : Char(s, k) = Blank
  BY <1>2, Classes DEF StopsAt
<1>6. Char(s, l) \notin IsDigit /\ \A k \in f .. l - 1 : Char(s, k) \in IsDigit
  BY <1>3 DEF StopsAt
<1>7. Char(s, h) # Blank /\ \A k \in l .. h - 1 : Char(s, k) = Blank
  BY <1>4, Classes DEF StopsAt
<1>8. Char(s, 1 - 1) \notin IsDigit
  <2>1. 1 - 1 \notin 1 .. Len(s)
    OBVIOUS
  <2> QED
    BY <2>1, CharOut, Classes
<1>9. IsItem(s, m, 1, f, l, IF l = m + 1 THEN l ELSE l + 1)
  BY <1>2, <1>3, <1>5, <1>6 DEF IsItem
<1>10. 1 <= f /\ f <= l /\ l <= h /\ h <= m + 1
  BY <1>2, <1>3, <1>4
<1>11. IsHead(s, m, f, l, h)
  BY <1>7, <1>8, <1>9, <1>10 DEF IsHead
<1> QED
  BY <1>2, <1>3, <1>4, <1>11

\* A header that cmd_give accepts holds one number and blanks.
LEMMA HeadGood ==
  ASSUME NEW s, IsString(s), NEW m \in Nat, NEW b, IsBefore(s, m, b), GoodHead(s)
  PROVE  /\ HeadSemi(s) = m + 1 /\ m < Len(s)
         /\ Runs(b) = {<<Begin(s, 1), End(s, 1) - 1>>} /\ Numbers(b) = {Value(s, 1)}
         /\ \A k \in 1 .. m : Char(s, k) \in IsDigit \cup IsSpace
<1>1. PICK f, l, h : f = Begin(s, 1) /\ l = End(s, 1) /\ h = HeadSemi(s)
  OBVIOUS
<1>2. Ends(s, m)
  BY DEF IsBefore
<1>3. IsHead(s, m, f, l, h)
  BY <1>1, <1>2, HeadIs
<1>4. PICK next : next = IF l = m + 1 THEN l ELSE l + 1
  OBVIOUS
<1>5. IsItem(s, m, 1, f, l, next) /\ Char(s, 1 - 1) \notin IsDigit
  BY <1>3, <1>4 DEF IsHead
<1>6. f \in Nat /\ l \in Nat /\ h \in Nat /\ 1 <= f /\ f < l /\ l <= h /\ h <= m + 1
  BY <1>1, <1>3 DEF IsHead, GoodHead
<1>7. PICK n \in Nat : n = Len(s)
  BY StringLen
<1>8. m \in 0 .. n
  BY <1>2, <1>7 DEF Ends
<1>9. h = m + 1 /\ m < n
  <2>1. Char(s, h) = Semicolon
    BY <1>1 DEF GoodHead
  <2>2. h \notin 1 .. m
    BY <1>2, <2>1 DEF Ends
  <2>3. h = m + 1
    BY <1>6, <2>2
  <2>4. m + 1 \in 1 .. n
    BY <1>7, <2>1, <2>3, CharOut, Classes DEF NUL, Semicolon
  <2> QED
    BY <2>3, <2>4
<1>10. ASSUME NEW k \in 1 .. m
       PROVE  /\ Char(s, k) \in IsDigit \cup IsSpace
              /\ k \in next .. m => Char(s, k) \notin IsDigit
  <2>1. CASE k < f
    <3>1. k \in 1 .. f - 1 /\ k \notin next .. m
      BY <1>4, <1>6, <2>1
    <3> QED
      BY <1>5, <3>1, Classes DEF IsItem
  <2>2. CASE f <= k /\ k < l
    <3>1. k \in f .. l - 1 /\ k \notin next .. m
      BY <1>4, <1>6, <2>2
    <3> QED
      BY <1>5, <3>1 DEF IsItem
  <2>3. CASE l <= k
    <3>1. k \in l .. h - 1
      BY <1>6, <1>9, <2>3
    <3>2. Char(s, k) = Blank
      BY <1>3, <3>1 DEF IsHead
    <3> QED
      BY <3>2, Classes
  <2> QED
    BY <1>6, <2>1, <2>2, <2>3
<1>11. 1 \in 1 .. m /\ f \in 1 .. m /\ l - 1 \in 1 .. m /\ f <= l - 1
  BY <1>6, <1>9
<1>12. IsRun(s, f, l - 1)
  BY <1>5, <1>6, <1>11, ItemRun
<1>13. ASSUME NEW p \in 1 .. m, NEW q \in 1 .. m, IsRun(s, p, q)
       PROVE  p = f /\ q = l - 1
  <2>1. (p = f /\ q = l - 1 /\ f < l) \/ (p \in next .. m /\ q \in next .. m)
    BY <1>5, <1>11, <1>13, LaterRun
  <2>2. Char(s, p) \in IsDigit
    BY <1>13 DEF IsRun
  <2> QED
    BY <1>10, <2>1, <2>2
<1>14. Runs(b) = {<<f, l - 1>>}
  <2>1. \A r : r \in Runs(b) <=> \E p \in 1 .. m, q \in 1 .. m : r = <<p, q>> /\ IsRun(s, p, q)
    BY RunsAre
  <2>2. <<f, l - 1>> \in Runs(b)
    BY <1>11, <1>12, <2>1
  <2>3. \A r \in Runs(b) : r = <<f, l - 1>>
    BY <1>13, <2>1
  <2> QED
    BY <2>2, <2>3
<1>15. Numbers(b) = {Value(s, 1)}
  <2>1. SubSeq(b, f, l - 1) = SubSeq(s, f, l - 1)
    BY <1>2, <1>11, BeforeRuns
  <2>2. Value(s, 1) = Number(SubSeq(s, f, l - 1))
    BY <1>1 DEF Value
  <2>3. Numbers(b) = {Number(SubSeq(b, r[1], r[2])) : r \in {<<f, l - 1>>}}
    BY <1>14 DEF Numbers
  <2>4. Numbers(b) = {Number(SubSeq(b, f, l - 1))}
    BY <2>3
  <2> QED
    BY <2>1, <2>2, <2>4
<1> QED
  BY <1>1, <1>7, <1>9, <1>10, <1>14, <1>15

\* It accepts every header that does, when a semicolon follows.
LEMMA HeadBad ==
  ASSUME NEW s, IsString(s), NEW m \in Nat, NEW b, IsBefore(s, m, b), b # s,
         Cardinality(Runs(b)) = 1, \A k \in 1 .. m : Char(s, k) \in IsDigit \cup IsSpace
  PROVE  GoodHead(s)
<1>1. PICK f, l, h : f = Begin(s, 1) /\ l = End(s, 1) /\ h = HeadSemi(s)
  OBVIOUS
<1>2. Ends(s, m)
  BY DEF IsBefore
<1>3. IsHead(s, m, f, l, h)
  BY <1>1, <1>2, HeadIs
<1>4. PICK next : next = IF l = m + 1 THEN l ELSE l + 1
  OBVIOUS
<1>5. IsItem(s, m, 1, f, l, next) /\ Char(s, 1 - 1) \notin IsDigit
  BY <1>3, <1>4 DEF IsHead
<1>6. /\ f \in Nat /\ l \in Nat /\ h \in Nat /\ 1 <= f /\ f <= l /\ l <= h /\ h <= m + 1
      /\ Char(s, h) # Blank /\ \A k \in l .. h - 1 : Char(s, k) = Blank
  BY <1>3 DEF IsHead
<1>7. PICK n \in Nat : n = Len(s)
  BY StringLen
<1>8. m \in 0 .. n /\ Char(s, m + 1) \in {NUL, Semicolon}
  BY <1>2, <1>7 DEF Ends
<1>9. Char(s, m + 1) = Semicolon
  <2>1. m # n
    <3> SUFFICES ASSUME m = n PROVE FALSE
      OBVIOUS
    <3>1. IsString(b) /\ Len(b) = n /\ \A k \in 1 .. n : Char(b, k) = Char(s, k)
      BY DEF IsBefore
    <3>2. \A k \in 1 .. n : b[k] = s[k]
      BY <1>7, <3>1 DEF Char
    <3> QED
      BY <1>7, <3>1, <3>2, SameString
  <2>2. m + 1 \in 1 .. Len(s)
    BY <1>7, <1>8, <2>1
  <2> QED
    BY <1>8, <2>2, CharIn
<1>10. PICK r : Runs(b) = {r}
  <2>1. IsFiniteSet(Runs(b))
    BY RunsAre
  <2> QED
    BY <2>1, FS_Singleton
<1>11. \A p \in 1 .. m, q \in 1 .. m : IsRun(s, p, q) => <<p, q>> = r
  <2>1. \A t : t \in Runs(b) <=> \E p \in 1 .. m, q \in 1 .. m : t = <<p, q>> /\ IsRun(s, p, q)
    BY RunsAre
  <2> QED
    BY <1>10, <2>1
<1>12. \E p \in 1 .. m, q \in 1 .. m : IsRun(s, p, q)
  <2>1. \A t : t \in Runs(b) <=> \E p \in 1 .. m, q \in 1 .. m : t = <<p, q>> /\ IsRun(s, p, q)
    BY RunsAre
  <2> QED
    BY <1>10, <2>1
<1>13. f < l
  <2> SUFFICES ASSUME f = l PROVE FALSE
    BY <1>6
  <2>1. f \notin 1 .. m
    <3>1. Char(s, f) \notin IsDigit \cup IsSpace
      BY <1>5, Classes DEF IsItem
    <3> QED
      BY <3>1
  <2>2. f = m + 1
    BY <1>6, <2>1
  <2>3. PICK p \in 1 .. m : Char(s, p) \in IsDigit
    <3>1. PICK p \in 1 .. m, q \in 1 .. m : IsRun(s, p, q)
      BY <1>12
    <3>2. Char(s, p) \in IsDigit
      BY <3>1 DEF IsRun
    <3> QED
      BY <3>2
  <2>4. p \in 1 .. f - 1
    BY <2>2
  <2>5. Char(s, p) = Blank
    BY <1>5, <2>4 DEF IsItem
  <2> QED
    BY <2>3, <2>5, Classes
<1>14. 1 \in 1 .. m /\ f \in 1 .. m /\ l - 1 \in 1 .. m
  BY <1>6, <1>13
<1>15. <<f, l - 1>> = r
  <2>1. IsRun(s, f, l - 1)
    BY <1>5, <1>13, <1>14, ItemRun
  <2> QED
    BY <1>11, <1>14, <2>1
<1>16. h = m + 1
  <2> SUFFICES ASSUME h # m + 1 PROVE FALSE
    OBVIOUS
  <2>1. h \in 1 .. m
    BY <1>6, <1>13
  <2>2. Char(s, h) \in IsDigit
    BY <1>6, <2>1, Classes
  <2>3. l < h
    <3>1. Char(s, l) \notin IsDigit
      BY <1>5 DEF IsItem
    <3> QED
      BY <1>6, <2>2, <3>1
  <2>4. PICK e \in Nat : StopsAt(s, h, IsDigit, e) /\ e \in h .. m + 1
    <3>1. h \in 1 .. m + 1
      BY <1>6, <2>1
    <3> QED
      BY <1>2, <3>1, SpanInside, Classes
  <2>5. Char(s, e) \notin IsDigit /\ \A k \in h .. e - 1 : Char(s, k) \in IsDigit
    BY <2>4 DEF StopsAt
  <2>6. h # e
    BY <2>2, <2>5
  <2>7. e - 1 \in 1 .. m /\ h <= e - 1 /\ (e - 1) + 1 = e /\ h - 1 \in l .. h - 1
    BY <1>6, <2>1, <2>3, <2>4, <2>6
  <2>8. Char(s, h - 1) \notin IsDigit
    BY <1>6, <2>7, Classes
  <2>9. IsRun(s, h, e - 1)
    BY <2>5, <2>7, <2>8 DEF IsRun
  <2>10. <<h, e - 1>> = r
    BY <1>11, <2>1, <2>7, <2>9
  <2>11. h = f
    BY <1>15, <2>10
  <2> QED
    BY <1>6, <1>13, <2>3, <2>11
<1> QED
  BY <1>1, <1>6, <1>9, <1>13, <1>16 DEF GoodHead

\* What a handler makes of the rest of a GIVE, as GiveExact has it
GiveRight(rest, reading) ==
  LET list == From(After(rest), Span(After(rest), 1, IsSpace))
      refused == reading.users = {Refused}
  IN  /\ ~refused =>
           /\ Before(rest) # rest
           /\ Numbers(Before(rest)) = {reading.to} /\ Cardinality(Runs(Before(rest))) = 1
           /\ \A i \in 1 .. Len(Before(rest)) : Char(rest, i) \in IsDigit \cup IsSpace
           /\ reading.to \in cp.lead
           /\ reading.new <=> list = NewWord
           /\ ~reading.new => reading.users = Meant(list) /\ reading.users # {}
      /\ refused =>
           \/ Before(rest) = rest
           \/ ~ \E to \in cp.lead : Numbers(Before(rest)) = {to}
           \/ Cardinality(Runs(Before(rest))) # 1
           \/ \E i \in 1 .. Len(Before(rest)) : Char(rest, i) \notin IsDigit \cup IsSpace
           \/ list # NewWord /\ Meant(list) \in {{}, {Refused}}

LEMMA GiveIs ==
  ASSUME NEW con, NEW s, NEW list, list = From(s, Span(s, HeadSemi(s) + 1, IsSpace))
  PROVE  cmd_give(con, s) =
           IF ~ GoodHead(s) \/ Value(s, 1) \notin con.lead THEN Rejected
           ELSE IF cmd_comp(list, NewWord) THEN [Plain EXCEPT !.to = Value(s, 1), !.new = TRUE]
           ELSE IF cmd_argmap(con, list) = {} THEN Rejected
           ELSE [Listed(cmd_argmap(con, list)) EXCEPT !.to = Value(s, 1)]
BY DEF cmd_give, GoodHead, HeadSemi, Value, Begin, End

LEMMA GiveHeadRefused ==
  ASSUME NEW s, IsString(s), ~ GoodHead(s) \/ Value(s, 1) \notin cp.lead
  PROVE  GiveRight(s, cmd_give(cp, s))
<1>1. PICK list : list = From(s, Span(s, HeadSemi(s) + 1, IsSpace))
  OBVIOUS
<1>2. cmd_give(cp, s) = Rejected
  BY <1>1, GiveIs
<1>3. Rejected.users = {Refused}
  BY DEF Rejected, Plain
<1>4. PICK m \in Nat : IsBefore(s, m, Before(s))
  BY BeforeIs
<1>5. PICK b : b = Before(s)
  OBVIOUS
<1>6. Len(b) = m
  BY <1>4, <1>5 DEF IsBefore
<1>7. \/ b = s
      \/ ~ \E to \in cp.lead : Numbers(b) = {to}
      \/ Cardinality(Runs(b)) # 1
      \/ \E i \in 1 .. Len(b) : Char(s, i) \notin IsDigit \cup IsSpace
  <2> SUFFICES ASSUME b # s, Cardinality(Runs(b)) = 1,
                      \A i \in 1 .. m : Char(s, i) \in IsDigit \cup IsSpace
               PROVE  ~ \E to \in cp.lead : Numbers(b) = {to}
    BY <1>6
  <2>1. GoodHead(s)
    BY <1>4, <1>5, HeadBad
  <2>2. Numbers(b) = {Value(s, 1)}
    BY <1>4, <1>5, <2>1, HeadGood
  <2> QED
    BY <2>1, <2>2
<1> QED
  BY <1>2, <1>3, <1>5, <1>7 DEF GiveRight

LEMMA GiveHeadTaken ==
  ASSUME NEW s, IsString(s), Refused \notin cp.who, GoodHead(s), Value(s, 1) \in cp.lead
  PROVE  GiveRight(s, cmd_give(cp, s))
<1>1. PICK b : b = Before(s)
  OBVIOUS
<1>2. PICK m \in Nat : IsBefore(s, m, b)
  BY <1>1, BeforeIs
<1>3. /\ HeadSemi(s) = m + 1 /\ m < Len(s)
      /\ Numbers(b) = {Value(s, 1)}
      /\ \A k \in 1 .. m : Char(s, k) \in IsDigit \cup IsSpace
  BY <1>2, HeadGood
<1>4. Cardinality(Runs(b)) = 1
  <2>1. Runs(b) = {<<Begin(s, 1), End(s, 1) - 1>>}
    BY <1>2, HeadGood
  <2> QED
    BY <2>1, FS_Singleton
<1>5. Len(b) = m /\ b # s
  BY <1>2, <1>3 DEF IsBefore
<1>6. PICK i \in Nat : i = m + 2
  OBVIOUS
<1>7. i \in 1 .. Len(s) + 1 /\ HeadSemi(s) + 1 = i
  <2>1. PICK n \in Nat : n = Len(s)
    BY StringLen
  <2> QED
    BY <1>3, <1>6, <2>1
<1>8. PICK list : list = From(After(s), Span(After(s), 1, IsSpace))
  OBVIOUS
<1>9. list = From(s, Span(s, i, IsSpace)) /\ IsString(list)
  <2>1. After(s) = From(s, i)
    BY <1>1, <1>5, <1>6 DEF After
  <2> QED
    BY <1>7, <1>8, <2>1, RestIs
<1>10. PICK map, to : map = cmd_argmap(cp, list) /\ to = Value(s, 1)
  OBVIOUS
<1>11. cmd_give(cp, s) =
         IF cmd_comp(list, NewWord) THEN [Plain EXCEPT !.to = to, !.new = TRUE]
         ELSE IF map = {} THEN Rejected
         ELSE [Listed(map) EXCEPT !.to = to]
  BY <1>7, <1>9, <1>10, GiveIs
<1>12. cmd_comp(list, NewWord) <=> list = NewWord
  BY <1>9, NewIs
<1>13. PICK reading : reading = cmd_give(cp, s)
  OBVIOUS
<1>14. CASE list = NewWord
  <2>1. reading.users = {} /\ reading.to = to /\ reading.new = TRUE
    BY <1>11, <1>12, <1>13, <1>14 DEF Plain
  <2> QED
    BY <1>1, <1>3, <1>4, <1>5, <1>8, <1>10, <1>13, <1>14, <2>1 DEF GiveRight
<1>15. CASE list # NewWord /\ map = {}
  <2>1. reading.users = {Refused}
    BY <1>11, <1>12, <1>13, <1>15 DEF Rejected, Plain
  <2>2. Meant(list) = {}
    BY <1>9, <1>10, <1>15, ArgmapMeant
  <2> QED
    BY <1>8, <1>13, <1>15, <2>1, <2>2 DEF GiveRight
<1>16. CASE list # NewWord /\ map # {}
  <2>1. reading = [Listed(map) EXCEPT !.to = to]
    BY <1>11, <1>12, <1>13, <1>16
  <2>2. reading.users = Listed(map).users /\ reading.to = to /\ reading.new = FALSE
    BY <2>1 DEF Listed, Rejected, Plain
  <2>3. reading.users = Meant(list)
    BY <1>9, <1>10, <2>2, ArgmapMeant
  <2>4. Meant(list) # {}
    BY <1>9, <1>10, <1>16, ArgmapMeant
  <2> QED
    BY <1>1, <1>3, <1>4, <1>5, <1>8, <1>10, <1>13, <1>16, <2>2, <2>3, <2>4 DEF GiveRight
<1> QED
  BY <1>14, <1>15, <1>16

\* GiveExact: GIVE goes to the one number before its semicolon, a master's, and is
\* about the new users or a list that is not empty, never both (cmd_give).
THEOREM GiveExactCorrect == Spec => []GiveExact
<1>1. ICall => GiveExact
  <2> SUFFICES ASSUME ICall, Complete, call.entry = "give"
               PROVE  GiveRight(Rest(line), call.reading)
    BY DEF GiveExact, GiveRight
  <2>1. line \in Seq(Characters) /\ call = con_command(cp, line) /\ Refused \notin cp.who
    BY SizeAssumption DEF ICall, Refused
  <2>2. PICK s : s = Rest(line)
    OBVIOUS
  <2>3. IsString(s)
    BY <2>1, <2>2, LineParts
  <2>4. call.reading = Read(call.entry, cp, s)
    BY <2>1, <2>2 DEF con_command
  <2>5. call.reading = cmd_give(cp, s)
    BY <2>4 DEF Read, ListTakers
  <2> QED
    BY <2>1, <2>2, <2>3, <2>5, GiveHeadRefused, GiveHeadTaken
<1> QED
  BY <1>1, CallCorrect, PTL

=============================================================================
