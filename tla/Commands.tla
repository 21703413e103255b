------------------------------- MODULE Commands -------------------------------
(***************************************************************************)
(* What a line means to the server: which command its first word calls     *)
(* (con_command, cmd_match, cmd_comp), and which users the arguments name  *)
(* (cmd_argmap, and the header of GIVE).  A user types the line character  *)
(* by character; RETURN has it parsed.                                     *)
(*                                                                         *)
(* A string is the sequence of its characters, with its NUL behind them.   *)
(* Letters are typed in lower case: cmd_comp does not distinguish the      *)
(* cases.                                                                  *)
(***************************************************************************)
EXTENDS Integers, Sequences, FiniteSets

CONSTANTS
  Size,       \* slots of the conference (con.size)
  Present,    \* who may be connected, and who leads among them
  Others,     \* characters that mean nothing in a command
  Tokens,     \* what arguments are made of: characters, or NEW
  ArgWords,   \* bound: the words after which arguments are typed
  MaxArgs     \* bound: length of the arguments

ASSUME SizeAssumption == Size \in Nat \ {0}
ASSUME PresentAssumption ==
  \A con \in Present : con.lead \subseteq con.who /\ con.who \subseteq 0 .. Size - 1

VARIABLES
  cp,       \* the conference: users connected (who), and the masters and
            \* submasters among them (lead)
  line,     \* what has been typed
  call      \* what a complete line is taken for: the function it calls and
            \* what that makes of the rest; or Typing

vars == <<cp, line, call>>

-----------------------------------------------------------------------------
\* The command vector: a name, with a star wherever it may be cut off, and the
\* function it calls
cmdtab == <<
  <<"*t*e*ll", "tell">>, <<"w*ho", "who">>, <<"by*e", "bye">>, <<"p*ort", "port">>,
  <<"id", "id">>, <<"im*p", "im">>, <<"ra*ll", "ra">>, <<"aa*ll", "aa">>,
  <<"ig*nore", "ig">>, <<"ac*cept", "ac">>, <<"an", "an">>, <<"rn", "rn">>,
  <<"rp", "rp">>, <<"rc", "rc">>, <<"oc", "oc">>, <<"ou*t", "out">>,
  <<"ti*me", "time">>, <<"tt*y", "tty">>, <<"le*ft", "left">>, <<"rb", "rb">>,
  <<"ab", "ab">>, <<"c*l*ock", "clock">>, <<"in*f*o", "info">>, <<"dw", "dw">>,
  <<"us*ers", "usrs">>, <<"nu*mber", "usrs">>, <<"a", "all">>,
  <<"ev*erything", "all">>, <<"wa*rn", "warn">>, <<"bo", "nimp">>,
  <<"nb*o", "nimp">>, <<"lb*o", "nimp">>, <<"bu", "nimp">>, <<"ki*ll", "kill">>,
  <<"al*l", "all">>, <<"he*lp", "help">>, <<"en*able", "en">>,
  <<"di*s*able", "dis">>, <<"xw*h*o", "xwho">>, <<"l*in*e", "lin">>,
  <<"mt*y", "mty">>, <<"gi*ve", "give">>, <<"e*x*p*l*ain", "exp">>,
  <<"no*r*m", "norm">>, <<"st*op", "bye">>, <<"ve*r*s*ion", "vers">>,
  <<"be*l*ow", "below">>, <<"xdl", "xdl">>, <<"xlang", "xlang">>,
  <<"xyzzy", "xyzzy">>, <<"xtend", "xtend">>, <<"xreset", "xreset">>,
  <<"ru*n*time", "ru">> >>

Digits == <<"0", "1", "2", "3", "4", "5", "6", "7", "8", "9">>
NUL == ""
Blank == " "
Comma == ","
Semicolon == ";"

\* The characters of a name in the vector
Chars(name) == [i \in 1 .. Len(name) |-> SubSeq(name, i, i)]
Names == [ix \in DOMAIN cmdtab |-> Chars(cmdtab[ix][1])]

\* The functions that hand the rest of the line to cmd_argmap
ListTakers == {"tell", "who", "port", "all", "xwho", "below", "ig", "ac", "kill",
               "mty", "norm"}

Char(s, i) == IF i \in 1 .. Len(s) THEN s[i] ELSE NUL
From(s, i) == SubSeq(s, i, Len(s))

\* where a loop `while (is...(s[i])) ++i' stops
Span(s, i, class) ==
  CHOOSE j \in i .. Len(s) + 1 :
    Char(s, j) \notin class /\ \A k \in i .. j - 1 : Char(s, k) \in class

IsDigit == {Digits[d] : d \in 1 .. 10}
IsSpace == {Blank}
IsAlpha == {"a", "b", "c", "d", "e", "f", "g", "h", "i", "j", "k", "l", "m", "n",
            "o", "p", "q", "r", "s", "t", "u", "v", "w", "x", "y", "z"}
Characters == IsDigit \cup IsSpace \cup IsAlpha \cup {Comma, Semicolon} \cup Others

ASSUME OthersAssumption == NUL \notin Others
ASSUME TokensAssumption == Tokens \subseteq Seq(Characters)

\* Definitions ending in Bug are their namesakes with one plausible mistake.

\* Whether str is a spelling of the command cmd.  Every turn of the code's loop
\* takes one character of cmd: at[cx] is the place in str it has come to after
\* cx of them, none if it has given up before.  When str has come to its end, the
\* code's flag `ok' is never set: a star does not consume anything of str.
cmd_compPrefixBug(str, cmd) ==
  LET at[cx \in 0 .. Len(cmd)] ==
        IF cx = 0 THEN 1
        ELSE LET sx == at[cx - 1]
             IN  IF Char(str, sx) = cmd[cx] THEN sx + 1
                 ELSE IF cmd[cx] = "*" THEN sx ELSE 0
  IN  \E cx \in 0 .. Len(cmd) : at[cx] = Len(str) + 1

cmd_comp(str, cmd) ==
  LET at[cx \in 0 .. Len(cmd)] ==
        IF cx = 0 THEN 1
        ELSE LET sx == at[cx - 1]
             IN  IF Char(str, sx) = cmd[cx] THEN sx + 1
                 ELSE IF cmd[cx] = "*" THEN sx ELSE 0
  IN  \E cx \in 0 .. Len(cmd) :
        at[cx] = Len(str) + 1 /\ Char(cmd, cx + 1) \in {NUL, "*"}

\* The first command str is a spelling of, or none
Unknown == "unknown"
cmd_match(str) ==
  LET found == {ix \in DOMAIN cmdtab : cmd_comp(str, Names[ix])}
  IN  IF found = {} THEN Unknown
      ELSE cmdtab[CHOOSE ix \in found : \A jx \in found : ix <= jx][2]

\* The number of a run of digits
Number(s) ==
  LET val[n \in 0 .. Len(s)] ==
        IF n = 0 THEN 0
        ELSE 10 * val[n - 1] + (CHOOSE d \in 0 .. 9 : Digits[d + 1] = Char(s, n))
  IN  val[Len(s)]

\* Only letters, digits, blanks and commas come before a semicolon.
cmd_isok(s) ==
  Char(s, Span(s, 1, IsAlpha \cup IsDigit \cup IsSpace \cup {Comma})) \in {NUL, Semicolon}

\* cmd_argmap: the users named by s; with Refused among them s is not a list of
\* users who are connected.
Refused == -1

cmd_argmapPastBug(con, s) ==
  LET list[i \in 1 .. Len(s) + 1] ==
        IF Char(s, i) \in {NUL, Semicolon} THEN {}
        ELSE LET first == Span(s, i, IsSpace)
                 last == Span(s, first, IsDigit)
                 val == Number(SubSeq(s, first, last - 1))
                 sep == Char(s, last)
             IN  IF sep \notin {Blank, Comma, Semicolon, NUL} \/ val \notin con.who THEN {Refused}
                 ELSE {val} \cup list[IF sep = NUL THEN last ELSE last + 1]
  IN  IF cmd_isok(s) THEN list[Span(s, 1, IsSpace)] ELSE {Refused}

cmd_argmap(con, s) ==
  LET list[i \in 1 .. Len(s) + 1] ==
        IF Char(s, i) \in {NUL, Semicolon} THEN {}
        ELSE LET first == Span(s, i, IsSpace)
                 last == Span(s, first, IsDigit)
                 val == Number(SubSeq(s, first, last - 1))
                 sep == Char(s, last)
             IN  IF sep \notin {Blank, Comma, Semicolon, NUL} \/ val \notin con.who THEN {Refused}
                 ELSE {val} \cup list[IF sep \in {NUL, Semicolon} THEN last ELSE last + 1]
  IN  IF cmd_isok(s) THEN list[Span(s, 1, IsSpace)] ELSE {Refused}

\* What a handler makes of the rest of the line: the users it is about, whom
\* they go to (GIVE), and whether it is about the new users (GIVE n;NEW).
Plain == [users |-> {}, to |-> Refused, new |-> FALSE]
Rejected == [Plain EXCEPT !.users = {Refused}]
Listed(map) == IF Refused \in map THEN Rejected ELSE [Plain EXCEPT !.users = map]

NewWord == <<"n", "e", "w">>

\* cmd_give: a master, a semicolon, and NEW or a list that is not empty
cmd_giveTightBug(con, s) ==
  LET num == Span(s, 1, IsSpace)
      semi == Span(s, num, IsDigit)
      rest == From(s, Span(s, semi + 1, IsSpace))
      to == Number(SubSeq(s, num, semi - 1))
  IN  IF num = semi \/ to \notin con.lead \/ Char(s, semi) # Semicolon THEN Rejected
      ELSE IF cmd_comp(rest, NewWord) THEN [Plain EXCEPT !.to = to, !.new = TRUE]
      ELSE IF cmd_argmap(con, rest) = {} THEN Rejected
      ELSE [Listed(cmd_argmap(con, rest)) EXCEPT !.to = to]

cmd_give(con, s) ==
  LET num == Span(s, 1, IsSpace)
      end == Span(s, num, IsDigit)
      semi == Span(s, end, IsSpace)
      rest == From(s, Span(s, semi + 1, IsSpace))
      to == Number(SubSeq(s, num, end - 1))
  IN  IF num = end \/ to \notin con.lead \/ Char(s, semi) # Semicolon THEN Rejected
      ELSE IF cmd_comp(rest, NewWord) THEN [Plain EXCEPT !.to = to, !.new = TRUE]
      ELSE IF cmd_argmap(con, rest) = {} THEN Rejected
      ELSE [Listed(cmd_argmap(con, rest)) EXCEPT !.to = to]

Read(entry, con, s) ==
  CASE entry = "give" -> cmd_give(con, s)
    [] entry \in ListTakers -> Listed(cmd_argmap(con, s))
    [] OTHER -> Plain

\* con_command: an empty line asks for impending messages; a line with text and
\* no word is matched against the commands with an empty name.
WordStart(s) == Span(s, 1, IsSpace)
WordEnd(s) == Span(s, WordStart(s), IsAlpha)
Word(s) == SubSeq(s, WordStart(s), WordEnd(s) - 1)
Rest(s) == From(s, WordEnd(s))

con_command(con, s) ==
  LET empty == Word(s) = <<>> /\ Rest(s) = <<>>
      entry == cmd_match(IF empty THEN <<"i", "m">> ELSE Word(s))
  IN  [entry |-> entry, reading |-> Read(entry, con, Rest(s))]

-----------------------------------------------------------------------------
\* The first n characters of a command's name, without the stars among them;
\* a command's spellings
Stripped(name) ==
  LET strip[n \in 0 .. Len(name)] ==
        IF n = 0 THEN <<>>
        ELSE IF name[n] = "*" THEN strip[n - 1] ELSE Append(strip[n - 1], name[n])
  IN  strip

Spelt(name) ==
  {Stripped(name)[n] : n \in {m \in 0 .. Len(name) : Char(name, m + 1) \in {NUL, "*"}}}
Spellings == [ix \in DOMAIN cmdtab |-> Spelt(Names[ix])]

\* The vector is a literal: what is assumed of it is true of it, as TLC finds.
ASSUME TableAssumption ==
  /\ \A ix \in DOMAIN cmdtab : Names[ix] \in Seq(IsAlpha \cup {"*"})
  /\ \A ix, jx \in DOMAIN cmdtab : ix # jx => Spellings[ix] \cap Spellings[jx] = {}
  /\ cmd_match(<<"i", "m">>) = "im"

\* Bound: words are the beginnings of command names, with one more letter.
Beginnings ==
  UNION {{Stripped(Names[ix])[n] : n \in 0 .. Len(Names[ix])} : ix \in DOMAIN cmdtab}

\* The numbers in s: where each begins and ends, and their values
Runs(s) ==
  {r \in (1 .. Len(s)) \X (1 .. Len(s)) :
     /\ r[1] <= r[2] /\ \A k \in r[1] .. r[2] : Char(s, k) \in IsDigit
     /\ Char(s, r[1] - 1) \notin IsDigit /\ Char(s, r[2] + 1) \notin IsDigit}
Numbers(s) == {Number(SubSeq(s, r[1], r[2])) : r \in Runs(s)}

\* What comes before the first semicolon, and what follows it
Before(s) == SubSeq(s, 1, Span(s, 1, {Char(s, i) : i \in 1 .. Len(s)} \ {Semicolon}) - 1)
After(s) == From(s, Len(Before(s)) + 2)

Typing == [entry |-> "", reading |-> Plain]

Init ==
  /\ cp \in Present /\ line = <<>> /\ call = Typing

\* A letter of the word, or a blank before it
TypeWord(c) ==
  /\ call = Typing /\ Rest(line) = <<>>
  /\ IF c = Blank THEN line = <<>> ELSE Word(line) \in Beginnings
  /\ line' = Append(line, c)
  /\ UNCHANGED <<cp, call>>

\* Arguments of a line that does not begin with a blank.  Bound: the number GIVE
\* goes to stays below Size, which cmd_give does not check.
TypeArgs(c) ==
  /\ call = Typing /\ Word(line) \in ArgWords
  /\ Char(line, 1) # Blank /\ (c = <<Blank>> => line # <<>>)
  /\ Len(Rest(line)) + Len(c) <= MaxArgs
  /\ cmd_match(Word(line)) = "give" =>
       \A n \in Numbers(Before(Rest(line) \o c)) : n < Size
  /\ line' = line \o c
  /\ UNCHANGED <<cp, call>>

Return ==
  /\ call = Typing /\ call' = con_command(cp, line)
  /\ UNCHANGED <<cp, line>>

NextLine ==
  /\ call # Typing /\ call' = Typing /\ line' = <<>>
  /\ UNCHANGED cp

Next ==
  \/ \E c \in IsAlpha \cup IsSpace : TypeWord(c)
  \/ \E c \in Tokens : TypeArgs(c)
  \/ Return \/ NextLine

Spec == Init /\ [][Next]_vars

-----------------------------------------------------------------------------
Complete == call # Typing

\* A line calls the one command its word is a spelling of, whatever the order
\* of the vector: no word is a spelling of two commands.  An empty line is IM,
\* and a line that begins with a number is a TELL.  The spellings are those of
\* the vector, which has no star behind the second letter of PORT, WHO and LINE:
\* that any command may be shortened to two letters, as the help text says, is not
\* true of them.
DispatchExact ==
  Complete =>
    LET named == {ix \in DOMAIN cmdtab : Word(line) \in Spellings[ix]}
    IN  /\ Cardinality(named) <= 1
        /\ call.entry =
             IF \A i \in 1 .. Len(line) : Char(line, i) = Blank THEN "im"
             ELSE IF named = {} THEN Unknown ELSE cmdtab[CHOOSE ix \in named : TRUE][2]

\* Whether s has a separator where a number was due: a comma that does not
\* follow a digit, or a blank at the end that does not.
Unled(s, i) == Char(s, i - 1) \notin IsDigit
Stray(s) ==
  LET t == From(s, Span(s, 1, IsSpace))
  IN  \/ \E i \in 1 .. Len(t) : Char(t, i) = Comma /\ Unled(t, i)
      \/ Len(t) > 1 /\ Char(t, Len(t)) = Blank /\ Unled(t, Len(t))

\* The users a list stands for
Meant(s) ==
  LET list == Before(s)
      map == Numbers(list) \cup {z \in {0} : Stray(list)}
  IN  IF map \subseteq cp.who
         /\ \A i \in 1 .. Len(list) : Char(list, i) \in IsDigit \cup {Blank, Comma}
      THEN map ELSE {Refused}

\* A list of users means the numbers typed, all of them connected, and nobody
\* else but #0, who is meant whenever a separator stands where a number was due.
ListExact ==
  Complete /\ call.entry \in ListTakers => call.reading.users = Meant(Rest(line))

\* GIVE goes to the one number before its semicolon, a master's, and is about
\* the new users or a list that is not empty, never both.
GiveExact ==
  Complete /\ call.entry = "give" =>
    LET rest == Rest(line)
        list == From(After(rest), Span(After(rest), 1, IsSpace))
        reading == call.reading
        refused == reading.users = {Refused}
    IN  /\ ~refused =>
             /\ Before(rest) # rest
             /\ Numbers(Before(rest)) = {reading.to} /\ Cardinality(Runs(Before(rest))) = 1
             /\ \A i \in 1 .. Len(Before(rest)) : Char(rest, i) \in IsDigit \cup IsSpace
             /\ reading.to \in cp.lead
             /\ reading.new <=> list = NewWord
             /\ ~reading.new => reading.users = Meant(list) /\ reading.users # {}
        /\ refused =>
             \/ Before(rest) = rest
             \/ ~ \E to \in cp.lead : Numbers(Before(rest)) = {to}
             \/ Cardinality(Runs(Before(rest))) # 1
             \/ \E i \in 1 .. Len(Before(rest)) : Char(rest, i) \notin IsDigit \cup IsSpace
             \/ list # NewWord /\ Meant(list) \in {{}, {Refused}}

=============================================================================
