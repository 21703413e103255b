----------------------------- MODULE MCCommands -----------------------------
EXTENDS Commands

\* User #0 is connected, or has gone; one leads in each case.
PresentUsers == {[who |-> {0, 1}, lead |-> {0}], [who |-> {1}, lead |-> {1}]}

Arguments == {Chars(t) : t \in {"0", "1", " ", ",", ";", "new", "!"}}
Beforehand == {Chars(w) : w \in {"", "gi", "ki"}}
=============================================================================
