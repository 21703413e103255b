---- MODULE MCLines ----
EXTENDS Lines

\* An empty line, and two that can be told apart
SomeText == {<<>>, <<"x">>, <<"y">>}
EveryEnd == {<<CR>>, <<LF>>, <<CR, LF>>}
====
