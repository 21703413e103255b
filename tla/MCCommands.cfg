\* All words that begin like a command; arguments after no word (a TELL)
\* and after GI.
CONSTANTS
  Size = 2
  Present <- PresentUsers
  Others = {"!"}
  Tokens <- Arguments
  ArgWords <- Beforehand
  MaxArgs = 5
SPECIFICATION Spec
INVARIANTS DispatchExact ListExact GiveExact
