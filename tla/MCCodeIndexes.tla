--------------------------- MODULE MCCodeIndexes ---------------------------
(***************************************************************************)
(* Four paths: two headers of the same name, one more header and a source  *)
(* file that is no C++.  Two contents that include one another's header,   *)
(* so that cycles, a better match and a lost match all happen.             *)
(***************************************************************************)
EXTENDS CodeIndexes

CONSTANTS A, B  \* two contents

Short == <<"x.h">>
Long  == <<"lib", "x.h">>
Other == <<"y.h">>
Text  == <<"z.inc">>

MCFiles   == {Short, Long, Other, Text}
MCSources == {Short, Long, Other}
MCLonger  == [f \in MCFiles |-> CASE f = Short -> 1 [] f = Other -> 2 [] f = Text -> 3 [] f = Long -> 4]

Include(text, system) == [text |-> text, system |-> system]

\* Both contents define a function, call one by two spellings and refer to it.
MCRows ==
  (A :> [includes |-> {Include(<<"x.h">>, FALSE), Include(<<"lib", "x.h">>, FALSE), Include(<<"z.inc">>, FALSE)},
         symbols |-> {[name |-> <<"f">>, line |-> 1, order |-> 1, function |-> TRUE],
                      [name |-> <<"K", "g">>, line |-> 3, order |-> 2, function |-> TRUE]},
         calls |-> {[caller |-> <<"f">>, callee |-> <<"k", "g">>]},
         bases |-> {[derived |-> <<"f">>, base |-> <<"g">>]},
         references |-> {[type |-> <<"g">>, line |-> 2]},
         trees |-> {"a"}])
  @@
  (B :> [includes |-> {Include(<<"y.h">>, FALSE), Include(<<"x.h">>, TRUE)},
         symbols |-> {[name |-> <<"g">>, line |-> 1, order |-> 1, function |-> TRUE]},
         calls |-> {[caller |-> <<"g">>, callee |-> <<"g">>]},
         bases |-> {},
         references |-> {[type |-> <<"f">>, line |-> 2]},
         trees |-> {"b"}])

\* Two headers include one another; the second header of that name is missing.
MCDisks == {[f \in MCFiles |-> IF f = Long THEN Absent ELSE IF f = Short THEN B ELSE A]}

MCDiffs == {[f \in MCFiles |-> IF f = Short THEN {2, 4} ELSE IF f = Other THEN {1} ELSE {}]}
=============================================================================
