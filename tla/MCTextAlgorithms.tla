--------------------------- MODULE MCTextAlgorithms ---------------------------
(* The inputs of TextAlgorithms: every one of a kind up to a length.        *)
EXTENDS TextAlgorithms

UpTo(S, n) == UNION {[1..k -> S] : k \in 0..n}

IdPaths == {<<"f">>, <<"f", "-">>}
IdNames == {<<"a">>, <<"b", ":", ":", "a">>, <<":", ":", "a">>, <<"a", "-", ">">>}
Bodies == UpTo({Line(" ", 0), Line("+", 0), Line("-", 0), Line("+", 1), Line("\\", 0)}, 3)
Changes == [path : {"p", "q", Nothing}, start : {1, 3}, body : Bodies]
ShortTexts == UpTo({"a", "b", "A", "."}, 4)
LinesOfText == [text : {<<"a">>, <<"A", ".", "a">>, <<"b", "a">>, <<"b">>}, encoding : {"utf8", "cp932", "binary"}]
Worktrees == {[path |-> p, head |-> "h", branch |-> b] : p \in {"w1", "w2"}, b \in {Nothing, "main"}}
               \cup {[path |-> "w1", head |-> Nothing, branch |-> Nothing]}

TextInputs ==
  [quote      |-> UpTo(UpTo({" ", "\"", "\\", "a"}, 3), 1) \cup UpTo(UpTo({" ", "\"", "\\"}, 2), 2),
   utf        |-> [text : UpTo(0..4, 5), at : 0..6],
   excerpt    |-> [lines : {0, 3, 6}, ranges : UpTo([start : {-1, 1, 3, 4, 6}, end : {0, 2, 3, 5, 7}], 2)],
   diff       |-> {<<c>> : c \in Changes} \cup ({c \in Changes : Len(c.body) < 2} \X {c \in Changes : Len(c.body) < 2 /\ c.path # "p"}),
   identifier |-> [text : ShortTexts, at : 0..5],
   id         |-> [kind : {"symbol"}, path : IdPaths, name : IdNames]
                    \cup [kind : {"dependency"}, path : IdPaths, name : IdPaths]
                    \cup [kind : {"keyword"}, path : IdPaths, name : {<<"1">>, <<"1", "0">>}]
                    \cup [kind : {"commit"}, path : {<<>>}, name : {[i \in 1..n |-> "a"] : n \in {4, 40}}],
   worktrees  |-> UpTo(Worktrees, 3),
   history    |-> UpTo([1..3 -> {<<"a">>}] \cup {<<<<"a">>, <<"b">>, s>> : s \in UpTo({"a", "US"}, 3)}, 2),
   search     |-> [lines : UpTo(LinesOfText, 2), queries : UpTo({<<>>, <<"a">>, <<"A">>, <<"b", "a">>}, 2), max : {1, 2}],
   symbols    |-> [names : UpTo({<<"a">>, <<"A">>, <<"b", ".", "a">>, <<"a", "b">>, <<"b", "a">>}, 3), query : {<<>>, <<"a">>, <<"A">>, <<"b", ".", "a">>}, max : {1, 3}]]
=============================================================================
