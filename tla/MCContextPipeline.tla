-------------------------- MODULE MCContextPipeline --------------------------
(***************************************************************************)
(* Three source files and what two words and a phrase find in them: a      *)
(* definition longer than its cap, a class around a function, a variable   *)
(* and its type, hits next to one another, inside a definition and far     *)
(* from everything, and a file no symbol is in.                            *)
(***************************************************************************)
EXTENDS ContextPipeline

CONSTANTS F, G, H, W1, W2, Rules, Commit

Symbol(name, file, kind, first, last, type) ==
  [name |-> name, file |-> file, kind |-> kind, first |-> first, last |-> last, type |-> type]

Class    == Symbol("K", F, "Class", 1, 50, "")
Method   == Symbol("K::m", F, "Function", 10, 12, "")
Variable == Symbol("v", G, "Variable", 3, 3, "K")
Long     == Symbol("long", G, "Function", 20, 160, "")
Short    == Symbol("s", H, "Function", 4, 6, "")

Hit(file, line, score, phrase) == [file |-> file, line |-> line, score |-> score, phrase |-> phrase]

MCMatches ==
  { (W1 :> (Method :> 70 @@ Variable :> 100)) @@ (W2 :> (Long :> 45)),
    (W1 :> (Class :> 105 @@ Method :> 70 @@ Short :> 70)) @@ (W2 :> (Class :> 45 @@ Variable :> 45)),
    (W1 :> (Short :> 100 @@ Long :> 70)) @@ (W2 :> (Class :> 75 @@ Variable :> 45 @@ Method :> 75)),
    (W1 :> (Long :> 105)) @@ (W2 :> (Long :> 105)),
    (W1 :> (Short :> 40)) @@ (W2 :> <<>>) }

MCHits ==
  { {Hit(F, 60, 10, FALSE), Hit(F, 68, 25, FALSE), Hit(G, 30, 10, FALSE), Hit(H, 30, 0, TRUE)},
    {Hit(F, 11, 25, FALSE), Hit(G, 190, 10, TRUE), Hit(G, 190, 25, FALSE), Hit(H, 2, 10, FALSE), Hit(H, 25, 15, FALSE)},
    {Hit(F, 63, 10, FALSE), Hit(G, 100, 0, TRUE), Hit(G, 180, 0, TRUE), Hit(G, 192, 10, FALSE), Hit(H, 20, 10, FALSE)} }

\* A file of each combination of small, decodable and allowed occurs.
MCProjects ==
  { [path |-> <<F, G, H>>, scanned |-> {F, G, H}, small |-> small, text |-> text, tests |-> tests,
     allowed |-> allowed, active |-> active,
     lines |-> (F :> 70 @@ G :> 200 @@ H :> 40),
     score |-> (F :> (W1 :> 45 @@ W2 :> 25) @@ G :> (W1 :> 0 @@ W2 :> 0) @@ H :> (W1 :> 60 @@ W2 :> 0)),
     symbols |-> {Class, Method, Variable, Long, Short}, matches |-> matches, hits |-> hits,
     includes |-> (F :> <<G, H>> @@ G :> <<H>> @@ H :> <<F>>),
     offered |-> <<[name |-> Rules, source |-> "Custom", priority |-> 60, chars |-> 900],
                   [name |-> Commit, source |-> "GitDiff", priority |-> 8, chars |-> 400],
                   [name |-> G, source |-> "File", priority |-> 40, chars |-> 1670, first |-> 10, last |-> 50, whole |-> FALSE],
                   [name |-> H, source |-> "File", priority |-> 28, chars |-> 1630, first |-> 1, last |-> 40, whole |-> TRUE]>>] :
    small \in {{F}, {F, H}, {F, G, H}}, text \in {{F, G, H}, {F, G}, {G, H}}, tests \in {{}, {H}},
    allowed \in {{F, G, H}, {F, H}, {G, H}, {F, G}}, active \in {NoFile, G},
    matches \in MCMatches, hits \in MCHits }
=============================================================================
