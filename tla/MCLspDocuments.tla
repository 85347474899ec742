--------------------------- MODULE MCLspDocuments ---------------------------
EXTENDS LspDocuments

Plain(words) == [words |-> words, decl |-> None, type |-> None,
                 unresolved |-> FALSE, error |-> FALSE]

\* "struct T" and a use of it, beside an #include of a header that does not
\* exist; and "T x" with a use of x, which does not parse.
DeclaresType == <<[Plain(<<"T">>) EXCEPT !.decl = "T", !.unresolved = TRUE],
                  Plain(<<"T">>)>>
DeclaresVar  == <<[Plain(<<"T", "x">>) EXCEPT !.decl = "x", !.type = "T", !.error = TRUE],
                  Plain(<<"x">>)>>
MCTexts == {DeclaresType, DeclaresVar}

\* The file the firewall hides declares the type of the other one's variable.
MCDisk == [f \in Files |-> IF f \in Firewalled THEN DeclaresType ELSE DeclaresVar]
=============================================================================
