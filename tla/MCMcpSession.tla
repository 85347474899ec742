---------------------------- MODULE MCMcpSession ----------------------------
(***************************************************************************)
(* Three files, one of them denied, that change between UTF-8, another     *)
(* encoding and bytes that are no text; every tool is called with an       *)
(* argument that finds both files, with the path of each, and without.     *)
(***************************************************************************)
EXTENDS McpSession

CONSTANTS codeFile, nextFile, secret, C1, C2, J, B, someName, i1, i2

MCFiles == {codeFile, nextFile, secret}
MCEncoding == C1 :> "utf8" @@ C2 :> "utf8" @@ J :> "cp932" @@ B :> "binary"
MCAtStart == codeFile :> C1 @@ nextFile :> C1 @@ secret :> C1

Everything ==
  {"symbol_index", "project_root", "context_retriever", "include_graph", "call_graph", "inheritance_graph",
   "reference_graph", "ast_index", "impact_analyzer", "backend_registry", "git_writes", "editor_state_store"}

Started(has, allowlist, budget, suppress) ==
  [has |-> has, allowlist |-> allowlist, budget |-> budget, suppress |-> suppress]

\* What main() and the tests start: everything, with and without options, and
\* single parts.
MCConfigurations ==
  {Started(Everything, {}, budget, TRUE) : budget \in {"json", "text", "none"}}
    \cup {Started(Everything \ {"git_writes"}, {"context_retrieve", "git_tag", "ast_tree"}, "json", FALSE),
          Started({"backend_registry"}, {}, "none", FALSE), Started({"impact_analyzer"}, {}, "none", FALSE),
          Started({"project_root"}, {}, "none", FALSE)}

Tools ==
  {"symbol_search", "keyword_search", "context_fetch", "include_graph", "call_graph", "inheritance_graph",
   "reference_graph", "ast_tree", "impact_analysis", "changed_impact_analysis", "branch_impact_analysis"}

AskedOfPaths == {"include_graph", "impact_analysis"}

\* A name that is in two files, one in the denied file, paths, and nothing; the
\* allowed file and the denied one include each other.
MCNames ==
  [t \in Tools |->
    [d \in {"default", "Symbol", "Custom", "Dependency"} |->
       someName :> (IF d = "Symbol" \/ d = "Custom" THEN {secret} ELSE {codeFile, secret})
         @@ codeFile :> (IF t \in AskedOfPaths THEN {secret, nextFile} ELSE {codeFile})
         @@ secret :> (IF t \in AskedOfPaths THEN {codeFile, secret} ELSE {secret})
         @@ Missing :> {}]]

MCIdentifier == someName :> someName @@ codeFile :> codeFile @@ secret :> secret @@ Missing :> someName

MCCalls ==
  {[tool |-> t, direction |-> d, subject |-> s] :
     t \in Tools, d \in {"default"}, s \in {someName, codeFile, secret, Missing}}
  \cup {[tool |-> t, direction |-> "default", subject |-> someName] :
     t \in {"project_rules", "similar_change_search", "git_commit", "git_stash", "active_document", "no such tool"}}
  \cup {[tool |-> "context_fetch", direction |-> d, subject |-> s] :
     d \in {"Symbol", "Dependency", "GitDiff", "Custom", "unknown", "bad mode", "File"},
     s \in {someName, codeFile, secret}}
  \cup {[tool |-> "context_retrieve", direction |-> "default", subject |-> s] : s \in {i1, i2, Missing}}

Item(id, file, kind) == [id |-> id, file |-> file, kind |-> kind]

\* The second intent finds what the first does, and a variable of another file.
MCFinds ==
  i1 :> {Item("a", codeFile, "text"), Item("b", codeFile, "line"), Item("c", codeFile, "stub")}
    @@ i2 :> {Item("a", codeFile, "text"), Item("v", nextFile, "signature"), Item("s", secret, "text")}
=============================================================================
