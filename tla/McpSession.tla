----------------------------- MODULE McpSession -----------------------------
(***************************************************************************)
(* One session of McpServer: it reads requests from its input, one after   *)
(* the other, answers tools/list and tools/call from what it was           *)
(* configured with, and remembers in the SentLedger which content it has   *)
(* sent, so that unchanged content is not sent again.  Editors change the  *)
(* files between two requests.                                             *)
(*                                                                         *)
(* The indexes, the searches and the retriever are functions from what is  *)
(* asked to the files they name (CodeIndexes and ContextPipeline model     *)
(* them); they follow the disk.  An answer is the set of files it names    *)
(* and, from context_retrieve, the contents it carries; the message of an  *)
(* error, which may repeat the argument, and the texts of the backends are *)
(* left out.  A name or a text of a file that is not UTF-8 makes the       *)
(* serialization throw, and Run() answers with an error.                   *)
(***************************************************************************)
EXTENDS Naturals, FiniteSets, Sequences, SequencesExt

CONSTANTS
  ProjectFiles,
  Denied,       \* the files the firewall rejects
  Contents,     \* what a file may hold
  Encoding,     \* of each content: "utf8", "cp932" or "binary"
  AtStart,      \* the files when the session begins
  Configurations,  \* the McpServerOptions a server is started with
  Calls,        \* the tools/call requests a client makes
  NamedFiles,        \* Names[tool][direction][subject]: the files an index or a search names
  Identifier,   \* the longest identifier in a query, itself if there is no other
  Finds,        \* the items context_retrieve finds for an intent
  Missing,      \* an argument that is absent or has the wrong type
  Absent,       \* the file does not exist
  MaxRequests,  \* bound on the requests of a session
  MaxFileEdits      \* bound on the changes made to files

ASSUME DeniedAreFiles == Denied \subseteq ProjectFiles
ASSUME AbsentIsNoContent == Absent \notin Contents
ASSUME SessionBounds == MaxRequests \in Nat /\ MaxFileEdits \in Nat

VARIABLES
  options,    \* McpServerOptions
  files,      \* the content of each file
  ledger,     \* SentLedger: <<item, content, ordinal>>, one of an item
  ordinal,    \* SentLedger::current_ordinal_
  delivered,  \* the <<item, content, ordinal>> that reached the client
  asked,      \* the last line: a method, or a tool that was called
  subject,    \* the argument of that call
  answer,     \* the last answer
  requests,
  edits

mcpVars == <<options, files, ledger, ordinal, delivered, asked, subject, answer, requests, edits>>

Passing(some) == some \ Denied
Readable(f) == f \in ProjectFiles /\ files[f] # Absent
IsValidUtf8(f) == Readable(f) /\ Encoding[files[f]] = "utf8"
Decodes(f) == Readable(f) /\ Encoding[files[f]] # "binary"
-----------------------------------------------------------------------------
(* Answers. *)

Outcome(kind, named) == [kind |-> kind, named |-> named, carries |-> {}, unchanged |-> {}]
Refused == Outcome("not available", {})
ToolError == Outcome("error", {})
Threw == Outcome("threw", {})

\* dump(): text of these files, as the extractors cut it out, is in the answer.
Dumped(named, raw) == IF \A f \in raw : IsValidUtf8(f) THEN Outcome("answer", named) ELSE Threw

\* The order of every handler: is the tool there, are the arguments, the work.
Handle(needs, valid, work) ==
  IF ~(needs \subseteq options.has) THEN Refused ELSE IF ~valid THEN ToolError ELSE work

Given(call) == call.subject # Missing

\* Most answers repeat the argument, whether or not the firewall allows it.
Echo(call) == {call.subject} \cap ProjectFiles

\* What an index names, before the firewall; an unknown direction is the default.
Lookup(call) ==
  LET by == NamedFiles[call.tool]
  IN  IF call.direction \in DOMAIN by THEN by[call.direction][call.subject] ELSE by["default"][call.subject]

\* An id of a symbol or of a line begins with the path of its one file.
ASSUME IdsBeginWithPath ==
  \A call \in Calls :
    call.tool = "context_fetch" /\ call.direction \in {"Symbol", "Custom"} /\ Given(call) =>
      \A f, g \in Lookup(call) : f = g
-----------------------------------------------------------------------------
(* The tools that search and that read the indexes. *)

\* A query that finds nothing is searched again as its longest identifier.
Relaxed(call) ==
  LET found == NamedFiles[call.tool]["default"][call.subject]
  IN  IF found # {} THEN found ELSE NamedFiles[call.tool]["default"][Identifier[call.subject]]

\* Such an answer says what was asked for first.
RelaxedFrom(call) ==
  IF Relaxed(call) # NamedFiles[call.tool]["default"][call.subject] THEN Echo(call) ELSE {}

HandleSymbolSearch(call) ==
  Handle({"symbol_index"}, Given(call), Dumped(Passing(Relaxed(call)) \cup RelaxedFrom(call), Passing(Relaxed(call))))

\* As if the search kept the firewall to the grouped form.
UnfilteredSearch(call) == Handle({"project_root"}, Given(call), Dumped(Relaxed(call), {}))

HandleKeywordSearch(call) ==
  Handle({"project_root"}, Given(call),
         Dumped(Passing({f \in Relaxed(call) : Decodes(f)}) \cup RelaxedFrom(call), {}))

HandleIncludeGraph(call) ==
  Handle({"include_graph"}, Given(call), Dumped(Passing(Lookup(call)) \cup Echo(call), {}))

HandleCallGraph(call) ==
  Handle({"call_graph"}, Given(call), Dumped(Passing(Lookup(call)) \cup Echo(call), Passing(Lookup(call))))

HandleInheritanceGraph(call) ==
  Handle({"inheritance_graph"}, Given(call), Dumped(Passing(Lookup(call)) \cup Echo(call), Passing(Lookup(call))))

HandleReferenceGraph(call) ==
  Handle({"reference_graph"}, Given(call), Dumped(Passing(Lookup(call)) \cup Echo(call), {}))

HandleAstTree(call) ==
  LET tree == Lookup(call)
  IN  Handle({"ast_index"}, Given(call), IF Passing(tree) = {} THEN ToolError ELSE Dumped(Passing(tree), tree))

\* What a file that may itself be denied has an effect on.
HandleImpactAnalysis(call) ==
  Handle({"impact_analyzer"}, Given(call), Dumped(Passing(Lookup(call)) \cup Echo(call), {}))
-----------------------------------------------------------------------------
(* The tools that ask the git backend, whose answer is "ok", "raw" (no UTF-8) *)
(* or "failed".                                                               *)

HandleChangedImpactAnalysis(call, git) ==
  Handle({"impact_analyzer", "backend_registry"}, TRUE,
         IF git = "failed" THEN ToolError ELSE Dumped(Passing(Lookup(call)), {}))

HandleBranchImpactAnalysis(call, git) ==
  Handle({"impact_analyzer", "backend_registry"}, Given(call),
         IF git = "failed" THEN ToolError ELSE Dumped(Passing(Lookup(call)) \cup Echo(call), {}))

\* The text a backend returns becomes the answer as it is.
Passed(git) == IF git = "failed" THEN ToolError ELSE IF git = "raw" THEN Threw ELSE Outcome("answer", {})

HandleProjectRules(git) == Handle({"backend_registry"}, TRUE, Passed(git))

\* A commit that git.show fails on is listed without its diff.
HandleSimilarChangeSearch(call, git) == Handle({"backend_registry"}, Given(call), Passed(git))

HandleGitWriteCommand(call, git) ==
  Handle({"backend_registry", "git_writes"}, Given(call) \/ call.tool = "git_stash", Passed(git))

HandleActiveDocument == Handle({"editor_state_store"}, TRUE, Outcome("answer", {}))
-----------------------------------------------------------------------------
(* context_fetch, by the source of the item. *)

ReadProjectFile(f) == IF Readable(f) /\ Decodes(f) THEN Outcome("answer", {f}) ELSE ToolError

FetchFile(call) == IF call.subject \in Denied \/ call.direction = "bad mode" THEN ToolError ELSE ReadProjectFile(call.subject)

FetchSymbol(call) ==
  IF "symbol_index" \notin options.has \/ Passing(Lookup(call)) = {} THEN ToolError
  ELSE ReadProjectFile(CHOOSE f \in Lookup(call) : TRUE)

FetchKeyword(call) ==
  IF Passing(Lookup(call)) = {} THEN ToolError ELSE ReadProjectFile(CHOOSE f \in Lookup(call) : TRUE)

\* Rebuilt from the id alone: both ends have to be allowed.
FetchDependency(call) ==
  IF Lookup(call) = {} \/ Lookup(call) \cap Denied # {} THEN ToolError ELSE Dumped(Lookup(call), {})

FetchGitDiff(call, git) ==
  IF "backend_registry" \notin options.has \/ git # "ok" THEN ToolError ELSE Outcome("answer", {})

HandleContextFetch(call, git) ==
  Handle({"project_root"}, Given(call),
         CASE call.direction = "Symbol"     -> FetchSymbol(call)
           [] call.direction = "Dependency" -> FetchDependency(call)
           [] call.direction = "GitDiff"    -> FetchGitDiff(call, git)
           [] call.direction = "Custom"     -> FetchKeyword(call)
           [] call.direction = "unknown"    -> ToolError
           [] OTHER                         -> FetchFile(call))
-----------------------------------------------------------------------------
(* context_retrieve and the ledger.  An item is [id, file, kind]: "text" is   *)
(* decoded, "signature" is not, a "stub" has no text, a "line" is one line.   *)

ContentOf(item) == IF item.kind = "stub" THEN Missing ELSE files[item.file]
\* No two items of a retrieval have the same id (AddItem of ContextPipeline).
ASSUME ItemsAreDistinct ==
  \A call \in Calls :
    call.tool = "context_retrieve" /\ Given(call) =>
      \A i, j \in Finds[call.subject] : i.id = j.id => i = j

Retrieved(intent) == {item \in Finds[intent] : item.file \notin Denied /\ Readable(item.file)}
Serializes(items) == \A item \in items : item.kind = "signature" => IsValidUtf8(item.file)

\* As if the ledger knew only that the item was sent.
CheckId(sent, item) == \E e \in sent : e[1] = item.id

\* A hash of the content stands for it.
Check(sent, item) == \E e \in sent : e[1] = item.id /\ e[2] = ContentOf(item)

RecordSent(sent, items) ==
  {e \in sent : \A item \in items : item.id # e[1]} \cup {<<item.id, ContentOf(item), ordinal'>> : item \in items}

Suppresses == options.suppress

\* The ledger between the selection and the serialization: what is known is
\* told as unchanged since then, the rest is recorded.  In the plain text an
\* unchanged line is not even told.
ThroughLedger(included) ==
  LET known == {item \in included : Suppresses /\ Check(ledger, item)}
      told  == {item \in known : options.budget # "text" \/ item.kind # "line"}
  IN  /\ ledger' = IF Suppresses THEN RecordSent(ledger, included \ known) ELSE ledger
      /\ answer' = IF ~Serializes(included) THEN Threw
                   ELSE [kind |-> "answer", named |-> {item.file : item \in included \ known},
                         carries |-> {<<item.id, ContentOf(item), ordinal'>> : item \in included \ known},
                         unchanged |-> UNION {{<<item.id, ContentOf(item), e[3]>> : e \in {r \in ledger : r[1] = item.id}} : item \in told}]
      /\ delivered' = delivered \cup answer'.carries

\* Without a budget everything found is sent.  With one, every item is
\* serialized to know its cost, before any of them is recorded; what does not
\* fit is listed as omitted.
HandleContextRetrieve(call) ==
  /\ call.tool = "context_retrieve"
  /\ "context_retriever" \in options.has /\ Given(call)
  /\ ordinal' = IF Suppresses THEN ordinal + 1 ELSE ordinal
  /\ LET items == Retrieved(call.subject)
     IN  IF options.budget = "none" THEN ThroughLedger(items)
         ELSE IF ~Serializes(items) THEN answer' = Threw /\ UNCHANGED <<ledger, delivered>>
         ELSE \E included \in SUBSET items : ThroughLedger(included)
-----------------------------------------------------------------------------
(* What is offered, and the dispatch. *)

SearchTools ==
  {t \in {"symbol_search"} : "symbol_index" \in options.has}
    \cup {t \in {"keyword_search", "context_fetch"} : "project_root" \in options.has}
    \cup {t \in {"context_retrieve"} : "context_retriever" \in options.has}

GraphTools ==
  {t \in {"include_graph", "call_graph", "inheritance_graph", "reference_graph"} : t \in options.has}
    \cup {t \in {"ast_tree"} : "ast_index" \in options.has}

AnalysisTools ==
  {t \in {"impact_analysis"} : "impact_analyzer" \in options.has}
    \cup {t \in {"changed_impact_analysis", "branch_impact_analysis"} : {"impact_analyzer", "backend_registry"} \subseteq options.has}
    \cup {t \in {"project_rules", "similar_change_search"} : "backend_registry" \in options.has}

GitTools == {"git_commit", "git_branch", "git_stash", "git_checkout", "git_tag"}

GitWriteTools == {t \in GitTools : {"backend_registry", "git_writes"} \subseteq options.has}
EditorTools == {t \in {"active_document"} : "editor_state_store" \in options.has}

ToolEnabled(tool) == options.allowlist = {} \/ tool \in options.allowlist

ToolsList == {t \in SearchTools \cup GraphTools \cup AnalysisTools \cup GitWriteTools \cup EditorTools : ToolEnabled(t)}

Offerable ==
  {"symbol_search", "keyword_search", "context_fetch", "context_retrieve", "include_graph", "call_graph",
   "inheritance_graph", "reference_graph", "ast_tree", "impact_analysis", "changed_impact_analysis",
   "branch_impact_analysis", "project_rules", "similar_change_search", "active_document"} \cup GitTools

\* Every tool but context_retrieve that has what it needs.
HandleTool(call, git) ==
  CASE call.tool = "symbol_search"           -> HandleSymbolSearch(call)
    [] call.tool = "keyword_search"          -> HandleKeywordSearch(call)
    [] call.tool = "context_retrieve"        -> Handle({"context_retriever"}, FALSE, ToolError)
    [] call.tool = "context_fetch"           -> HandleContextFetch(call, git)
    [] call.tool = "include_graph"           -> HandleIncludeGraph(call)
    [] call.tool = "call_graph"              -> HandleCallGraph(call)
    [] call.tool = "inheritance_graph"       -> HandleInheritanceGraph(call)
    [] call.tool = "reference_graph"         -> HandleReferenceGraph(call)
    [] call.tool = "ast_tree"                -> HandleAstTree(call)
    [] call.tool = "impact_analysis"         -> HandleImpactAnalysis(call)
    [] call.tool = "changed_impact_analysis" -> HandleChangedImpactAnalysis(call, git)
    [] call.tool = "branch_impact_analysis"  -> HandleBranchImpactAnalysis(call, git)
    [] call.tool = "project_rules"           -> HandleProjectRules(git)
    [] call.tool = "similar_change_search"   -> HandleSimilarChangeSearch(call, git)
    [] call.tool \in GitTools                -> HandleGitWriteCommand(call, git)
    [] call.tool = "active_document"         -> HandleActiveDocument
    [] OTHER                                 -> ToolError

CallTool(call) ==
  \/ ToolEnabled(call.tool) /\ HandleContextRetrieve(call)
  \/ /\ ToolEnabled(call.tool) => ~(call.tool = "context_retrieve" /\ "context_retriever" \in options.has /\ Given(call))
     /\ \E git \in {"ok", "raw", "failed"} :
          answer' = IF ToolEnabled(call.tool) THEN HandleTool(call, git) ELSE Refused
     /\ UNCHANGED <<ledger, ordinal, delivered>>

-----------------------------------------------------------------------------
(* Run(): one line of the input after the other. *)

\* "garbage" is no JSON, "value" no object, "ill-typed" has a method that is
\* no string; a notification has no id and is not answered.
Methods == {"garbage", "value", "ill-typed", "empty", "notification", "initialize", "ping", "other"}

Respond(method) ==
  CASE method \in {"empty", "notification"} -> Outcome("none", {})
    [] method \in {"initialize", "ping"}    -> Outcome("answer", {})
    [] OTHER                                -> Threw

Read ==
  /\ requests < MaxRequests
  /\ requests' = requests + 1
  /\ UNCHANGED <<options, files, edits>>

OtherLine ==
  /\ Read
  /\ \E method \in Methods : asked' = method /\ answer' = Respond(method)
  /\ subject' = Missing
  /\ UNCHANGED <<ledger, ordinal, delivered>>

ListTools ==
  /\ Read
  /\ asked' = "tools/list"
  /\ subject' = Missing
  /\ answer' = Outcome("answer", ToolsList)
  /\ UNCHANGED <<ledger, ordinal, delivered>>

ToolsCall ==
  /\ Read
  /\ \E call \in Calls : asked' = call.tool /\ subject' = call.subject /\ CallTool(call)

EditFile ==
  /\ edits < MaxFileEdits
  /\ edits' = edits + 1
  /\ \E f \in ProjectFiles, c \in Contents \cup {Absent} : c # files[f] /\ files' = [files EXCEPT ![f] = c]
  /\ UNCHANGED <<options, ledger, ordinal, delivered, asked, subject, answer, requests>>

InitSession ==
  /\ options \in Configurations
  /\ files = AtStart
  /\ ledger = {}
  /\ ordinal = 0
  /\ delivered = {}
  /\ asked = "empty"
  /\ subject = Missing
  /\ answer = Outcome("none", {})
  /\ requests = 0
  /\ edits = 0

NextSession == OtherLine \/ ListTools \/ ToolsCall \/ EditFile

SpecSession == InitSession /\ [][NextSession]_mcpVars
-----------------------------------------------------------------------------
Searches ==
  {"symbol_search", "keyword_search", "context_retrieve", "context_fetch", "include_graph", "call_graph",
   "inheritance_graph", "reference_graph", "ast_tree", "impact_analysis", "changed_impact_analysis",
   "branch_impact_analysis"}

\* "Context Firewall": whichever way a tool that searches, reads files or reads
\* the indexes has found them, it names no file outside the allowed scope, but
\* for the one its caller named: include_graph and impact_analysis are asked
\* about denied files too, and repeat the path.
AnswersInScope == asked \in Searches => answer.named \cap Denied \subseteq {subject}

\* tools/list and the guards of the handlers are written apart from one another
\* and agree: what is offered is never refused as not available, what is not
\* offered always is.
OfferedIsServed ==
  asked \in Offerable => (answer.kind = "not available" <=> asked \notin ToolsList)

\* A client sees and may use what it was offered, and no more.
ToolsAreConfined == AnswersInScope /\ OfferedIsServed

\* "unchanged since n" is told of an item only if response n carried the very
\* content the item has now, and an item is not sent twice in a row with the
\* same content; where a budget is set.
UnchangedWasDelivered ==
  Suppresses /\ options.budget # "none" =>
    /\ answer.unchanged \subseteq delivered
    /\ \A e \in answer.carries : \A d \in delivered : d[1] = e[1] /\ d[3] < e[3] =>
         \/ d[2] # e[2]
         \/ \E later \in delivered : later[1] = e[1] /\ later[3] > d[3] /\ later[3] < e[3]

\* The ledger's own promise, with or without a budget: what it holds are items
\* "actually included in the response".
RecordedWasDelivered == ledger \subseteq delivered
=============================================================================
