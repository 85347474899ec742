-------------------------- MODULE AssistantProofs --------------------------
(***************************************************************************)
(* Proofs about what an editor and an assistant are answered, for any      *)
(* files, texts, names, configurations and number of calls.                *)
(*                                                                         *)
(* McpSession: what an answer may name depends on the guards of the        *)
(* handlers alone; what it may call unchanged, on the ledger of what was   *)
(* sent, which holds the latest delivery of each item.                     *)
(*                                                                         *)
(* GitCommands: the ancestors of a commit are a chain, and the merge base  *)
(* splits it; a command takes from a working tree only what a commit or a  *)
(* stash holds, but for the checkout of a file.                            *)
(*                                                                         *)
(* LspDocuments: what a document becomes once n messages have been read is *)
(* decided by the last of them that settles it.  The invariant says that   *)
(* all of them together leave what the client has, that requests are on    *)
(* their way, or answered, in the order in which they are waited for, and  *)
(* that a rename finds the document as its client had it.  What the client *)
(* marks is decided the same way by the last message about a document on   *)
(* the way back.                                                           *)
(***************************************************************************)
EXTENDS McpSession, GitCommands, LspDocuments, FiniteSetTheorems, TLAPS

-----------------------------------------------------------------------------
(* The tools of a session: what an answer may name. *)

\* Every answer but "not available" is made behind the guard of its handler.
Served(outcome, needs) ==
  /\ outcome.kind = "not available" <=> ~(needs \subseteq options.has)
  /\ outcome.carries = {} /\ outcome.unchanged = {}

\* What a handler makes behind its guard, if it delivers nothing.
Work(outcome) ==
  /\ outcome.kind \in {"answer", "error", "threw"}
  /\ outcome.carries = {} /\ outcome.unchanged = {}

\* It names no file outside the allowed scope but the one the caller named.
InScope(call, outcome) == outcome.named \cap Denied \subseteq {call.subject}

\* Handle refuses what is not available and lets its work through otherwise.
LEMMA HandleGuards ==
  ASSUME NEW call, NEW needs, NEW valid, NEW outcome, Work(outcome)
  PROVE  /\ Served(Handle(needs, valid, outcome), needs)
         /\ InScope(call, outcome) => InScope(call, Handle(needs, valid, outcome))
BY DEF Handle, Served, Work, InScope, Refused, ToolError, Outcome

\* The forms of an outcome are of that kind.
LEMMA OutcomesWork ==
  ASSUME NEW call
  PROVE  /\ Work(ToolError) /\ Work(Threw) /\ InScope(call, ToolError) /\ InScope(call, Threw)
         /\ \A named : Work(Outcome("answer", named))
         /\ \A named, raw : Work(Dumped(named, raw))
         /\ \A git : Work(Passed(git)) /\ InScope(call, Passed(git))
         /\ \A f : Work(ReadProjectFile(f))
BY DEF Work, InScope, ToolError, Threw, Outcome, Dumped, Passed, ReadProjectFile

\* Dumping adds no name,
LEMMA DumpedInScope ==
  ASSUME NEW call, NEW named, NEW raw, named \cap Denied \subseteq {call.subject}
  PROVE  InScope(call, Dumped(named, raw))
BY DEF InScope, Dumped, Outcome, Threw

\* and what passes IsPathAllowed is in scope, with or without the argument.
LEMMA PassingInScope ==
  ASSUME NEW call, NEW some
  PROVE  /\ Passing(some) \cap Denied \subseteq {call.subject}
         /\ (Passing(some) \cup Echo(call)) \cap Denied \subseteq {call.subject}
         /\ (Passing(some) \cup RelaxedFrom(call)) \cap Denied \subseteq {call.subject}
BY DEF Passing, Echo, RelaxedFrom

\* The handlers, one by one: what each needs and whether what it names is in scope.
LEMMA SearchesServed ==
  ASSUME NEW call
  PROVE  /\ Served(HandleSymbolSearch(call), {"symbol_index"}) /\ InScope(call, HandleSymbolSearch(call))
         /\ Served(HandleKeywordSearch(call), {"project_root"}) /\ InScope(call, HandleKeywordSearch(call))
         /\ Served(HandleIncludeGraph(call), {"include_graph"}) /\ InScope(call, HandleIncludeGraph(call))
         /\ Served(HandleCallGraph(call), {"call_graph"}) /\ InScope(call, HandleCallGraph(call))
         /\ Served(HandleInheritanceGraph(call), {"inheritance_graph"}) /\ InScope(call, HandleInheritanceGraph(call))
         /\ Served(HandleReferenceGraph(call), {"reference_graph"}) /\ InScope(call, HandleReferenceGraph(call))
BY HandleGuards, OutcomesWork, DumpedInScope, PassingInScope, Zenon
   DEF HandleSymbolSearch, HandleKeywordSearch, HandleIncludeGraph, HandleCallGraph,
       HandleInheritanceGraph, HandleReferenceGraph

\* The trees and the impact of a file and of changes.
LEMMA AnalysesServed ==
  ASSUME NEW call, NEW git
  PROVE  /\ Served(HandleAstTree(call), {"ast_index"}) /\ InScope(call, HandleAstTree(call))
         /\ Served(HandleImpactAnalysis(call), {"impact_analyzer"}) /\ InScope(call, HandleImpactAnalysis(call))
         /\ Served(HandleChangedImpactAnalysis(call, git), {"impact_analyzer", "backend_registry"})
         /\ InScope(call, HandleChangedImpactAnalysis(call, git))
         /\ Served(HandleBranchImpactAnalysis(call, git), {"impact_analyzer", "backend_registry"})
         /\ InScope(call, HandleBranchImpactAnalysis(call, git))
<1>1. /\ Served(HandleAstTree(call), {"ast_index"}) /\ InScope(call, HandleAstTree(call))
  <2> DEFINE w == IF Passing(Lookup(call)) = {} THEN ToolError ELSE Dumped(Passing(Lookup(call)), Lookup(call))
  <2>1. Work(w) /\ InScope(call, w)
    BY OutcomesWork, DumpedInScope, PassingInScope, Zenon
  <2> HIDE DEF w
  <2>2. Served(Handle({"ast_index"}, Given(call), w), {"ast_index"}) /\ InScope(call, Handle({"ast_index"}, Given(call), w))
    BY <2>1, HandleGuards, Zenon
  <2> QED BY <2>2, Zenon DEF HandleAstTree, w
<1>2. Served(HandleImpactAnalysis(call), {"impact_analyzer"}) /\ InScope(call, HandleImpactAnalysis(call))
  BY HandleGuards, OutcomesWork, DumpedInScope, PassingInScope, Zenon DEF HandleImpactAnalysis
<1> DEFINE w == IF git = "failed" THEN ToolError ELSE Dumped(Passing(Lookup(call)), {})
           v == IF git = "failed" THEN ToolError ELSE Dumped(Passing(Lookup(call)) \cup Echo(call), {})
<1>3. Work(w) /\ InScope(call, w) /\ Work(v) /\ InScope(call, v)
  BY OutcomesWork, DumpedInScope, PassingInScope, Zenon
<1> HIDE DEF w, v
<1>4. \A needs, valid :
        /\ Served(Handle(needs, valid, w), needs) /\ InScope(call, Handle(needs, valid, w))
        /\ Served(Handle(needs, valid, v), needs) /\ InScope(call, Handle(needs, valid, v))
  BY <1>3, HandleGuards, Zenon
<1> QED BY <1>1, <1>2, <1>4, Zenon DEF HandleChangedImpactAnalysis, HandleBranchImpactAnalysis, w, v

\* The tools of the backends.
LEMMA BackendsServed ==
  ASSUME NEW call, NEW git
  PROVE  /\ Served(HandleProjectRules(git), {"backend_registry"})
         /\ Served(HandleSimilarChangeSearch(call, git), {"backend_registry"})
         /\ Served(HandleGitWriteCommand(call, git), {"backend_registry", "git_writes"})
         /\ Served(HandleActiveDocument, {"editor_state_store"})
         /\ Served(Handle({"context_retriever"}, FALSE, ToolError), {"context_retriever"})
         /\ InScope(call, Handle({"context_retriever"}, FALSE, ToolError))
BY HandleGuards, OutcomesWork, Zenon
   DEF HandleProjectRules, HandleSimilarChangeSearch, HandleGitWriteCommand, HandleActiveDocument

\* An item that is fetched is in one file, and that file is checked.
LEMMA FetchServed ==
  ASSUME NEW call \in Calls, NEW git, call.tool = "context_fetch"
  PROVE  Served(HandleContextFetch(call, git), {"project_root"}) /\ InScope(call, HandleContextFetch(call, git))
<1> DEFINE w == CASE call.direction = "Symbol"     -> FetchSymbol(call)
                  [] call.direction = "Dependency" -> FetchDependency(call)
                  [] call.direction = "GitDiff"    -> FetchGitDiff(call, git)
                  [] call.direction = "Custom"     -> FetchKeyword(call)
                  [] call.direction = "unknown"    -> ToolError
                  [] OTHER                         -> FetchFile(call)
<1>1. \A f : f \notin Denied => InScope(call, ReadProjectFile(f))
  BY DEF ReadProjectFile, InScope, Outcome, ToolError
<1>2. Work(FetchFile(call)) /\ InScope(call, FetchFile(call))
  BY <1>1, OutcomesWork, Zenon DEF FetchFile
<1>3. /\ Work(FetchSymbol(call))
      /\ call.direction = "Symbol" /\ Given(call) => InScope(call, FetchSymbol(call))
  <2>1. CASE "symbol_index" \notin options.has \/ Passing(Lookup(call)) = {}
    BY <2>1, OutcomesWork, Zenon DEF FetchSymbol
  <2>2. CASE ~("symbol_index" \notin options.has \/ Passing(Lookup(call)) = {})
    <3>1. FetchSymbol(call) = ReadProjectFile(CHOOSE f \in Lookup(call) : TRUE)
      BY <2>2, Zenon DEF FetchSymbol
    <3>2. ASSUME call.direction = "Symbol", Given(call)
          PROVE  (CHOOSE f \in Lookup(call) : TRUE) \notin Denied
      <4>1. PICK g \in Lookup(call) : g \notin Denied
        BY <2>2, Zenon DEF Passing
      <4>2. (CHOOSE f \in Lookup(call) : TRUE) = g
        BY <4>1, <3>2, IdsBeginWithPath
      <4> QED BY <4>1, <4>2
    <3> QED BY <3>1, <3>2, <1>1, OutcomesWork, Zenon
  <2> QED BY <2>1, <2>2, Zenon
<1>4. /\ Work(FetchKeyword(call))
      /\ call.direction = "Custom" /\ Given(call) => InScope(call, FetchKeyword(call))
  <2>1. CASE Passing(Lookup(call)) = {}
    BY <2>1, OutcomesWork, Zenon DEF FetchKeyword
  <2>2. CASE Passing(Lookup(call)) # {}
    <3>1. FetchKeyword(call) = ReadProjectFile(CHOOSE f \in Lookup(call) : TRUE)
      BY <2>2, Zenon DEF FetchKeyword
    <3>2. ASSUME call.direction = "Custom", Given(call)
          PROVE  (CHOOSE f \in Lookup(call) : TRUE) \notin Denied
      <4>1. PICK g \in Lookup(call) : g \notin Denied
        BY <2>2, Zenon DEF Passing
      <4>2. (CHOOSE f \in Lookup(call) : TRUE) = g
        BY <4>1, <3>2, IdsBeginWithPath
      <4> QED BY <4>1, <4>2
    <3> QED BY <3>1, <3>2, <1>1, OutcomesWork, Zenon
  <2> QED BY <2>1, <2>2, Zenon
<1>5. Work(FetchDependency(call)) /\ InScope(call, FetchDependency(call))
  <2>1. Lookup(call) \cap Denied \subseteq {call.subject} => InScope(call, Dumped(Lookup(call), {}))
    BY DumpedInScope, Zenon
  <2> QED BY <2>1, OutcomesWork, Zenon DEF FetchDependency
<1>6. Work(FetchGitDiff(call, git)) /\ InScope(call, FetchGitDiff(call, git))
  <2>1. InScope(call, Outcome("answer", {}))
    BY DEF InScope, Outcome
  <2> QED BY <2>1, OutcomesWork, Zenon DEF FetchGitDiff
<1>7. Work(w) /\ (Given(call) => InScope(call, w))
  <2>1. CASE call.direction = "Symbol"
    BY <2>1, <1>3
  <2>2. CASE call.direction = "Dependency"
    BY <2>2, <1>5
  <2>3. CASE call.direction = "GitDiff"
    BY <2>3, <1>6
  <2>4. CASE call.direction = "Custom"
    BY <2>4, <1>4
  <2>5. CASE call.direction = "unknown"
    BY <2>5, OutcomesWork
  <2>6. CASE call.direction \notin {"Symbol", "Dependency", "GitDiff", "Custom", "unknown"}
    BY <2>6, <1>2
  <2> QED BY <2>1, <2>2, <2>3, <2>4, <2>5, <2>6
<1> HIDE DEF w
<1>8. HandleContextFetch(call, git) = Handle({"project_root"}, Given(call), w)
  BY Zenon DEF HandleContextFetch, w
<1>9. Served(Handle({"project_root"}, Given(call), w), {"project_root"})
  BY <1>7, HandleGuards, Zenon
<1>10. InScope(call, Handle({"project_root"}, Given(call), w))
  BY <1>7, OutcomesWork DEF Handle, InScope, Refused, Outcome
<1> QED BY <1>8, <1>9, <1>10, Zenon

\* What a tool needs to be offered.
Needs(tool) ==
  CASE tool = "symbol_search"      -> {"symbol_index"}
    [] tool \in {"keyword_search", "context_fetch"} -> {"project_root"}
    [] tool = "context_retrieve"   -> {"context_retriever"}
    [] tool \in {"include_graph", "call_graph", "inheritance_graph", "reference_graph"} -> {tool}
    [] tool = "ast_tree"           -> {"ast_index"}
    [] tool = "impact_analysis"    -> {"impact_analyzer"}
    [] tool \in {"changed_impact_analysis", "branch_impact_analysis"} -> {"impact_analyzer", "backend_registry"}
    [] tool \in {"project_rules", "similar_change_search"} -> {"backend_registry"}
    [] tool \in GitTools           -> {"backend_registry", "git_writes"}
    [] OTHER                       -> {"editor_state_store"}

\* tools/list offers a tool exactly when what it needs is there,
LEMMA ListIsByNeeds ==
  ASSUME NEW tool \in Offerable
  PROVE  tool \in ToolsList <=> ToolEnabled(tool) /\ Needs(tool) \subseteq options.has
BY Z3 DEF Offerable, ToolsList, SearchTools, GraphTools, AnalysisTools, GitWriteTools, EditorTools, GitTools, Needs

\* and the handler refuses exactly when it is not.
LEMMA ToolServed ==
  ASSUME NEW call \in Calls, NEW git
  PROVE  /\ call.tool \in Offerable => Served(HandleTool(call, git), Needs(call.tool))
         /\ call.tool \in Searches => InScope(call, HandleTool(call, git))
         /\ HandleTool(call, git).carries = {} /\ HandleTool(call, git).unchanged = {}
<1> DEFINE t == call.tool
<1>1. CASE t \in {"symbol_search", "keyword_search", "include_graph", "call_graph", "inheritance_graph", "reference_graph"}
  BY <1>1, SearchesServed DEF HandleTool, Needs, Served, GitTools
<1>2. CASE t \in {"ast_tree", "changed_impact_analysis", "branch_impact_analysis"}
  BY <1>2, AnalysesServed DEF HandleTool, Needs, Served, GitTools
<1>3. CASE t = "impact_analysis"
  BY <1>3, AnalysesServed DEF HandleTool, Needs, Served, Searches, GitTools
<1>4. CASE t \in {"project_rules", "similar_change_search", "active_document"} \cup GitTools
  <2>1. t \notin Searches
    BY <1>4 DEF Searches, GitTools
  <2>2. CASE t = "project_rules"
    BY <2>1, <2>2, BackendsServed DEF HandleTool, Needs, Served, GitTools
  <2>3. CASE t = "similar_change_search"
    BY <2>1, <2>3, BackendsServed DEF HandleTool, Needs, Served, GitTools
  <2>4. CASE t = "active_document"
    BY <2>1, <2>4, BackendsServed DEF HandleTool, Needs, Served, GitTools
  <2>5. CASE t \in GitTools
    BY <2>1, <2>5, BackendsServed DEF HandleTool, Needs, Served, GitTools
  <2> QED BY <1>4, <2>2, <2>3, <2>4, <2>5
<1>5. CASE t = "context_retrieve"
  BY <1>5, BackendsServed DEF HandleTool, Needs, Served, GitTools
<1>6. CASE t = "context_fetch"
  BY <1>6, FetchServed DEF HandleTool, Needs, Served, GitTools
<1>7. CASE t \notin Offerable
  <2>1. HandleTool(call, git) = ToolError
    BY <1>7 DEF HandleTool, Offerable, GitTools
  <2>2. t \notin Searches
    BY <1>7 DEF Offerable, Searches
  <2> QED BY <1>7, <2>1, <2>2, OutcomesWork DEF Work
<1> QED BY <1>1, <1>2, <1>3, <1>4, <1>5, <1>6, <1>7 DEF Offerable

-----------------------------------------------------------------------------
(* ToolsAreConfined. *)

\* What a call leaves in asked, subject and answer.
Confined(call, outcome) ==
  /\ call.tool \in Searches => InScope(call, outcome)
  /\ call.tool \in Offerable => (outcome.kind = "not available" <=> call.tool \notin ToolsList)

\* What is delivered or unchanged is what was retrieved, in scope.
LEMMA LedgerInScope ==
  ASSUME NEW call \in Calls, HandleContextRetrieve(call)
  PROVE  InScope(call, answer') /\ answer'.kind # "not available"
<1> DEFINE items == Retrieved(call.subject)
<1>0. \A item \in items : item.file \notin Denied
  BY DEF Retrieved
<1>1. ASSUME NEW included \in SUBSET items, ThroughLedger(included)
      PROVE  InScope(call, answer') /\ answer'.kind # "not available"
  <2>1. answer'.named \cap Denied = {}
    BY <1>0, <1>1 DEF ThroughLedger, Threw, Outcome
  <2>2. answer'.kind \in {"answer", "threw"}
    BY <1>1 DEF ThroughLedger, Threw, Outcome
  <2> QED BY <2>1, <2>2 DEF InScope
<1>2. CASE answer' = Threw
  BY <1>2 DEF InScope, Threw, Outcome
<1>3. items \in SUBSET items
  OBVIOUS
<1> HIDE DEF items
<1>4. \/ ThroughLedger(items) \/ answer' = Threw
      \/ \E included \in SUBSET items : ThroughLedger(included)
  BY Zenon DEF HandleContextRetrieve, items
<1> QED BY <1>1, <1>2, <1>3, <1>4, Zenon

\* Whatever is called, the answer is confined.
LEMMA CallConfined ==
  ASSUME NEW call \in Calls, CallTool(call)
  PROVE  Confined(call, answer')
<1>1. CASE ToolEnabled(call.tool) /\ HandleContextRetrieve(call)
  <2>1. InScope(call, answer') /\ answer'.kind # "not available"
    BY <1>1, LedgerInScope
  <2>2. call.tool = "context_retrieve" /\ "context_retriever" \in options.has
    BY <1>1, Zenon DEF HandleContextRetrieve
  <2>3. call.tool \in Offerable /\ Needs(call.tool) = {"context_retriever"}
    BY <2>2 DEF Offerable, Needs, GitTools
  <2>4. call.tool \in ToolsList
    BY <2>2, <2>3, <1>1, ListIsByNeeds
  <2> QED BY <2>1, <2>4, Zenon DEF Confined
<1>2. ASSUME NEW git, answer' = IF ToolEnabled(call.tool) THEN HandleTool(call, git) ELSE Refused
      PROVE  Confined(call, answer')
  <2>1. CASE ToolEnabled(call.tool)
    <3>1. answer' = HandleTool(call, git)
      BY <1>2, <2>1
    <3> QED BY <3>1, <2>1, ToolServed, ListIsByNeeds, Zenon DEF Served, Confined
  <2>2. CASE ~ToolEnabled(call.tool)
    <3>1. answer' = Refused
      BY <1>2, <2>2
    <3>2. InScope(call, Refused) /\ Refused.kind = "not available"
      BY DEF InScope, Refused, Outcome
    <3> QED BY <3>1, <3>2, <2>2, ListIsByNeeds, Zenon DEF Confined
  <2> QED BY <2>1, <2>2
<1> QED BY <1>1, <1>2, Zenon DEF CallTool

\* No tool that searches or reads the indexes names a file outside the allowed
\* scope but the one its caller named, and a tool is refused as not available
\* exactly when tools/list does not have it (McpServer::HandleToolsCall,
\* HandleToolsList): for all files, configurations, indexes and calls.
THEOREM ToolsConfined == SpecSession => []ToolsAreConfined
<1>1. InitSession => ToolsAreConfined
  BY DEF InitSession, ToolsAreConfined, AnswersInScope, OfferedIsServed, Searches, Offerable, GitTools
<1>2. ToolsAreConfined /\ [NextSession]_mcpVars => ToolsAreConfined'
  <2> SUFFICES ASSUME ToolsAreConfined, [NextSession]_mcpVars
               PROVE  ToolsAreConfined'
    OBVIOUS
  <2>0. ASSUME UNCHANGED options
        PROVE  ToolsList' = ToolsList
    BY <2>0 DEF ToolsList, SearchTools, GraphTools, AnalysisTools, GitWriteTools, EditorTools, ToolEnabled
  <2>1. CASE OtherLine
    <3>1. asked' \in Methods /\ UNCHANGED options
      BY <2>1 DEF OtherLine, Read
    <3>2. asked' \notin Searches /\ asked' \notin Offerable
      BY <3>1 DEF Methods, Searches, Offerable, GitTools
    <3> QED BY <3>1, <3>2, <2>0 DEF ToolsAreConfined, AnswersInScope, OfferedIsServed
  <2>2. CASE ListTools
    <3>1. asked' = "tools/list" /\ UNCHANGED options
      BY <2>2 DEF ListTools, Read
    <3>2. asked' \notin Searches /\ asked' \notin Offerable
      BY <3>1 DEF Searches, Offerable, GitTools
    <3> QED BY <3>1, <3>2, <2>0 DEF ToolsAreConfined, AnswersInScope, OfferedIsServed
  <2>3. CASE ToolsCall
    <3>1. UNCHANGED options
      BY <2>3 DEF ToolsCall, Read
    <3>2. PICK call \in Calls : asked' = call.tool /\ subject' = call.subject /\ CallTool(call)
      BY <2>3 DEF ToolsCall
    <3>3. Confined(call, answer')
      BY <3>2, CallConfined
    <3> QED BY <3>1, <3>2, <3>3, <2>0 DEF Confined, InScope, ToolsAreConfined, AnswersInScope, OfferedIsServed
  <2>4. CASE EditFile \/ UNCHANGED mcpVars
    <3>1. UNCHANGED <<options, asked, subject, answer>>
      BY <2>4 DEF EditFile, mcpVars
    <3>2. ToolsList' = ToolsList
      BY <3>1, <2>0
    <3> QED BY <3>1, <3>2 DEF ToolsAreConfined, AnswersInScope, OfferedIsServed
  <2> QED BY <2>1, <2>2, <2>3, <2>4 DEF NextSession
<1> QED BY <1>1, <1>2, PTL DEF SpecSession

-----------------------------------------------------------------------------
(* UnchangedWasDelivered. *)

\* Where a budget is set, the ledger holds the latest delivery of each item.
Triple(e) == e = <<e[1], e[2], e[3]>> /\ e[3] \in Nat

LedgerFollows ==
  /\ \A d \in delivered : Triple(d) /\ d[3] <= ordinal
  /\ ledger \subseteq delivered
  /\ \A e, f \in ledger : e[1] = f[1] => e = f
  /\ \A d \in delivered : \E e \in ledger : e[1] = d[1] /\ d[3] <= e[3]
  /\ \A d, e \in delivered : d[1] = e[1] /\ d[3] = e[3] => d = e

\* The session has promised to tell what is unchanged.
Promises == Suppresses /\ options.budget # "none"

\* The property needs what the ledger is to the deliveries.
LedgerInv ==
  /\ ordinal \in Nat
  /\ Promises => LedgerFollows
  /\ UnchangedWasDelivered

\* A response carries what the ledger does not hold with the present content,
\* and records it.
LEMMA ResponseKeepsLedger ==
  ASSUME LedgerInv, Promises, ordinal' = ordinal + 1, UNCHANGED options,
         NEW included, Serializes(included), ThroughLedger(included),
         \A i, j \in included : i.id = j.id => i = j
  PROVE  LedgerFollows' /\ UnchangedWasDelivered'
<1> DEFINE known == {item \in included : Suppresses /\ Check(ledger, item)}
           fresh == included \ known
           N     == {<<item.id, ContentOf(item), ordinal + 1>> : item \in fresh}
           told  == {item \in known : options.budget # "text" \/ item.kind # "line"}
<1>1. Suppresses
  BY DEF Promises
<1>2. /\ ledger' = {e \in ledger : \A item \in fresh : item.id # e[1]} \cup N
      /\ answer'.carries = N
      /\ answer'.unchanged = UNION {{<<item.id, ContentOf(item), e[3]>> : e \in {r \in ledger : r[1] = item.id}} : item \in told}
      /\ delivered' = delivered \cup N
  <2>1. ledger' = RecordSent(ledger, fresh)
    BY <1>1, Zenon DEF ThroughLedger
  <2>2. answer' = [kind |-> "answer", named |-> {item.file : item \in fresh},
                   carries |-> {<<item.id, ContentOf(item), ordinal'>> : item \in fresh},
                   unchanged |-> UNION {{<<item.id, ContentOf(item), e[3]>> : e \in {r \in ledger : r[1] = item.id}} : item \in told}]
    BY Zenon DEF ThroughLedger
  <2>3. delivered' = delivered \cup answer'.carries
    BY Zenon DEF ThroughLedger
  <2>4. {<<item.id, ContentOf(item), ordinal'>> : item \in fresh} = N
    OBVIOUS
  <2> HIDE DEF fresh, told, N
  <2>5. answer'.carries = N
    BY <2>2, <2>4
  <2>6. answer'.unchanged = UNION {{<<item.id, ContentOf(item), e[3]>> : e \in {r \in ledger : r[1] = item.id}} : item \in told}
    BY <2>2
  <2>7. RecordSent(ledger, fresh) = {e \in ledger : \A item \in fresh : item.id # e[1]} \cup N
    BY <2>4 DEF RecordSent
  <2> QED BY <2>1, <2>3, <2>5, <2>6, <2>7
<1>3. /\ ordinal \in Nat /\ LedgerFollows
  BY DEF LedgerInv
<1>4. \A n \in N : /\ Triple(n) /\ n[3] = ordinal + 1
                   /\ \E item \in fresh : n[1] = item.id /\ n[2] = ContentOf(item)
  BY <1>3 DEF Triple
<1>5. \A m, n \in N : m[1] = n[1] => m = n
  <2> SUFFICES ASSUME NEW m \in N, NEW n \in N, m[1] = n[1] PROVE m = n
    OBVIOUS
  <2>1. PICK i \in fresh : m = <<i.id, ContentOf(i), ordinal + 1>>
    OBVIOUS
  <2>2. PICK j \in fresh : n = <<j.id, ContentOf(j), ordinal + 1>>
    OBVIOUS
  <2>3. i.id = j.id /\ i \in included /\ j \in included
    BY <2>1, <2>2
  <2>4. i = j
    BY <2>3
  <2> QED BY <2>1, <2>2, <2>4
<1>6. ASSUME NEW item \in fresh
      PROVE  \E n \in N : n[1] = item.id
  <2>1. <<item.id, ContentOf(item), ordinal + 1>> \in N
    OBVIOUS
  <2>2. <<item.id, ContentOf(item), ordinal + 1>>[1] = item.id
    OBVIOUS
  <2> QED BY <2>1, <2>2, Zenon
<1>7. \A item \in fresh : \A e \in ledger : ~(e[1] = item.id /\ e[2] = ContentOf(item))
  BY <1>1 DEF Check
<1>8. \A item \in told : \E e \in ledger : e[1] = item.id /\ e[2] = ContentOf(item)
  BY DEF Check
<1> HIDE DEF N, fresh, told, known
<1>9. LedgerFollows'
  <2>1. \A d \in delivered' : Triple(d) /\ d[3] <= ordinal'
    BY <1>2, <1>3, <1>4 DEF LedgerFollows, Triple
  <2>2. ledger' \subseteq delivered'
    BY <1>2, <1>3 DEF LedgerFollows
  <2>3. \A e, f \in ledger' : e[1] = f[1] => e = f
    BY <1>2, <1>3, <1>4, <1>5 DEF LedgerFollows
  <2>4. \A d \in delivered' : \E e \in ledger' : e[1] = d[1] /\ d[3] <= e[3]
    <3> SUFFICES ASSUME NEW d \in delivered'
                 PROVE  \E e \in ledger' : e[1] = d[1] /\ d[3] <= e[3]
      OBVIOUS
    <3>1. CASE d \in N
      BY <3>1, <1>2, <2>1 DEF Triple
    <3>2. CASE d \in delivered
      <4>1. PICK e \in ledger : e[1] = d[1] /\ d[3] <= e[3]
        BY <3>2, <1>3 DEF LedgerFollows
      <4>2. CASE \A item \in fresh : item.id # e[1]
        BY <4>1, <4>2, <1>2
      <4>3. CASE \E item \in fresh : item.id = e[1]
        <5>1. PICK n \in N : n[1] = e[1]
          BY <4>3, <1>6
        <5>2. n[3] = ordinal + 1 /\ d[3] <= ordinal /\ d[3] \in Nat
          BY <1>4, <1>3, <3>2 DEF LedgerFollows, Triple
        <5> QED BY <5>1, <5>2, <4>1, <1>2, <1>3
      <4> QED BY <4>2, <4>3
    <3> QED BY <3>1, <3>2, <1>2
  <2>5. \A d, e \in delivered' : d[1] = e[1] /\ d[3] = e[3] => d = e
    <3>1. \A d \in delivered : d[3] \in Nat /\ d[3] <= ordinal
      BY <1>3 DEF LedgerFollows, Triple
    <3>2. \A d, e \in delivered : d[1] = e[1] /\ d[3] = e[3] => d = e
      BY <1>3 DEF LedgerFollows
    <3>3. \A n \in N : n[3] = ordinal + 1
      BY <1>4
    <3> QED BY <1>2, <1>3, <1>5, <3>1, <3>2, <3>3
  <2> QED BY <2>1, <2>2, <2>3, <2>4, <2>5 DEF LedgerFollows
<1>10. answer'.unchanged \subseteq delivered'
  <2> SUFFICES ASSUME NEW item \in told, NEW e \in ledger, e[1] = item.id
               PROVE  <<item.id, ContentOf(item), e[3]>> \in delivered
    BY <1>2
  <2>1. PICK f \in ledger : f[1] = item.id /\ f[2] = ContentOf(item)
    BY <1>8
  <2>2. e = f /\ e \in delivered /\ Triple(e)
    BY <2>1, <1>3 DEF LedgerFollows
  <2> QED BY <2>1, <2>2 DEF Triple
<1>11. \A e \in answer'.carries : \A d \in delivered' : d[1] = e[1] /\ d[3] < e[3] =>
         \/ d[2] # e[2]
         \/ \E later \in delivered' : later[1] = e[1] /\ later[3] > d[3] /\ later[3] < e[3]
  <2> SUFFICES ASSUME NEW e \in N, NEW d \in delivered', d[1] = e[1], d[3] < e[3], d[2] = e[2]
               PROVE  \E later \in delivered' : later[1] = e[1] /\ later[3] > d[3] /\ later[3] < e[3]
    BY <1>2
  <2>1. d \in delivered
    BY <1>2, <1>4, <1>3
  <2>2. PICK later \in ledger : later[1] = d[1] /\ d[3] <= later[3]
    BY <2>1, <1>3 DEF LedgerFollows
  <2>3. PICK item \in fresh : e[1] = item.id /\ e[2] = ContentOf(item)
    BY <1>4
  <2>4. later[2] # d[2]
    BY <2>2, <2>3, <1>7
  <2>5. later \in delivered /\ later # d
    BY <2>4, <1>3 DEF LedgerFollows
  <2>6. later[3] # d[3]
    BY <2>5, <2>1, <2>2, <1>3 DEF LedgerFollows
  <2>7. later[3] \in Nat /\ d[3] \in Nat /\ later[3] <= ordinal /\ e[3] = ordinal + 1
    BY <2>5, <2>1, <1>3, <1>4 DEF LedgerFollows, Triple
  <2>8. later[3] > d[3] /\ later[3] < e[3]
    BY <2>2, <2>6, <2>7, <1>3
  <2> QED BY <2>2, <2>5, <2>8, <1>2
<1> QED BY <1>9, <1>10, <1>11 DEF UnchangedWasDelivered

\* An answer that carries nothing and tells of nothing keeps every promise.
LEMMA SilenceKeepsLedger ==
  ASSUME LedgerInv, UNCHANGED <<options, ledger, delivered>>,
         ordinal' \in Nat, ordinal <= ordinal',
         \/ UNCHANGED answer
         \/ answer'.carries = {} /\ answer'.unchanged = {}
  PROVE  LedgerInv'
<1>1. Promises' <=> Promises
  BY DEF Promises, Suppresses
<1>2. Promises => LedgerFollows'
  <2> SUFFICES ASSUME LedgerFollows PROVE LedgerFollows'
    BY DEF LedgerInv
  <2>1. \A d \in delivered : d[3] \in Nat /\ d[3] <= ordinal
    BY DEF LedgerFollows, Triple
  <2>2. \A d \in delivered : d[3] <= ordinal'
    BY <2>1 DEF LedgerInv
  <2> QED BY <2>2 DEF LedgerFollows, Triple
<1>3. UnchangedWasDelivered'
  BY DEF LedgerInv, UnchangedWasDelivered, Suppresses
<1> QED BY <1>1, <1>2, <1>3 DEF LedgerInv

\* HandleContextRetrieve,
LEMMA RetrieveKeepsLedger ==
  ASSUME LedgerInv, UNCHANGED options, NEW call \in Calls, HandleContextRetrieve(call)
  PROVE  LedgerInv'
<1> DEFINE items == Retrieved(call.subject)
<1>1. /\ ordinal \in Nat /\ ordinal' = (IF Suppresses THEN ordinal + 1 ELSE ordinal)
      /\ ordinal' \in Nat /\ ordinal <= ordinal'
  BY DEF LedgerInv, HandleContextRetrieve
<1>2. CASE ~Promises
  BY <1>1, <1>2 DEF LedgerInv, Promises, UnchangedWasDelivered, Suppresses
<1>3. CASE Promises
  <2>1. options.budget # "none" /\ ordinal' = ordinal + 1
    BY <1>1, <1>3 DEF Promises
  <2>2. \A i, j \in items : i.id = j.id => i = j
    BY ItemsAreDistinct DEF HandleContextRetrieve, Retrieved
  <2> HIDE DEF items
  <2>3. \/ answer' = Threw /\ UNCHANGED <<ledger, delivered>>
        \/ Serializes(items) /\ \E included \in SUBSET items : ThroughLedger(included)
    BY <2>1, Zenon DEF HandleContextRetrieve, items
  <2>4. CASE answer' = Threw /\ UNCHANGED <<ledger, delivered>>
    BY <2>4, <1>1, SilenceKeepsLedger DEF Threw, Outcome
  <2>5. CASE Serializes(items) /\ \E included \in SUBSET items : ThroughLedger(included)
    <3>1. PICK included \in SUBSET items : ThroughLedger(included)
      BY <2>5
    <3>2. Serializes(included)
      BY <2>5 DEF Serializes
    <3>3. LedgerFollows' /\ UnchangedWasDelivered'
      BY <3>1, <3>2, <2>1, <2>2, <1>3, ResponseKeepsLedger
    <3> QED BY <3>3, <1>1 DEF LedgerInv
  <2> QED BY <2>3, <2>4, <2>5
<1> QED BY <1>2, <1>3

\* and so every call.
LEMMA CallKeepsLedger ==
  ASSUME LedgerInv, UNCHANGED options, NEW call \in Calls, CallTool(call)
  PROVE  LedgerInv'
<1>1. CASE HandleContextRetrieve(call)
  BY <1>1, RetrieveKeepsLedger
<1>2. ASSUME NEW git, UNCHANGED <<ledger, ordinal, delivered>>,
             answer' = IF ToolEnabled(call.tool) THEN HandleTool(call, git) ELSE Refused
      PROVE  LedgerInv'
  <2>1. answer'.carries = {} /\ answer'.unchanged = {}
    BY <1>2, ToolServed DEF Refused, Outcome
  <2>2. ordinal' \in Nat /\ ordinal <= ordinal'
    BY <1>2 DEF LedgerInv
  <2> QED BY <1>2, <2>1, <2>2, SilenceKeepsLedger
<1> QED BY <1>1, <1>2, Zenon DEF CallTool

\* "unchanged since response n" is told of an item only if response n carried
\* the content it has now, and no content is sent twice in a row, where a
\* budget is set (SentLedger, McpServer::HandleContextRetrieve): for all files,
\* contents, retrievals and edits, and for any number of requests.
THEOREM UnchangedMeansDelivered == SpecSession => []UnchangedWasDelivered
<1>1. InitSession => LedgerInv
  <2> SUFFICES ASSUME InitSession PROVE LedgerInv
    OBVIOUS
  <2>1. ledger = {} /\ delivered = {} /\ ordinal = 0 /\ answer.carries = {} /\ answer.unchanged = {}
    BY DEF InitSession, Outcome
  <2> QED BY <2>1 DEF LedgerInv, LedgerFollows, UnchangedWasDelivered
<1>2. LedgerInv /\ [NextSession]_mcpVars => LedgerInv'
  <2> SUFFICES ASSUME LedgerInv, [NextSession]_mcpVars
               PROVE  LedgerInv'
    OBVIOUS
  <2>0. ordinal \in Nat /\ ordinal <= ordinal
    BY DEF LedgerInv
  <2>1. CASE OtherLine
    <3>1. PICK method \in Methods : answer' = Respond(method)
      BY <2>1 DEF OtherLine
    <3>2. answer'.carries = {} /\ answer'.unchanged = {}
      BY <3>1 DEF Respond, Outcome, Threw
    <3> QED BY <3>2, <2>1, <2>0, SilenceKeepsLedger DEF OtherLine, Read
  <2>2. CASE ListTools
    <3>1. answer'.carries = {} /\ answer'.unchanged = {}
      BY <2>2 DEF ListTools, Outcome
    <3> QED BY <3>1, <2>2, <2>0, SilenceKeepsLedger DEF ListTools, Read
  <2>3. CASE ToolsCall
    BY <2>3, CallKeepsLedger DEF ToolsCall, Read
  <2>4. CASE EditFile \/ UNCHANGED mcpVars
    BY <2>4, <2>0, SilenceKeepsLedger DEF EditFile, mcpVars
  <2> QED BY <2>1, <2>2, <2>3, <2>4 DEF NextSession
<1>3. LedgerInv => UnchangedWasDelivered
  BY DEF LedgerInv
<1> QED BY <1>1, <1>2, <1>3, PTL DEF SpecSession

-----------------------------------------------------------------------------
(* The Git backend: its working trees, branches and commits. *)

FileSets == [Tracked -> Nat \cup {NoContent}]
WorkingTrees == [branch : Branches, index : FileSets, work : FileSets]

\* Every tree has a branch that exists, and every branch a commit.
GitTypes ==
  /\ commits \in Seq([parent : Nat, files : FileSets]) /\ 1 \in DOMAIN commits
  /\ \A n \in DOMAIN commits :
       /\ commits[n] \in [parent : 0..(n - 1), files : FileSets]
       /\ commits[n].parent = 0 => n = 1
  /\ heads \in [Branches -> DOMAIN commits \cup {NotThere}]
  /\ trees \in [Paths -> WorkingTrees \cup {NotThere}] /\ trees[Root] # NotThere
  /\ \A p \in Paths : trees[p] # NotThere => Exists(trees[p].branch)
  /\ saves \in Nat

\* What a tree's branch has at its end.
LEMMA HeadsAreFiles ==
  ASSUME GitTypes, NEW p \in Paths, trees[p] # NotThere
  PROVE  /\ trees[p] \in WorkingTrees
         /\ heads[trees[p].branch] \in DOMAIN commits
         /\ HeadOf(trees[p]) \in FileSets
<1>1. trees[p] \in WorkingTrees /\ heads[trees[p].branch] \in DOMAIN commits
  BY DEF GitTypes, Exists
<1>2. \A n \in DOMAIN commits : commits[n].files \in FileSets
  BY DEF GitTypes
<1> QED BY <1>1, <1>2 DEF HeadOf, FilesOf

\* A tree that is none.
LEMMA TreesAreThere ==
  ASSUME GitTypes, NEW tree \in WorkingTrees
  PROVE  tree # NotThere
BY GitValues DEF WorkingTrees, FileSets

\* What the working trees may become while the branches stay.
LEMMA TypesOfTrees ==
  ASSUME GitTypes, NEW p \in Paths, trees[p] # NotThere,
         NEW tree \in WorkingTrees, Exists(tree.branch),
         trees' = [trees EXCEPT ![p] = tree], UNCHANGED <<heads, commits>>, saves' \in Nat
  PROVE  GitTypes'
<1>1. \A q \in Paths : trees'[q] = IF q = p THEN tree ELSE trees[q]
  BY DEF GitTypes
<1>2. trees' \in [Paths -> WorkingTrees \cup {NotThere}] /\ trees'[Root] # NotThere
  BY <1>1, TreesAreThere, MainIsABranch DEF GitTypes
<1>3. \A b : Exists(b)' <=> Exists(b)
  BY DEF Exists
<1>4. \A q \in Paths : trees'[q] # NotThere => Exists(trees[q].branch)'
  BY <1>1, <1>3 DEF GitTypes
<1> QED BY <1>2, <1>4 DEF GitTypes

\* At first there is one commit, one branch, and the tree at the root.
LEMMA GitTypesInit == InitGit => GitTypes
<1> SUFFICES ASSUME InitGit PROVE GitTypes
  OBVIOUS
<1> DEFINE none == [f \in Tracked |-> 0]
<1>1. none \in FileSets
  BY DEF FileSets
<1>2. [branch |-> Main, index |-> none, work |-> none] \in WorkingTrees
  BY <1>1, MainIsABranch DEF WorkingTrees
<1>3. [branch |-> Main, index |-> none, work |-> none] # NotThere
  BY <1>1, GitValues, MainIsABranch DEF FileSets
<1>4. /\ commits \in Seq([parent : Nat, files : FileSets]) /\ DOMAIN commits = {1}
      /\ commits[1] \in [parent : 0..(1 - 1), files : FileSets]
  BY <1>1 DEF InitGit
<1>5. heads \in [Branches -> {1, NotThere}] /\ heads[Main] = 1 /\ 1 # NotThere
  BY GitValues, MainIsABranch DEF InitGit
<1>6. trees \in [Paths -> WorkingTrees \cup {NotThere}] /\ trees[Root] # NotThere /\ Exists(Main)
  BY <1>2, <1>3, <1>5, MainIsABranch DEF InitGit, Exists
<1>7. \A p \in Paths : trees[p] # NotThere => trees[p].branch = Main
  BY DEF InitGit
<1>8. saves \in Nat
  BY DEF InitGit
<1> QED BY <1>4, <1>5, <1>6, <1>7, <1>8 DEF GitTypes

\* A branch that comes to be ends where the present one does.
LEMMA TypesOfBranches ==
  ASSUME GitTypes, NEW name \in Branches, NEW n \in DOMAIN commits,
         heads' = [heads EXCEPT ![name] = n], UNCHANGED <<commits, saves>>,
         NEW p \in Paths,
         NEW tree \in WorkingTrees, tree.branch = name \/ Exists(tree.branch),
         UNCHANGED trees \/ trees' = [trees EXCEPT ![p] = tree]
  PROVE  GitTypes'
<1>0. n # NotThere
  BY GitValues DEF GitTypes
<1>1. heads' \in [Branches -> DOMAIN commits \cup {NotThere}]
  BY DEF GitTypes
<1>2. \A b : Exists(b) \/ b = name => Exists(b)'
  BY <1>0, <1>1 DEF Exists, GitTypes
<1>3. trees' \in [Paths -> WorkingTrees \cup {NotThere}] /\ trees'[Root] # NotThere
  BY TreesAreThere, MainIsABranch DEF GitTypes
<1>4. ASSUME NEW q \in Paths, trees'[q] # NotThere PROVE Exists(trees[q].branch)'
  BY <1>2, <1>4 DEF GitTypes
<1> QED BY <1>1, <1>3, <1>4 DEF GitTypes
-----------------------------------------------------------------------------
\* What a step may do to branches and working trees.
Elsewhere == UNCHANGED <<trees, heads, commits, saves>>
Adds      == GitAddAll /\ UNCHANGED <<heads, commits, stashed, saves>>
Commits   == GitCommit /\ UNCHANGED <<trees, stashed, saves>>
Forks     == \E name \in Branches : GitBranch(name) /\ UNCHANGED <<trees, commits, stashed, saves>>
Stashes   == GitStash /\ UNCHANGED <<heads, commits, saves>>
Switches  == \E name \in Branches : GitSwitch(name) /\ UNCHANGED <<heads, commits, stashed, saves>>
Restores  == \E name \in Tracked : GitRestore(name) /\ UNCHANGED <<heads, commits, stashed, saves>>
Grows     == \E name \in Branches : \E path \in Paths :
               GitWorktreeAdd(name, path) /\ UNCHANGED <<commits, stashed, saves>>
Shrinks   == \E path \in Paths : GitWorktreeRemove(path) /\ UNCHANGED <<heads, commits, stashed, saves>>

\* An option for a name is refused, so no step forces a checkout.
LEMMA StepsAre ==
  ASSUME NextGit
  PROVE  Elsewhere \/ Adds \/ Commits \/ Forks \/ Stashes \/ Switches \/ Restores
         \/ Grows \/ Shrinks \/ Save
<1> USE DEF OneRun, LooksLikeGitOption, Elsewhere
<1>1. ASSUME NEW t \in Threads, CommitAdds(t) PROVE Elsewhere \/ Adds
  BY <1>1 DEF CommitAdds, Adds
<1>2. ASSUME NEW t \in Threads, CommitCommits(t) PROVE Elsewhere \/ Commits
  BY <1>2 DEF CommitCommits, Commits
<1>3. ASSUME NEW t \in Threads, DispatchBranch(t) PROVE Elsewhere \/ Forks
  BY <1>3 DEF DispatchBranch, Forks, GitBranch
<1>4. ASSUME NEW t \in Threads, DispatchStash(t) PROVE Elsewhere \/ Stashes
  BY <1>4 DEF DispatchStash, Stashes
<1>5. ASSUME NEW t \in Threads, DispatchCheckout(t) PROVE Elsewhere \/ Switches \/ Restores
  BY <1>5 DEF DispatchCheckout, GitCheckout, Switches, Restores, GitSwitch, GitRestore, Exists
<1>6. ASSUME NEW t \in Threads, DispatchTag(t) PROVE Elsewhere
  BY <1>6 DEF DispatchTag
<1>7. ASSUME NEW t \in Threads, DispatchWorktreeAdd(t) PROVE Elsewhere \/ Grows
  BY <1>7 DEF DispatchWorktreeAdd, Grows, GitWorktreeAdd
<1>8. ASSUME NEW t \in Threads, DispatchWorktreeRemove(t) PROVE Elsewhere \/ Shrinks
  BY <1>8 DEF DispatchWorktreeRemove, Shrinks, GitWorktreeRemove
<1>9. ASSUME NEW t \in Threads, HandleQuery(t) PROVE Elsewhere
  BY <1>9 DEF HandleQuery, Query
<1>10. StartGit => Elsewhere
  BY DEF StartGit
<1> QED BY <1>1, <1>2, <1>3, <1>4, <1>5, <1>6, <1>7, <1>8, <1>9, <1>10 DEF NextGit, GitStep

\* All of them keep the types.
LEMMA GitTypesNext == GitTypes /\ [NextGit]_gitVars => GitTypes'
<1> SUFFICES ASSUME GitTypes, [NextGit]_gitVars PROVE GitTypes'
  OBVIOUS
<1> DEFINE tree == trees[Root]
<1>0. /\ Root \in Paths /\ tree \in WorkingTrees /\ Exists(tree.branch) /\ tree # NotThere
      /\ heads[tree.branch] \in DOMAIN commits /\ HeadOf(tree) \in FileSets
  BY HeadsAreFiles, MainIsABranch DEF GitTypes
<1>h. ASSUME NEW b, Exists(b) PROVE heads[b] \in DOMAIN commits /\ FilesOf(heads[b]) \in FileSets /\ b \in Branches
  BY <1>h DEF Exists, GitTypes, FilesOf
<1>1. CASE Elsewhere
  BY <1>1 DEF Elsewhere, GitTypes, Exists
<1>2. CASE Adds
  <2>1. trees' = [trees EXCEPT ![Root] = [tree EXCEPT !.index = tree.work]]
    BY <1>0, <1>2 DEF Adds, GitAddAll, GitTypes
  <2>2. [tree EXCEPT !.index = tree.work] \in WorkingTrees
    BY <1>0 DEF WorkingTrees
  <2> QED BY <1>0, <1>2, <2>1, <2>2, TypesOfTrees DEF Adds, GitTypes, WorkingTrees
<1>3. CASE Commits
  <2> DEFINE new == [parent |-> heads[tree.branch], files |-> tree.index]
             n   == Len(commits) + 1
  <2>1. /\ new \in [parent : 1..Len(commits), files : FileSets] /\ new.parent # 0
        /\ DOMAIN commits = 1..Len(commits) /\ Len(commits) \in Nat
    BY <1>0 DEF WorkingTrees, GitTypes
  <2>2. commits' = Append(commits, new) /\ heads' = [heads EXCEPT ![tree.branch] = Len(commits')]
    BY <1>3 DEF Commits, GitCommit
  <2> HIDE DEF new
  <2>3. /\ commits' \in Seq([parent : Nat, files : FileSets]) /\ Len(commits') = n
        /\ DOMAIN commits' = 1..n /\ commits'[n] = new
        /\ \A m \in 1..Len(commits) : commits'[m] = commits[m]
    BY <2>1, <2>2 DEF GitTypes
  <2>4. ASSUME NEW m \in DOMAIN commits'
        PROVE  commits'[m] \in [parent : 0..(m - 1), files : FileSets] /\ (commits'[m].parent = 0 => m = 1)
    <3>1. CASE m = n
      <4>1. new.parent \in 0..(n - 1) /\ new.parent # 0
        BY <2>1
      <4> QED BY <2>1, <2>3, <3>1, <4>1
    <3>2. CASE m # n
      <4>1. m \in DOMAIN commits /\ commits'[m] = commits[m]
        BY <2>1, <2>3, <3>2
      <4> QED BY <4>1 DEF GitTypes
    <3> QED BY <3>1, <3>2
  <2>5. heads' \in [Branches -> DOMAIN commits' \cup {NotThere}]
    <3>1. DOMAIN commits \subseteq DOMAIN commits' /\ Len(commits') \in DOMAIN commits'
      BY <2>1, <2>3
    <3> QED BY <2>2, <3>1 DEF GitTypes
  <2>6. n # NotThere
    BY <2>1, GitValues
  <2>7. \A b : Exists(b) => Exists(b)'
    BY <2>2, <2>3, <2>6 DEF Exists, GitTypes
  <2>8. trees' = trees /\ saves' = saves
    BY <1>3 DEF Commits
  <2>9. 1 \in DOMAIN commits'
    BY <2>1, <2>3
  <2> QED BY <2>3, <2>4, <2>5, <2>7, <2>8, <2>9 DEF GitTypes
<1>4. CASE Forks
  <2> PICK name \in Branches : GitBranch(name) /\ UNCHANGED <<trees, commits, stashed, saves>>
    BY <1>4 DEF Forks
  <2> QED BY <1>0, TypesOfBranches DEF GitBranch
<1>5. CASE Stashes
  <2> DEFINE known == {f \in Tracked : tree.index[f] # NoContent \/ HeadOf(tree)[f] # NoContent}
             w     == [f \in Tracked |-> IF f \in known THEN HeadOf(tree)[f] ELSE tree.work[f]]
             new   == [tree EXCEPT !.index = HeadOf(tree), !.work = w]
  <2>1. w \in FileSets
    BY <1>0 DEF WorkingTrees, FileSets
  <2>2. trees' = [trees EXCEPT ![Root].index = HeadOf(tree), ![Root].work = w]
    BY <1>5 DEF Stashes, GitStash
  <2> HIDE DEF w
  <2>3. trees' = [trees EXCEPT ![Root] = new]
    BY <1>0, <2>2 DEF GitTypes
  <2>4. new \in WorkingTrees /\ new.branch = tree.branch
    BY <1>0, <2>1 DEF WorkingTrees
  <2> QED BY <1>0, <1>5, <2>3, <2>4, TypesOfTrees DEF Stashes, GitTypes
<1>6. CASE Switches
  <2> PICK name \in Branches : GitSwitch(name) /\ UNCHANGED <<heads, commits, stashed, saves>>
    BY <1>6 DEF Switches
  <2> DEFINE to == FilesOf(heads[name])
             moved == Differ(HeadOf(tree), to)
             i == [f \in Tracked |-> IF f \in moved THEN to[f] ELSE tree.index[f]]
             w == [f \in Tracked |-> IF f \in moved THEN to[f] ELSE tree.work[f]]
  <2>1. Exists(name) /\ trees' = [trees EXCEPT ![Root] = [branch |-> name, index |-> i, work |-> w]]
    BY DEF GitSwitch
  <2>2. i \in FileSets /\ w \in FileSets
    BY <1>0, <1>h, <2>1 DEF WorkingTrees, FileSets
  <2>3. [branch |-> name, index |-> i, work |-> w] \in WorkingTrees
    BY <2>2 DEF WorkingTrees
  <2> QED BY <1>0, <2>1, <2>3, TypesOfTrees DEF GitTypes
<1>7. CASE Restores
  <2> PICK name \in Tracked : GitRestore(name) /\ UNCHANGED <<heads, commits, stashed, saves>>
    BY <1>7 DEF Restores
  <2> DEFINE new == [tree EXCEPT !.work[name] = tree.index[name]]
  <2>1. trees' = [trees EXCEPT ![Root] = new]
    BY <1>0 DEF GitRestore, GitTypes
  <2>2. new \in WorkingTrees /\ new.branch = tree.branch
    BY <1>0 DEF WorkingTrees, FileSets
  <2> QED BY <1>0, <2>1, <2>2, TypesOfTrees DEF GitTypes
<1>8. CASE Grows
  <2> PICK name \in Branches, path \in Paths :
        GitWorktreeAdd(name, path) /\ UNCHANGED <<commits, stashed, saves>>
    BY <1>8 DEF Grows
  <2> DEFINE new == [branch |-> name, index |-> HeadOf(tree), work |-> HeadOf(tree)]
  <2>1. new \in WorkingTrees /\ new.branch = name
    BY <1>0 DEF WorkingTrees
  <2>2. trees' = [trees EXCEPT ![path] = new] /\ heads' = [heads EXCEPT ![name] = heads[tree.branch]]
    BY DEF GitWorktreeAdd
  <2> QED BY <1>0, <2>1, <2>2, TypesOfBranches
<1>9. CASE Shrinks
  <2> PICK path \in Paths : GitWorktreeRemove(path) /\ UNCHANGED <<heads, commits, stashed, saves>>
    BY <1>9 DEF Shrinks
  <2>1. path # Root /\ trees' = [trees EXCEPT ![path] = NotThere]
    BY DEF GitWorktreeRemove
  <2> QED BY <2>1, MainIsABranch DEF GitTypes, Exists
<1>10. CASE Save
  <2>1. saves' \in Nat /\ UNCHANGED <<heads, commits>>
    BY <1>10 DEF Save, GitTypes
  <2> PICK p \in Paths, f \in Tracked : trees[p] # NotThere /\ trees' = [trees EXCEPT ![p].work[f] = saves']
    BY <1>10 DEF Save
  <2> DEFINE new == [trees[p] EXCEPT !.work[f] = saves']
  <2>2. trees' = [trees EXCEPT ![p] = new] /\ trees[p] \in WorkingTrees /\ Exists(trees[p].branch)
    BY HeadsAreFiles DEF GitTypes
  <2>3. new \in WorkingTrees /\ new.branch = trees[p].branch
    BY <2>1, <2>2 DEF WorkingTrees, FileSets
  <2> QED BY <2>1, <2>2, <2>3, TypesOfTrees
<1>11. CASE UNCHANGED gitVars
  BY <1>11 DEF gitVars, GitTypes, Exists
<1> QED BY <1>1, <1>2, <1>3, <1>4, <1>5, <1>6, <1>7, <1>8, <1>9, <1>10, <1>11, StepsAre
-----------------------------------------------------------------------------
(* NoWorkIsLost: what a step takes away, a commit or a stash holds. *)

InTree(p, f, c) == trees[p] # NotThere /\ c = trees[p].work[f]

\* A file in the working trees is in one of them.
LEMMA WhereItIs ==
  ASSUME NEW x \in WorkingFiles
  PROVE  \E p \in Paths, f \in Tracked : \E c : x = <<f, c>> /\ c # NoContent /\ InTree(p, f, c)
BY DEF WorkingFiles, Held, InTree

\* No step but a save and a checkout of a file makes work irrecoverable.
LEMMA StepLosesNothing ==
  ASSUME GitTypes, NextGit, ~Save, ~ \E name \in Tracked : GitRestore(name), trees' # trees
  PROVE  WorkingFiles \subseteq Kept'
<1> SUFFICES ASSUME NEW p \in Paths, NEW f \in Tracked, NEW c, c # NoContent, InTree(p, f, c)
             PROVE  <<f, c>> \in Kept'
  BY WhereItIs
<1> DEFINE tree == trees[Root]
<1>0. GitTypes'
  BY GitTypesNext
<1>1. /\ Root \in Paths /\ tree \in WorkingTrees /\ trees[p] \in WorkingTrees
      /\ heads[trees[p].branch] \in DOMAIN commits /\ heads[tree.branch] \in DOMAIN commits
  BY HeadsAreFiles, MainIsABranch DEF GitTypes, InTree
<1>2. ASSUME InTree(p, f, c)' PROVE <<f, c>> \in Kept'
  BY <1>2 DEF InTree, Kept, WorkingFiles, Held
<1>3. ASSUME NEW n \in DOMAIN commits, UNCHANGED commits, c = FilesOf(n)[f] PROVE <<f, c>> \in Kept'
  BY <1>3 DEF Kept, Held, FilesOf
<1>4. CASE Adds
  <2>1. trees'[p].work = trees[p].work /\ trees'[p] # NotThere
    BY <1>0, <1>1, <1>4 DEF Adds, GitAddAll, GitTypes, InTree, WorkingTrees
  <2> QED BY <1>2, <2>1 DEF InTree
<1>5. CASE Stashes
  <2> DEFINE known == {g \in Tracked : tree.index[g] # NoContent \/ HeadOf(tree)[g] # NoContent}
             dirty == {g \in known : tree.work[g] # HeadOf(tree)[g] \/ tree.index[g] # HeadOf(tree)[g]}
             w     == [g \in Tracked |-> IF g \in known THEN HeadOf(tree)[g] ELSE tree.work[g]]
             away  == [g \in Tracked |-> IF g \in dirty THEN tree.work[g] ELSE NoContent]
  <2>1. /\ stashed' = stashed \cup Held(away) /\ UNCHANGED <<heads, commits>>
        /\ trees' = [trees EXCEPT ![Root].index = HeadOf(tree), ![Root].work = w]
    BY <1>5 DEF Stashes, GitStash
  <2>2. CASE p # Root \/ f \notin known
    <3>1. trees'[p].work[f] = trees[p].work[f] /\ trees'[p] # NotThere
      BY <1>0, <1>1, <2>1, <2>2 DEF GitTypes, InTree, WorkingTrees
    <3> QED BY <1>2, <3>1 DEF InTree
  <2>3. CASE p = Root /\ f \in dirty
    <3>1. <<f, c>> \in Held(away)
      BY <2>3 DEF Held, InTree
    <3> QED BY <2>1, <3>1 DEF Kept
  <2>4. CASE p = Root /\ f \in known \ dirty
    <3>1. c = FilesOf(heads[tree.branch])[f]
      BY <2>4 DEF InTree, HeadOf
    <3> QED BY <1>1, <1>3, <2>1, <3>1
  <2> QED BY <2>2, <2>3, <2>4
<1>6. CASE Switches
  <2> PICK name \in Branches : GitSwitch(name) /\ UNCHANGED <<heads, commits, stashed, saves>>
    BY <1>6 DEF Switches
  <2> DEFINE to == FilesOf(heads[name])
             moved == Differ(HeadOf(tree), to)
             i == [g \in Tracked |-> IF g \in moved THEN to[g] ELSE tree.index[g]]
             w == [g \in Tracked |-> IF g \in moved THEN to[g] ELSE tree.work[g]]
  <2>1. /\ trees' = [trees EXCEPT ![Root] = [branch |-> name, index |-> i, work |-> w]]
        /\ \A g \in moved : tree.work[g] = HeadOf(tree)[g]
    BY DEF GitSwitch
  <2>2. CASE p # Root \/ f \notin moved
    <3>1. trees'[p].work[f] = trees[p].work[f] /\ trees'[p] # NotThere
      BY <1>0, <1>1, <2>1, <2>2 DEF GitTypes, InTree, WorkingTrees
    <3> QED BY <1>2, <3>1 DEF InTree
  <2>3. CASE p = Root /\ f \in moved
    <3>1. c = FilesOf(heads[tree.branch])[f]
      BY <2>1, <2>3 DEF InTree, HeadOf
    <3> QED BY <1>1, <1>3, <3>1
  <2> QED BY <2>2, <2>3
<1>7. CASE Grows
  <2> PICK name \in Branches, path \in Paths :
        GitWorktreeAdd(name, path) /\ UNCHANGED <<commits, stashed, saves>>
    BY <1>7 DEF Grows
  <2>1. p # path /\ trees'[p] = trees[p]
    BY DEF GitWorktreeAdd, InTree, GitTypes
  <2> QED BY <1>2, <2>1 DEF InTree
<1>8. CASE Shrinks
  <2> PICK path \in Paths : GitWorktreeRemove(path) /\ UNCHANGED <<heads, commits, stashed, saves>>
    BY <1>8 DEF Shrinks
  <2>1. CASE p # path
    BY <1>2, <2>1 DEF GitWorktreeRemove, InTree, GitTypes
  <2>2. CASE p = path
    <3>1. c = FilesOf(heads[trees[p].branch])[f]
      BY <2>2 DEF GitWorktreeRemove, InTree, HeadOf
    <3> QED BY <1>1, <1>3, <3>1
  <2> QED BY <2>1, <2>2
<1> QED BY <1>4, <1>5, <1>6, <1>7, <1>8, StepsAre DEF Elsewhere, Commits, Forks, Restores

\* Types hold throughout.
LEMMA GitTypesHold == SpecGit => []GitTypes
BY GitTypesInit, GitTypesNext, PTL DEF SpecGit

\* No step of the backend makes what is in a working tree irrecoverable, but
\* for a checkout of a file, whatever threads and the user do in between.
THEOREM WorkIsKept == SpecGit => NoWorkIsLost
<1>1. GitTypes /\ [NextGit]_gitVars =>
        [trees' # trees => \/ WorkingFiles \subseteq Kept'
                           \/ Save
                           \/ \E name \in Tracked : GitRestore(name)]_gitVars
  BY StepLosesNothing
<1> QED BY <1>1, GitTypesHold, PTL DEF SpecGit, NoWorkIsLost
-----------------------------------------------------------------------------
(* BranchDiffIsOwn: the ancestors of a commit, and where two of them parted. *)

\* A set of numbers that is not empty has a least one.
LEMMA LeastExists ==
  ASSUME NEW S \in SUBSET Nat, S # {}
  PROVE  \E n \in S : \A m \in S : n <= m
<1> DEFINE less == {ss \in Nat \X Nat : ss[1] < ss[2]}
<1>1. IsWellFoundedOn(less, Nat)
  BY NatLessThanWellFounded DEF OpToRel
<1> HIDE DEF less
<1>2. PICK n \in S : \A m \in S : <<m, n>> \notin less
  BY <1>1, WFMin
<1>3. ASSUME NEW m \in S PROVE n <= m
  <2>1. n \in Nat /\ m \in Nat /\ ~(m < n)
    BY <1>2, <1>3 DEF less
  <2> QED BY <2>1
<1> QED BY <1>3

\* A set of numbers up to n has a greatest one.
LEMMA GreatestExists ==
  ASSUME NEW n \in Nat, NEW S \in SUBSET (1..n), S # {}
  PROVE  Max(S) \in S /\ \A m \in S : m <= Max(S)
<1> DEFINE T == {n - m : m \in S}
<1>1. T \in SUBSET Nat /\ T # {}
  <2>1. \A m \in S : n - m \in Nat
    OBVIOUS
  <2> QED BY <2>1
<1>2. PICK k \in T : \A l \in T : k <= l
  BY <1>1, LeastExists
<1>3. PICK m \in S : k = n - m
  OBVIOUS
<1>4. \A l \in S : m >= l
  BY <1>2, <1>3
<1> QED BY <1>4 DEF Max

\* The commits that a branch has.
LEMMA AncestorsHoldParents ==
  ASSUME GitTypes, NEW n \in DOMAIN commits
  PROVE  /\ n \in Ancestors(n) /\ Ancestors(n) \subseteq 1..n /\ 1..n \subseteq DOMAIN commits
         /\ HoldsParents(Ancestors(n))
         /\ \A past \in SUBSET (1..n) : n \in past /\ HoldsParents(past) => Ancestors(n) \subseteq past
<1>1. DOMAIN commits = 1..Len(commits) /\ Len(commits) \in Nat
  BY DEF GitTypes
<1>2. ASSUME NEW k \in Ancestors(n), commits[k].parent # 0 PROVE commits[k].parent \in Ancestors(n)
  <2>1. k \in 1..n
    BY DEF Ancestors
  <2>2. commits[k].parent \in 1..n
    BY <1>1, <1>2, <2>1 DEF GitTypes
  <2> QED BY <1>2, <2>2 DEF Ancestors, HoldsParents
<1>3. n \in Ancestors(n)
  BY <1>1 DEF Ancestors
<1> QED BY <1>1, <1>2, <1>3 DEF HoldsParents, Ancestors

\* Those of a commit are itself and those of its parent.
LEMMA AncestorsOfParent ==
  ASSUME GitTypes, NEW n \in DOMAIN commits, n # 1
  PROVE  /\ commits[n].parent \in DOMAIN commits /\ commits[n].parent < n
         /\ Ancestors(n) = {n} \cup Ancestors(commits[n].parent)
<1> DEFINE p == commits[n].parent
<1>1. DOMAIN commits = 1..Len(commits) /\ Len(commits) \in Nat
  BY DEF GitTypes
<1>2. p \in 0..(n - 1) /\ p # 0
  BY DEF GitTypes
<1>3. p \in DOMAIN commits /\ p < n
  BY <1>1, <1>2
<1> HIDE DEF p
<1>4. Ancestors(p) \subseteq 1..p /\ p \in Ancestors(p) /\ HoldsParents(Ancestors(p))
  BY <1>3, AncestorsHoldParents
<1>5. HoldsParents({n} \cup Ancestors(p)) /\ {n} \cup Ancestors(p) \in SUBSET (1..n)
  BY <1>1, <1>3, <1>4 DEF HoldsParents, p
<1>6. Ancestors(n) \subseteq {n} \cup Ancestors(p)
  BY <1>5, AncestorsHoldParents
<1>7. ASSUME NEW m \in Ancestors(p), NEW past \in SUBSET (1..n), n \in past, HoldsParents(past)
      PROVE  m \in past
  <2>1. p \in past
    BY <1>2, <1>7 DEF HoldsParents, p
  <2>2. ASSUME NEW k \in past, k \in 1..p PROVE commits[k].parent \in 0..p
    <3>1. k \in DOMAIN commits /\ k \in 1..p
      BY <1>1, <1>3, <2>2
    <3>2. commits[k].parent \in 0..(k - 1)
      BY <3>1 DEF GitTypes
    <3> QED BY <1>1, <1>3, <3>1, <3>2
  <2>3. HoldsParents(past \cap (1..p))
    BY <1>7, <2>2 DEF HoldsParents
  <2> QED BY <1>3, <1>7, <2>1, <2>3, AncestorsHoldParents
<1>8. Ancestors(p) \subseteq Ancestors(n)
  BY <1>1, <1>3, <1>4, <1>7 DEF Ancestors
<1> QED BY <1>3, <1>6, <1>8, AncestorsHoldParents DEF p

\* Every commit comes from the first.
LEMMA AllFromFirst ==
  ASSUME GitTypes, NEW n \in DOMAIN commits
  PROVE  1 \in Ancestors(n)
<1>1. DOMAIN commits = 1..Len(commits) /\ Len(commits) \in Nat
  BY DEF GitTypes
<1>2. Ancestors(n) \in SUBSET Nat /\ Ancestors(n) # {}
  BY <1>1, AncestorsHoldParents
<1>3. PICK k \in Ancestors(n) : \A m \in Ancestors(n) : k <= m
  BY <1>2, LeastExists
<1>4. k \in DOMAIN commits /\ k \in 1..n
  BY AncestorsHoldParents
<1>5. commits[k].parent \notin Ancestors(n)
  BY <1>3, <1>4 DEF GitTypes
<1>6. commits[k].parent = 0
  BY <1>5, AncestorsHoldParents DEF HoldsParents
<1> QED BY <1>3, <1>4, <1>6 DEF GitTypes

\* They are a chain: what comes before one of them is of its past.
LEMMA Chain ==
  ASSUME GitTypes, NEW n \in DOMAIN commits, NEW k \in Ancestors(n)
  PROVE  k \in DOMAIN commits /\ Ancestors(k) = Ancestors(n) \cap (1..k)
<1>1. DOMAIN commits = 1..Len(commits) /\ Len(commits) \in Nat
  BY DEF GitTypes
<1> DEFINE past == {j \in Ancestors(n) : Ancestors(j) = Ancestors(n) \cap (1..j)}
<1>2. n \in past /\ past \in SUBSET (1..n)
  BY AncestorsHoldParents
<1>3. ASSUME NEW j \in past, commits[j].parent # 0 PROVE commits[j].parent \in past
  <2> DEFINE p == commits[j].parent
  <2>1. j \in DOMAIN commits /\ j \in Nat
    BY <1>1, AncestorsHoldParents
  <2>2. j # 1
    BY <1>3, <2>1 DEF GitTypes
  <2>3. p \in DOMAIN commits /\ p < j /\ Ancestors(j) = {j} \cup Ancestors(p)
    BY <2>1, <2>2, AncestorsOfParent
  <2>4. p \in Ancestors(n)
    BY <1>3, AncestorsHoldParents DEF HoldsParents
  <2>5. Ancestors(p) \subseteq 1..p /\ p \in Nat
    BY <1>1, <2>3, AncestorsHoldParents
  <2> HIDE DEF p
  <2>6. Ancestors(p) \subseteq Ancestors(n) \cap (1..p)
    BY <2>3, <2>5
  <2>7. ASSUME NEW m \in Ancestors(n), m \in 1..p PROVE m \in Ancestors(p)
    <3>1. m \in 1..j /\ m # j
      BY <2>1, <2>3, <2>5, <2>7
    <3> QED BY <2>3, <3>1
  <2> QED BY <2>4, <2>6, <2>7 DEF p
<1>4. HoldsParents(past)
  BY <1>3 DEF HoldsParents
<1> HIDE DEF past
<1>5. k \in past
  BY <1>2, <1>4, AncestorsHoldParents
<1> QED BY <1>5, AncestorsHoldParents DEF past
\* Where the branch of HEAD and base parted: the newest commit both have.
LEMMA Parting ==
  ASSUME GitTypes, NEW h \in DOMAIN commits, NEW b \in DOMAIN commits
  PROVE  /\ MergeBase(h, b) \in Ancestors(h) \cap Ancestors(b)
         /\ \A k \in Ancestors(h) : k \in Ancestors(b) <=> k <= MergeBase(h, b)
<1> DEFINE both == Ancestors(h) \cap Ancestors(b)
           m == MergeBase(h, b)
<1>1. h \in Nat /\ both \in SUBSET (1..h) /\ 1 \in both /\ Ancestors(h) \subseteq 1..h
  BY AncestorsHoldParents, AllFromFirst DEF GitTypes
<1>2. m \in both /\ \A k \in both : k <= m
  BY <1>1, GreatestExists DEF MergeBase
<1> HIDE DEF m
<1>3. ASSUME NEW k \in Ancestors(h), k <= m PROVE k \in Ancestors(b)
  <2>1. k \in 1..m
    BY <1>1, <1>2, <1>3
  <2>2. k \in Ancestors(m)
    BY <1>2, <2>1, Chain
  <2> QED BY <1>2, <2>2, Chain
<1> QED BY <1>2, <1>3 DEF m

\* From n back to m, a file stays as it is as long as no commit changes it.
LEMMA SameBack ==
  ASSUME GitTypes, NEW n \in DOMAIN commits, NEW m \in Ancestors(n), NEW f \in Tracked,
         \A k \in Ancestors(n) : k > m => f \notin Changed(k)
  PROVE  FilesOf(m)[f] = FilesOf(n)[f]
<1> DEFINE past == {k \in Ancestors(n) : k < m \/ FilesOf(k)[f] = FilesOf(n)[f]}
<1>1. Ancestors(n) \subseteq 1..n /\ n \in Nat /\ m \in Nat
  BY AncestorsHoldParents DEF GitTypes
<1>2. ASSUME NEW k \in past, commits[k].parent # 0 PROVE commits[k].parent \in past
  <2> DEFINE p == commits[k].parent
  <2>1. k \in DOMAIN commits /\ k \in Nat /\ k # 1
    BY <1>1, <1>2, Chain DEF GitTypes
  <2>2. p \in Ancestors(n) /\ p < k /\ p \in Nat
    BY <1>1, <1>2, <2>1, AncestorsHoldParents, AncestorsOfParent DEF HoldsParents
  <2>3. CASE k <= m
    BY <1>1, <2>1, <2>2, <2>3
  <2>4. CASE k > m
    <3>1. FilesOf(k)[f] = FilesOf(n)[f] /\ f \notin Changed(k)
      BY <1>1, <2>1, <2>4
    <3>2. FilesOf(p)[f] = FilesOf(k)[f]
      BY <2>1, <3>1 DEF Changed, Differ
    <3> QED BY <2>2, <3>1, <3>2
  <2> QED BY <1>1, <2>1, <2>3, <2>4
<1>3. HoldsParents(past)
  BY <1>2 DEF HoldsParents
<1>4. n \in past /\ past \in SUBSET (1..n)
  BY <1>1, AncestorsHoldParents
<1>5. m \in past
  BY <1>3, <1>4, AncestorsHoldParents
<1> QED BY <1>1, <1>5

\* What git.diff.branch names was changed by the branch; what was changed once, it names.
LEMMA OwnChanges ==
  ASSUME GitTypes, NEW base \in Branches, Exists(base)
  PROVE  LET own == Ancestors(heads[trees[Root].branch]) \ Ancestors(heads[base])
         IN  /\ DiffBranch(base) \subseteq UNION {Changed(n) : n \in own}
             /\ \A f \in Tracked : Cardinality({n \in own : f \in Changed(n)}) = 1 => f \in DiffBranch(base)
<1> DEFINE h == heads[trees[Root].branch]
           b == heads[base]
           m == MergeBase(b, h)
           own == Ancestors(h) \ Ancestors(b)
<1>1. h \in DOMAIN commits /\ b \in DOMAIN commits
  BY HeadsAreFiles, MainIsABranch DEF GitTypes, Exists
<1>2. HeadOf(trees[Root]) = FilesOf(h)
  BY DEF HeadOf
<1>3. DiffBranch(base) = Differ(FilesOf(m), FilesOf(h))
  BY <1>2 DEF DiffBranch
<1> HIDE DEF h, b
<1>4. m = MergeBase(h, b)
  BY DEF MergeBase
<1> HIDE DEF m
<1>5. /\ m \in Ancestors(h) /\ Ancestors(h) \subseteq 1..h /\ h \in Nat /\ m \in Nat
      /\ \A k \in Ancestors(h) : k \in own <=> k > m
  <2>1. h \in Nat /\ Ancestors(h) \subseteq 1..h
    BY <1>1, AncestorsHoldParents DEF GitTypes
  <2>2. m \in Ancestors(h) /\ \A k \in Ancestors(h) : k \in Ancestors(b) <=> k <= m
    BY <1>1, <1>4, Parting
  <2>3. ASSUME NEW k \in Ancestors(h) PROVE k \in own <=> k > m
    <3>1. k \in Nat /\ m \in Nat
      BY <2>1, <2>2
    <3> QED BY <2>2, <3>1
  <2> HIDE DEF own
  <2> QED BY <2>1, <2>2, <2>3
<1>6. ASSUME NEW f \in DiffBranch(base) PROVE \E n \in own : f \in Changed(n)
  <2>1. f \in Tracked /\ FilesOf(m)[f] # FilesOf(h)[f]
    BY <1>3 DEF Differ
  <2> QED BY <1>1, <1>5, <2>1, SameBack
<1>7. ASSUME NEW f \in Tracked, Cardinality({n \in own : f \in Changed(n)}) = 1 PROVE f \in DiffBranch(base)
  <2>1. {n \in own : f \in Changed(n)} \subseteq 1..h /\ IsFiniteSet(1..h)
    BY <1>5, FS_Interval
  <2>2. IsFiniteSet({n \in own : f \in Changed(n)})
    BY <2>1, FS_Subset
  <2>3. PICK c : {n \in own : f \in Changed(n)} = {c}
    BY <1>7, <2>2, FS_Singleton
  <2> DEFINE p == commits[c].parent
  <2>4. c \in Ancestors(h) /\ c > m /\ c \in Nat /\ c # 1 /\ f \in Changed(c)
        /\ \A n \in Ancestors(h) : n > m /\ n # c => f \notin Changed(n)
    BY <1>5, <2>3
  <2>5. c \in DOMAIN commits /\ Ancestors(c) = Ancestors(h) \cap (1..c)
    BY <1>1, <2>4, Chain
  <2>6. p \in DOMAIN commits /\ p < c /\ Ancestors(c) = {c} \cup Ancestors(p)
    BY <2>4, <2>5, AncestorsOfParent
  <2>7. FilesOf(c)[f] # FilesOf(p)[f]
    BY <2>4 DEF Changed, Differ
  <2>8. FilesOf(c)[f] = FilesOf(h)[f]
    BY <1>1, <1>5, <2>4, SameBack
  <2> HIDE DEF p
  <2>9. m \in Ancestors(p) /\ Ancestors(p) \subseteq Ancestors(h) /\ Ancestors(p) \subseteq 1..p /\ p \in Nat
    <3>1. Ancestors(p) \subseteq 1..p /\ p \in Nat
      BY <2>6, AncestorsHoldParents DEF GitTypes
    <3>2. m \in 1..c /\ m # c
      BY <1>5, <2>4
    <3> QED BY <1>5, <2>5, <2>6, <3>1, <3>2
  <2>10. ASSUME NEW k \in Ancestors(p), k > m PROVE f \notin Changed(k)
    BY <2>4, <2>6, <2>9, <2>10
  <2>11. FilesOf(m)[f] = FilesOf(p)[f]
    BY <2>6, <2>9, <2>10, SameBack
  <2> QED BY <1>3, <2>7, <2>8, <2>11 DEF Differ
<1> QED BY <1>6, <1>7 DEF h, b

\* git.diff.branch names what the current branch changed since it parted from
\* the base, and never what was changed on the base alone, for any history.
THEOREM DiffNamesOwn == SpecGit => []BranchDiffIsOwn
<1>1. GitTypes => BranchDiffIsOwn
  BY OwnChanges DEF BranchDiffIsOwn
<1> QED BY <1>1, GitTypesHold, PTL

-----------------------------------------------------------------------------
(* The documents of an editor: the messages. *)

Lines == {0} \cup (1..3) \cup UNION {DOMAIN t : t \in Texts}

\* Places an answer may name.
Spots == [file: Files \ Firewalled, line: Lines, word: 0..3]

Cursors == UNION {Positions(t) : t \in Texts}

Messages ==
  [id: {None}, method: {"didOpen"}, uri: Files, text: Texts]
  \cup [id: {None}, method: {"didChange"}, uri: Files, changes: Seq(Texts)]
  \cup [id: {None}, method: {"didClose"}, uri: Files]
  \cup [id: {None}, method: {"exit", "malformed", "initialized"}]
  \cup [id: Nat, method: {"initialize", "shutdown", "unknown"}]
  \cup [id: Nat, method: {"documentSymbol"}, uri: Files]
  \cup [id: Nat, method: {"workspaceSymbol"}, query: Names]
  \cup [id: Nat, method: {"definition", "typeDefinition", "prepareRename"}, uri: Files, at: Cursors]
  \cup [id: Nat, method: {"references"}, uri: Files, at: Cursors, include_declaration: BOOLEAN]
  \cup [id: Nat, method: {"rename"}, uri: Files, at: Cursors, valid_name: BOOLEAN]

Writings ==
  [id: Nat, kind: {"result"}, where: SUBSET Spots]
  \cup [id: Nat \cup {None}, kind: {"error"}, where: {{}}]
  \cup [id: {None}, kind: {"publish"}, uri: Files \ Firewalled, any: BOOLEAN]

Notices == {"didOpen", "didChange", "didClose", "exit", "malformed", "initialized"}

\* What the client sends has the fields its method calls for; only a
\* notification has no id.
LEMMA MessageFacts ==
  ASSUME NEW m \in Messages
  PROVE  /\ m.id = None <=> m.method \in Notices
         /\ m.method \notin Notices => m.id \in Nat
         /\ m.method \in {"didOpen", "didChange", "didClose"} => m.uri \in Files
         /\ m.method = "didOpen" => m.text \in Texts
         /\ m.method = "didChange" => m.changes \in Seq(Texts)
         /\ m.method \in {"documentSymbol", "prepareRename", "rename"} => m.uri \in Files
         /\ m.method \in {"prepareRename", "rename"} => m.at \in Cursors
BY FilesAssumption DEF Messages, Notices

-----------------------------------------------------------------------------
(* Types. *)

Unanswered == [request: Messages, text: Texts \cup {None}]

WorkOK ==
  work # None =>
    /\ inbox # <<>>
    /\ ~shutdown_received
    /\ \/ Head(inbox).method = "typeDefinition" /\ work.found \subseteq Spots
       \/ /\ Head(inbox).method = "references"
          /\ work.found \subseteq Spots /\ work.left \subseteq Files \ Firewalled

TypeInv ==
  /\ TypeOK
  /\ inbox \in Seq(Messages)
  /\ outbox \in Seq(Writings)
  /\ awaiting \in Seq(Unanswered)
  /\ sent \in [messages: Nat, edits: Nat]
  /\ DOMAIN published \cap Firewalled = {}
  /\ WorkOK

-----------------------------------------------------------------------------
(* Where an answer points. *)

\* The first occurrence of a name on a line is one of three words, or none.
LEMMA FirstIsAPlace == \A text, line, name : FirstOn(text, line, name) \in 0..3
<1> TAKE text, line, name
<1> DEFINE on == {at.word : at \in {o \in Occurrences(text, name) : o.line = line}}
<1>1. on \subseteq {1, 2, 3}
  BY DEF Occurrences
<1>2. CASE on = {}
  BY <1>2 DEF FirstOn
<1>3. CASE on # {}
  <2> DEFINE least == CHOOSE w \in on : \A v \in on : w <= v
  <2>1. FirstOn(text, line, name) = least
    BY <1>3 DEF FirstOn
  <2> HIDE DEF on
  <2>2. \E w \in on : \A v \in on : w <= v
    <3>1. CASE 1 \in on
      BY <3>1, <1>1
    <3>2. CASE 1 \notin on /\ 2 \in on
      BY <3>2, <1>1
    <3>3. CASE 1 \notin on /\ 2 \notin on /\ 3 \in on
      BY <3>3, <1>1
    <3> QED BY <3>1, <3>2, <3>3, <1>1, <1>3
  <2>3. least \in on
    BY <2>2, Zenon
  <2> HIDE DEF least
  <2> QED BY <2>1, <2>3, <1>1
<1> QED BY <1>2, <1>3

\* Where the index places a name, once the firewalled files are left out.
LEMMA SymbolsAreSpots ==
  ASSUME NEW name
  PROVE  LocationsOf(Allowed(FindByName(name))) \subseteq Spots
<1> SUFFICES ASSUME NEW s \in Allowed(FindByName(name))
             PROVE  LocationFor(s) \in Spots
  BY DEF LocationsOf
<1>1. s.file \in Files \ Firewalled /\ s.line \in 1..3
  BY DEF Allowed, FindByName
<1>2. s.line \in Lines
  BY <1>1 DEF Lines
<1>3. FirstOn(disk[s.file], s.line, s.name) \in 0..3
  BY FirstIsAPlace
<1> QED BY <1>1, <1>2, <1>3 DEF LocationFor, Spots

\* The occurrences of a word in a text of a file that is allowed.
LEMMA OccurrencesAreSpots ==
  ASSUME NEW f \in Files \ Firewalled, NEW text \in Texts, NEW name
  PROVE  {[file |-> f, line |-> o.line, word |-> o.word] : o \in Occurrences(text, name)} \subseteq Spots
<1>1. \A o \in Occurrences(text, name) : o.line \in Lines /\ o.word \in 0..3
  BY DEF Occurrences, Lines
<1> QED BY <1>1 DEF Spots

\* The word under the client's cursor.
LEMMA CursorsAreSpots ==
  ASSUME NEW at \in Cursors, NEW f \in Files \ Firewalled
  PROVE  [file |-> f, line |-> at.line, word |-> at.word] \in Spots
<1>1. PICK t \in Texts : at \in Positions(t)
  BY DEF Cursors
<1>2. at.line \in Lines /\ at.word \in 0..3
  <2>1. CASE at = [line |-> 1, word |-> 0]
    BY <2>1 DEF Lines
  <2>2. CASE \E n \in Names : at \in Occurrences(t, n)
    BY <2>2 DEF Occurrences, Lines
  <2> QED BY <1>1, <2>1, <2>2 DEF Positions
<1> QED BY <1>2 DEF Spots

-----------------------------------------------------------------------------
(* The streams, as each action leaves them. *)

\* The server takes the head of one stream and appends to the other.
LEMMA StreamsMove ==
  ASSUME TypeInv, inbox # <<>>, NEW messages \in Seq(Writings), Write(messages)
  PROVE  /\ inbox' \in Seq(Messages) /\ outbox' \in Seq(Writings)
         /\ Len(inbox') = Len(inbox) - 1 /\ Len(inbox) \in Nat \ {0}
         /\ \A i \in 1..Len(inbox') : inbox'[i] = inbox[i + 1]
         /\ Head(inbox) = inbox[1] /\ Head(inbox) \in Messages
BY DEF TypeInv, Write

-----------------------------------------------------------------------------
(* Types are kept, step by step. *)

DocumentTypes ==
  /\ \A f \in {documents, buffers} : DOMAIN f \subseteq Files /\ \A u \in DOMAIN f : f[u] \in Texts
  /\ DOMAIN published \subseteq Files /\ \A u \in DOMAIN published : published[u] \in BOOLEAN

\* The messages of a typed stream are of the three kinds.
LEMMA KindsAreTypedNext ==
  outbox' \in Seq(Writings) => \A m \in Range(outbox') : m.kind \in {"result", "error", "publish"}
BY DEF Writings, Range

\* A step of the server that takes the head of the inbox and writes messages.
LEMMA ServerKeepsTypes ==
  ASSUME TypeInv, inbox # <<>>, Others, work = None \/ work' = None,
         NEW messages \in Seq(Writings), Write(messages),
         UNCHANGED work \/ work' = None,
         shutdown_received' \in BOOLEAN, running' \in BOOLEAN,
         DOMAIN documents' \subseteq Files, \A u \in DOMAIN documents' : documents'[u] \in Texts,
         DOMAIN published' \subseteq Files \ Firewalled, \A u \in DOMAIN published' : published'[u] \in BOOLEAN
  PROVE  TypeInv'
<1>1. inbox' \in Seq(Messages) /\ outbox' \in Seq(Writings)
  BY StreamsMove
<1>2. WorkOK'
  BY DEF WorkOK
<1>3. TypeOK'
  BY <1>1, KindsAreTypedNext DEF TypeInv, TypeOK, Others, client, indexes
<1> QED BY <1>1, <1>2, <1>3 DEF TypeInv, Others, client

\* A change of a document writes what is typed, and of allowed files only.
LEMMA PublishingKeepsTypes ==
  ASSUME TypeInv, NEW docs, NEW uri \in Files, PublishDiagnosticsIfChanged(uri, docs)
  PROVE  /\ \E messages \in Seq(Writings) : Write(messages)
         /\ DOMAIN published' \subseteq Files \ Firewalled
         /\ \A u \in DOMAIN published' : published'[u] \in BOOLEAN
<1>1. CASE /\ uri \notin Firewalled
           /\ uri \in DOMAIN docs
           /\ Diagnosed(uri, docs[uri]) \/ WasNonempty(uri)
  <2>1. published' = Replace(published, uri, Diagnosed(uri, docs[uri]))
    BY <1>1 DEF PublishDiagnosticsIfChanged
  <2>2. Diagnosed(uri, docs[uri]) \in BOOLEAN
    BY DEF Diagnosed
  <2>3. Publish(uri, Diagnosed(uri, docs[uri])) \in Writings
    BY <1>1, <2>2 DEF Publish, Writings
  <2>4. <<Publish(uri, Diagnosed(uri, docs[uri]))>> \in Seq(Writings)
    BY <2>3
  <2>5. Write(<<Publish(uri, Diagnosed(uri, docs[uri]))>>)
    BY <1>1 DEF PublishDiagnosticsIfChanged
  <2>6. DOMAIN published \subseteq Files \ Firewalled /\ \A u \in DOMAIN published : published[u] \in BOOLEAN
    BY DEF TypeInv, TypeOK
  <2> QED BY <1>1, <2>1, <2>2, <2>4, <2>5, <2>6 DEF Replace
<1>2. CASE ~(/\ uri \notin Firewalled
             /\ uri \in DOMAIN docs
             /\ Diagnosed(uri, docs[uri]) \/ WasNonempty(uri))
  <2>1. UNCHANGED published /\ Write(<<>>)
    BY <1>2 DEF PublishDiagnosticsIfChanged
  <2>2. <<>> \in Seq(Writings)
    OBVIOUS
  <2> QED BY <2>1, <2>2 DEF TypeInv, TypeOK
<1> QED BY <1>1, <1>2

\* One message is a stream.
LEMMA OneMessage == \A message \in Writings : <<message>> \in Seq(Writings)
OBVIOUS

\* Each notification keeps the types.
LEMMA NotificationsKeepTypes ==
  ASSUME TypeInv, HandleDidOpen \/ HandleDidChange \/ HandleDidClose \/ EndRun \/ AnswerNobody \/ IgnoreNotification
  PROVE  TypeInv'
<1> DEFINE m == Head(inbox)
<1>0. /\ DOMAIN documents \subseteq Files /\ \A u \in DOMAIN documents : documents[u] \in Texts
      /\ DOMAIN published \subseteq Files \ Firewalled /\ \A u \in DOMAIN published : published[u] \in BOOLEAN
      /\ shutdown_received \in BOOLEAN /\ running \in BOOLEAN
  BY DEF TypeInv, TypeOK
<1>1. inbox # <<>> /\ work = None /\ Others /\ m \in Messages
  <2>1. inbox # <<>> /\ work = None /\ Others
    BY DEF HandleDidOpen, HandleDidChange, HandleDidClose, EndRun, AnswerNobody, IgnoreNotification, Handling
  <2> QED BY <2>1 DEF TypeInv
<1>2. CASE HandleDidOpen
  <2>1. m.uri \in Files /\ m.text \in Texts
    BY <1>1, <1>2, MessageFacts DEF HandleDidOpen, Handling
  <2>2. /\ documents' = Replace(documents, m.uri, m.text)
        /\ PublishDiagnosticsIfChanged(m.uri, documents')
        /\ UNCHANGED <<shutdown_received, running, work>>
    BY <1>2 DEF HandleDidOpen
  <2>3. DOMAIN documents' \subseteq Files /\ \A u \in DOMAIN documents' : documents'[u] \in Texts
    BY <1>0, <2>1, <2>2 DEF Replace
  <2>4. /\ \E messages \in Seq(Writings) : Write(messages)
        /\ DOMAIN published' \subseteq Files \ Firewalled
        /\ \A u \in DOMAIN published' : published'[u] \in BOOLEAN
    BY <2>1, <2>2, PublishingKeepsTypes
  <2> QED BY <1>0, <1>1, <2>2, <2>3, <2>4, ServerKeepsTypes
<1>3. CASE HandleDidChange
  <2>1. m.uri \in Files /\ m.changes \in Seq(Texts)
    BY <1>1, <1>3, MessageFacts DEF HandleDidChange, Handling
  <2>2. /\ documents' = IF m.changes = <<>> THEN documents ELSE Replace(documents, m.uri, Last(m.changes))
        /\ PublishDiagnosticsIfChanged(m.uri, documents')
        /\ UNCHANGED <<shutdown_received, running, work>>
    BY <1>3 DEF HandleDidChange
  <2>3. m.changes # <<>> => Last(m.changes) \in Texts
    BY <2>1 DEF Last
  <2>4. DOMAIN documents' \subseteq Files /\ \A u \in DOMAIN documents' : documents'[u] \in Texts
    BY <1>0, <2>1, <2>2, <2>3 DEF Replace
  <2>5. /\ \E messages \in Seq(Writings) : Write(messages)
        /\ DOMAIN published' \subseteq Files \ Firewalled
        /\ \A u \in DOMAIN published' : published'[u] \in BOOLEAN
    BY <2>1, <2>2, PublishingKeepsTypes
  <2> QED BY <1>0, <1>1, <2>2, <2>4, <2>5, ServerKeepsTypes
<1>4. CASE HandleDidClose
  <2>1. m.uri \in Files
    BY <1>1, <1>4, MessageFacts DEF HandleDidClose, Handling
  <2>2. /\ documents' = Without(documents, m.uri) /\ published' = Without(published, m.uri)
        /\ Write(IF WasNonempty(m.uri) THEN <<Publish(m.uri, FALSE)>> ELSE <<>>)
        /\ UNCHANGED <<shutdown_received, running, work>>
    BY <1>4 DEF HandleDidClose
  <2> DEFINE messages == IF WasNonempty(m.uri) THEN <<Publish(m.uri, FALSE)>> ELSE <<>>
  <2>3. messages \in Seq(Writings)
    <3>1. WasNonempty(m.uri) => m.uri \notin Firewalled
      BY <1>0 DEF WasNonempty
    <3>2. WasNonempty(m.uri) => Publish(m.uri, FALSE) \in Writings
      BY <3>1, <2>1 DEF Publish, Writings
    <3>3. CASE WasNonempty(m.uri)
      <4>1. Publish(m.uri, FALSE) \in Writings
        BY <3>2, <3>3
      <4>2. <<Publish(m.uri, FALSE)>> \in Seq(Writings)
        BY <4>1, OneMessage, Zenon
      <4>3. messages = <<Publish(m.uri, FALSE)>>
        BY <3>3
      <4> QED BY <4>2, <4>3, Zenon
    <3>4. CASE ~WasNonempty(m.uri)
      BY <3>4
    <3> QED BY <3>3, <3>4
  <2>4. DOMAIN documents' \subseteq Files /\ \A u \in DOMAIN documents' : documents'[u] \in Texts
    BY <1>0, <2>2 DEF Without, Restrict
  <2>5. DOMAIN published' \subseteq Files \ Firewalled /\ \A u \in DOMAIN published' : published'[u] \in BOOLEAN
    BY <1>0, <2>2 DEF Without, Restrict
  <2>6. Write(messages)
    BY <2>2
  <2> HIDE DEF messages
  <2> QED BY <1>0, <1>1, <2>2, <2>3, <2>4, <2>5, <2>6, ServerKeepsTypes
<1>5. CASE EndRun
  <2>1. <<>> \in Seq(Writings) /\ Write(<<>>)
    BY <1>5 DEF EndRun
  <2>2. /\ UNCHANGED <<documents, shutdown_received, published, work>> /\ running' \in BOOLEAN
    BY <1>5 DEF EndRun
  <2> QED BY <2>1, <2>2, <1>0, <1>1, ServerKeepsTypes
<1>6. CASE AnswerNobody
  <2>1. <<Error(None)>> \in Seq(Writings)
    BY DEF Error, Writings
  <2>2. Write(<<Error(None)>>) /\ UNCHANGED <<documents, shutdown_received, published, running, work>>
    BY <1>6 DEF AnswerNobody, server
  <2> QED BY <2>1, <2>2, <1>0, <1>1, ServerKeepsTypes
<1>7. CASE IgnoreNotification
  <2>1. <<>> \in Seq(Writings) /\ Write(<<>>)
    BY <1>7 DEF IgnoreNotification
  <2>2. UNCHANGED <<documents, shutdown_received, published, running, work>>
    BY <1>7 DEF IgnoreNotification, server
  <2> QED BY <2>1, <2>2, <1>0, <1>1, ServerKeepsTypes
<1> QED BY <1>2, <1>3, <1>4, <1>5, <1>6, <1>7

\* Requests: what is answered at once.
LEMMA AnswersKeepTypes ==
  ASSUME TypeInv, inbox # <<>>, Others, UNCHANGED <<documents, published>>,
         shutdown_received' \in BOOLEAN, running' \in BOOLEAN, work' = None,
         Head(inbox).id \in Nat \/ Head(inbox).id = None,
         \/ Write(<<Error(Head(inbox).id)>>)
         \/ Head(inbox).id \in Nat /\ \E where \in SUBSET Spots : Write(<<Result(Head(inbox).id, where)>>)
  PROVE  TypeInv'
<1>1. /\ DOMAIN documents' \subseteq Files /\ \A u \in DOMAIN documents' : documents'[u] \in Texts
      /\ DOMAIN published' \subseteq Files \ Firewalled /\ \A u \in DOMAIN published' : published'[u] \in BOOLEAN
  BY DEF TypeInv, TypeOK
<1>2. CASE Write(<<Error(Head(inbox).id)>>)
  <2>1. Error(Head(inbox).id) \in Writings
    BY DEF Error, Writings
  <2>2. <<Error(Head(inbox).id)>> \in Seq(Writings)
    BY <2>1
  <2> QED BY <1>1, <1>2, <2>2, ServerKeepsTypes
<1>3. ASSUME Head(inbox).id \in Nat, NEW where \in SUBSET Spots, Write(<<Result(Head(inbox).id, where)>>)
      PROVE  TypeInv'
  <2>1. Result(Head(inbox).id, where) \in Writings
    BY <1>3 DEF Result, Writings
  <2>2. <<Result(Head(inbox).id, where)>> \in Seq(Writings)
    BY <2>1
  <2> QED BY <1>1, <1>3, <2>2, ServerKeepsTypes
<1> QED BY <1>2, <1>3

\* A request that is answered at once leaves its result or an error; these are
\* the ones whose answer does not need the documents.
AtOnce ==
  \/ RefuseAfterShutdown \/ Initialize \/ Shutdown \/ MethodNotFound \/ HandleDefinition
  \/ HandleDocumentSymbol \/ HandleWorkspaceSymbol \/ HandlePrepareRename \/ HandleRename

\* It answers with its id, and names no firewalled file.
LEMMA AtOnceAnswers ==
  ASSUME TypeInv, AtOnce
  PROVE  /\ inbox # <<>> /\ Head(inbox) \in Messages /\ Head(inbox).id \in Nat
         /\ Others /\ UNCHANGED <<documents, published, running>> /\ work' = None
         /\ shutdown_received' \in BOOLEAN
         /\ \/ Write(<<Error(Head(inbox).id)>>)
            \/ \E where \in SUBSET Spots : Write(<<Result(Head(inbox).id, where)>>)
<1> DEFINE m == Head(inbox)
<1>1. /\ inbox # <<>>
      /\ Others /\ UNCHANGED <<documents, published, running>> /\ work' = None
  BY DEF AtOnce, RefuseAfterShutdown, Initialize, Shutdown, MethodNotFound, HandleDefinition,
         HandleDocumentSymbol, HandleWorkspaceSymbol, HandlePrepareRename, HandleRename, Request,
         Handling, Fail, Answer
<1>2. m \in Messages
  BY <1>1 DEF TypeInv
<1>3. m.id \in Nat
  BY <1>2, MessageFacts
     DEF AtOnce, RefuseAfterShutdown, Initialize, Shutdown, MethodNotFound, HandleDefinition,
         HandleDocumentSymbol, HandleWorkspaceSymbol, HandlePrepareRename, HandleRename, Request,
         Handling, Notices
<1>4. shutdown_received' \in BOOLEAN
  BY DEF TypeInv, TypeOK, AtOnce, RefuseAfterShutdown, Initialize, Shutdown, MethodNotFound, HandleDefinition,
         HandleDocumentSymbol, HandleWorkspaceSymbol, HandlePrepareRename, HandleRename, Request
<1>5. \/ Write(<<Error(m.id)>>)
      \/ \E where \in SUBSET Spots : Write(<<Result(m.id, where)>>)
  <2>1. CASE RefuseAfterShutdown \/ MethodNotFound
    BY <2>1 DEF RefuseAfterShutdown, MethodNotFound, Fail
  <2>2. CASE Initialize \/ Shutdown
    <3>1. Write(<<Result(m.id, {})>>)
      BY <2>2 DEF Initialize, Shutdown, Answer
    <3> QED BY <3>1
  <2>3. CASE HandleDefinition
    <3>1. Write(<<Result(m.id, LocationsOf(Allowed(FindByName(Word(m)))))>>)
      BY <2>3 DEF HandleDefinition, Answer
    <3> QED BY <3>1, SymbolsAreSpots
  <2>4. CASE HandleDocumentSymbol
    <3> DEFINE some == {s \in Allowed(UNION {FindByName(n) : n \in Names}) : s.file = m.uri}
    <3>1. Write(<<Result(m.id, LocationsOf(some))>>)
      BY <2>4 DEF HandleDocumentSymbol, Answer
    <3>2. \A s \in some : \E n \in Names : s \in Allowed(FindByName(n))
      BY DEF Allowed
    <3> HIDE DEF some
    <3>3. LocationsOf(some) \subseteq Spots
      BY <3>2, SymbolsAreSpots DEF LocationsOf
    <3> QED BY <3>1, <3>3
  <2>5. CASE HandleWorkspaceSymbol
    <3>1. Write(<<Result(m.id, LocationsOf(Allowed(FindByName(m.query))))>>)
      BY <2>5 DEF HandleWorkspaceSymbol, Answer
    <3> QED BY <3>1, SymbolsAreSpots
  <2>6. CASE HandlePrepareRename
    <3>1. CASE ~enable_rename
      BY <2>6, <3>1 DEF HandlePrepareRename, Fail
    <3>2. CASE enable_rename
      <4> DEFINE where == IF RenameTarget(m) = None THEN {}
                          ELSE {[file |-> m.uri, line |-> m.at.line, word |-> m.at.word]}
      <4>1. Write(<<Result(m.id, where)>>)
        BY <2>6, <3>2 DEF HandlePrepareRename, Answer
      <4>2. RenameTarget(m) # None => m.uri \notin Firewalled
        BY DEF RenameTarget
      <4>3. m.uri \in Files /\ m.at \in Cursors
        BY <1>2, <2>6, MessageFacts DEF HandlePrepareRename, Request, Handling
      <4>4. where \subseteq Spots
        BY <4>2, <4>3, CursorsAreSpots
      <4> QED BY <4>1, <4>4
    <3> QED BY <3>1, <3>2
  <2>7. CASE HandleRename
    <3>1. CASE ~enable_rename \/ ~m.valid_name
      BY <2>7, <3>1 DEF HandleRename, Fail
    <3>2. CASE enable_rename /\ m.valid_name
      <4> DEFINE renamed == {[file |-> m.uri, line |-> o.line, word |-> o.word] :
                             o \in Occurrences(documents[m.uri], RenameTarget(m))}
                 where == IF RenameTarget(m) = None THEN {} ELSE renamed
      <4>1. Write(<<Result(m.id, where)>>)
        BY <2>7, <3>2 DEF HandleRename, Answer
      <4>2. RenameTarget(m) # None => m.uri \notin Firewalled /\ m.uri \in DOMAIN documents
        BY DEF RenameTarget, Word
      <4>3. m.uri \in Files
        BY <1>2, <2>7, MessageFacts DEF HandleRename, Request, Handling
      <4>4. m.uri \in DOMAIN documents => documents[m.uri] \in Texts
        BY DEF TypeInv, TypeOK
      <4>5. RenameTarget(m) # None => renamed \subseteq Spots
        BY <4>2, <4>3, <4>4, OccurrencesAreSpots
      <4>6. where \subseteq Spots
        BY <4>5
      <4> QED BY <4>1, <4>6
    <3> QED BY <3>1, <3>2
  <2> QED BY <2>1, <2>2, <2>3, <2>4, <2>5, <2>6, <2>7 DEF AtOnce
<1> QED BY <1>1, <1>2, <1>3, <1>4, <1>5

\* typeDefinition and references collect before they answer.
LEMMA CollectingKeepsTypes ==
  ASSUME TypeInv, HandleTypeDefinition \/ HandleReferences \/ LocateType \/ ReadReferences
  PROVE  TypeInv'
<1> DEFINE m == Head(inbox)
<1>1. inbox # <<>> /\ Others /\ UNCHANGED <<documents, shutdown_received, published, running>>
  BY DEF TypeInv, WorkOK, HandleTypeDefinition, HandleReferences, LocateType, ReadReferences,
         Request, Resuming, Handling
<1>2. m \in Messages /\ ~shutdown_received
  BY <1>1 DEF TypeInv, WorkOK, HandleTypeDefinition, HandleReferences, LocateType, ReadReferences,
         Request, Resuming, Handling
<1>3. m.id \in Nat
  BY <1>2, MessageFacts
     DEF HandleTypeDefinition, HandleReferences, LocateType, ReadReferences, Request, Resuming, Handling, Notices
<1>4. ASSUME UNCHANGED <<inbox, outbox>>, WorkOK'
      PROVE  TypeInv'
  BY <1>1, <1>4 DEF TypeInv, TypeOK, Others, client, indexes
<1>5. ASSUME NEW where \in SUBSET Spots, Answer(where)
      PROVE  TypeInv'
  <2>1. Write(<<Result(m.id, where)>>) /\ work' = None
    BY <1>5 DEF Answer
  <2> QED BY <1>1, <1>3, <2>1, AnswersKeepTypes DEF TypeInv, TypeOK
<1>6. CASE HandleTypeDefinition
  <2>1. m.method = "typeDefinition" /\ work'.found = {} /\ UNCHANGED <<inbox, outbox>>
    BY <1>6 DEF HandleTypeDefinition, Request, Handling
  <2> QED BY <2>1, <1>1, <1>2, <1>4 DEF WorkOK
<1>7. CASE HandleReferences
  <2>1. m.method = "references"
    BY <1>7 DEF HandleReferences, Request, Handling
  <2>2. \/ Answer({})
        \/ /\ work'.left = Files \ Firewalled /\ work'.found = {}
           /\ UNCHANGED <<inbox, outbox>>
    BY <1>7 DEF HandleReferences
  <2>3. CASE Answer({})
    BY <2>3, <1>5
  <2>4. CASE work'.left = Files \ Firewalled /\ work'.found = {} /\ UNCHANGED <<inbox, outbox>>
    BY <2>1, <2>4, <1>1, <1>2, <1>4 DEF WorkOK
  <2> QED BY <2>2, <2>3, <2>4
<1>8. CASE LocateType
  <2>1. m.method = "typeDefinition" /\ work.found \subseteq Spots
    BY <1>8 DEF LocateType, Resuming, TypeInv, WorkOK
  <2>2. CASE Answer(work.found)
    BY <2>1, <2>2, <1>5
  <2>3. ASSUME NEW t, work'.found = work.found \cup LocationsOf(Allowed(FindByName(t))), UNCHANGED <<inbox, outbox>>
        PROVE  TypeInv'
    <3>1. work'.found \subseteq Spots
      BY <2>1, <2>3, SymbolsAreSpots
    <3> QED BY <2>1, <2>3, <3>1, <1>1, <1>2, <1>4 DEF WorkOK
  <2>4. \/ Answer(work.found)
        \/ \E t : work'.found = work.found \cup LocationsOf(Allowed(FindByName(t))) /\ UNCHANGED <<inbox, outbox>>
    <3>1. CASE work.types = {}
      BY <1>8, <3>1, Zenon DEF LocateType
    <3>2. CASE work.types # {}
      <4>1. PICK t \in work.types :
              /\ work' = [types |-> work.types \ {t},
                          found |-> work.found \cup LocationsOf(Allowed(FindByName(t)))]
              /\ UNCHANGED <<inbox, outbox>>
        BY <1>8, <3>2, Zenon DEF LocateType
      <4> QED BY <4>1
    <3> QED BY <3>1, <3>2
  <2> QED BY <2>2, <2>3, <2>4
<1>9. CASE ReadReferences
  <2>1. m.method = "references" /\ work.found \subseteq Spots /\ work.left \subseteq Files \ Firewalled
    BY <1>9 DEF ReadReferences, Resuming, TypeInv, WorkOK
  <2>2. CASE Answer(work.found)
    BY <2>1, <2>2, <1>5
  <2> DEFINE here(f) == {[file |-> f, line |-> o.line, word |-> o.word] : o \in Occurrences(disk[f], work.word)}
  <2>3. ASSUME NEW f \in work.left, UNCHANGED <<inbox, outbox>>,
               work' = [word  |-> work.word, left |-> work.left \ {f}, sites |-> work.sites,
                        found |-> work.found \cup (here(f) \ work.sites)]
        PROVE  TypeInv'
    <3>1. disk[f] \in Texts /\ f \in Files \ Firewalled
      BY <2>1 DEF TypeInv, TypeOK
    <3>2. here(f) \subseteq Spots
      BY <3>1, OccurrencesAreSpots
    <3> HIDE DEF here
    <3>3. work'.found \subseteq Spots /\ work'.left \subseteq Files \ Firewalled
      BY <2>1, <2>3, <3>2
    <3> QED BY <2>1, <2>3, <3>3, <1>1, <1>2, <1>4 DEF WorkOK
  <2>4. CASE work.left = {}
    BY <1>9, <2>4, <2>2, Zenon DEF ReadReferences
  <2>5. CASE work.left # {}
    BY <1>9, <2>5, <2>3, Zenon DEF ReadReferences
  <2> QED BY <2>4, <2>5
<1> QED BY <1>6, <1>7, <1>8, <1>9

-----------------------------------------------------------------------------
(* What a document becomes, as messages are taken out and put in. *)

\* What a document becomes is the same, counted from the next message, when
\* the first has had its effect.
LEMMA TakingBecomes ==
  ASSUME inbox \in Seq(Messages), inbox # <<>>, inbox' = Tail(inbox),
         NEW u, NEW text, NEW n \in 1..Len(inbox), Becomes(n, u, text),
         TextIn(documents', u) = IF Settles(Head(inbox), u) THEN Left(Head(inbox)) ELSE TextIn(documents, u)
  PROVE  Becomes(n - 1, u, text)'
<1>1. /\ Len(inbox) \in Nat /\ n \in Nat
      /\ \A i \in 1..(n - 1) : inbox'[i] = inbox[i + 1]
      /\ Head(inbox) = inbox[1]
  OBVIOUS
<1>2. CASE (\A i \in 1..n : ~Settles(inbox[i], u)) /\ text = TextIn(documents, u)
  <2>1. \A i \in 1..(n - 1) : ~Settles(inbox'[i], u)
    BY <1>1, <1>2
  <2>2. text = TextIn(documents', u)
    BY <1>1, <1>2
  <2> QED BY <2>1, <2>2 DEF Becomes
<1>3. ASSUME NEW i \in 1..n, Settles(inbox[i], u), text = Left(inbox[i]),
             \A j \in (i + 1)..n : ~Settles(inbox[j], u)
      PROVE  Becomes(n - 1, u, text)'
  <2>1. \A j \in i..(n - 1) : ~Settles(inbox'[j], u)
    <3>1. \A j \in i..(n - 1) : inbox'[j] = inbox[j + 1] /\ j + 1 \in (i + 1)..n
      BY <1>1
    <3> QED BY <3>1, <1>3
  <2>2. CASE i = 1
    <3>1. text = TextIn(documents', u)
      BY <2>2, <1>1, <1>3
    <3> QED BY <2>1, <2>2, <3>1 DEF Becomes
  <2>3. CASE i # 1
    <3>1. i - 1 \in 1..(n - 1) /\ inbox'[i - 1] = inbox[i] /\ (i - 1) + 1 = i
      BY <2>3, <1>1
    <3>2. Settles(inbox'[i - 1], u) /\ text = Left(inbox'[i - 1])
      BY <3>1, <1>3
    <3> QED BY <3>1, <3>2, <2>1 DEF Becomes
  <2> QED BY <2>2, <2>3
<1> QED BY <1>2, <1>3 DEF Becomes

\* A message at the end changes what a document becomes only once it is read.
LEMMA PuttingBecomes ==
  ASSUME inbox \in Seq(Messages), NEW m \in Messages, inbox' = Append(inbox, m),
         UNCHANGED documents, NEW u, NEW text, NEW last, last = Len(inbox)
  PROVE  /\ \A n \in 0..Len(inbox) : Becomes(n, u, text) => Becomes(n, u, text)'
         /\ Becomes(last, u, text) =>
              Becomes(last + 1, u, IF Settles(m, u) THEN Left(m) ELSE text)'
<1>1. /\ Len(inbox) \in Nat
      /\ \A i \in 1..Len(inbox) : inbox'[i] = inbox[i]
      /\ inbox'[Len(inbox) + 1] = m
  OBVIOUS
<1>2. ASSUME NEW n \in 0..Len(inbox), Becomes(n, u, text)
      PROVE  Becomes(n, u, text)'
  <2>1. \A i \in 1..n : inbox'[i] = inbox[i]
    BY <1>1
  <2>2. CASE (\A i \in 1..n : ~Settles(inbox[i], u)) /\ text = TextIn(documents, u)
    BY <2>1, <2>2 DEF Becomes
  <2>3. ASSUME NEW i \in 1..n, Settles(inbox[i], u), text = Left(inbox[i]),
               \A j \in (i + 1)..n : ~Settles(inbox[j], u)
        PROVE  Becomes(n, u, text)'
    <3>1. \A j \in (i + 1)..n : ~Settles(inbox'[j], u)
      BY <2>1, <2>3
    <3>2. Settles(inbox'[i], u) /\ text = Left(inbox'[i])
      BY <2>1, <2>3
    <3> QED BY <3>1, <3>2 DEF Becomes
  <2> QED BY <1>2, <2>2, <2>3 DEF Becomes
<1>3. ASSUME Becomes(last, u, text)
      PROVE  Becomes(last + 1, u, IF Settles(m, u) THEN Left(m) ELSE text)'
  <2> DEFINE n == last + 1
  <2>0. n \in 1..n /\ n \in Nat /\ n = last + 1
    BY <1>1
  <2>1. CASE Settles(m, u)
    <3>1. \A j \in (n + 1)..n : ~Settles(inbox'[j], u)
      BY <2>0
    <3>2. Settles(inbox'[n], u) /\ Left(m) = Left(inbox'[n])
      BY <1>1, <2>1
    <3> HIDE DEF n
    <3>3. Becomes(n, u, Left(m))'
      BY <2>0, <3>1, <3>2 DEF Becomes
    <3> QED BY <2>0, <2>1, <3>3
  <2>2. CASE ~Settles(m, u)
    <3>0. ~Settles(inbox'[n], u)
      BY <1>1, <2>2
    <3>1. CASE (\A i \in 1..last : ~Settles(inbox[i], u)) /\ text = TextIn(documents, u)
      <4>1. \A i \in 1..n : ~Settles(inbox'[i], u)
        BY <1>1, <3>0, <3>1
      <4> QED BY <2>2, <4>1, <3>1 DEF Becomes
    <3>2. ASSUME NEW i \in 1..last, Settles(inbox[i], u), text = Left(inbox[i]),
                 \A j \in (i + 1)..last : ~Settles(inbox[j], u)
          PROVE  Becomes(n, u, text)'
      <4>1. \A j \in (i + 1)..n : ~Settles(inbox'[j], u)
        BY <1>1, <3>0, <3>2
      <4>2. Settles(inbox'[i], u) /\ text = Left(inbox'[i]) /\ i \in 1..n
        BY <1>1, <3>2
      <4> QED BY <4>1, <4>2 DEF Becomes
    <3> QED BY <1>3, <2>2, <3>1, <3>2 DEF Becomes
  <2> QED BY <2>1, <2>2
<1> QED BY <1>2, <1>3

-----------------------------------------------------------------------------
(* The streams and what the client waits for. *)

IsAnswer(m) == m.kind # "publish" /\ m.id # None

\* Numbers grow along each stream, and what is answered was asked first.
Ordered ==
  /\ \A i \in DOMAIN awaiting : awaiting[i].request.id \in Nat /\ awaiting[i].request.id <= sent.messages
  /\ \A i, j \in DOMAIN awaiting : i < j => awaiting[i].request.id < awaiting[j].request.id
  /\ \A i, j \in DOMAIN inbox :
       i < j /\ inbox[i].id # None /\ inbox[j].id # None => inbox[i].id < inbox[j].id
  /\ \A i, j \in DOMAIN outbox :
       i < j /\ IsAnswer(outbox[i]) /\ IsAnswer(outbox[j]) => outbox[i].id < outbox[j].id
  /\ \A i \in DOMAIN outbox, j \in DOMAIN inbox :
       IsAnswer(outbox[i]) /\ inbox[j].id # None => outbox[i].id < inbox[j].id

\* The text a rename is about: that of the document when the server reads it.
Reaches(k, q) ==
  /\ q.request = inbox[k]
  /\ inbox[k].method = "rename" => Becomes(k - 1, inbox[k].uri, q.text)

Matched ==
  /\ \A i \in DOMAIN awaiting :
       \/ \E k \in DOMAIN outbox : IsAnswer(outbox[k]) /\ outbox[k].id = awaiting[i].request.id
       \/ \E k \in DOMAIN inbox : inbox[k].id = awaiting[i].request.id
  /\ \A k \in DOMAIN outbox : IsAnswer(outbox[k]) =>
       \E i \in DOMAIN awaiting : awaiting[i].request.id = outbox[k].id
  /\ \A k \in DOMAIN inbox : inbox[k].id # None =>
       \E i \in DOMAIN awaiting : Reaches(k, awaiting[i])

\* The answer m to the rename that q waits for.
Edits(uri, at, text) ==
  {[file |-> uri, line |-> o.line, word |-> o.word] : o \in Occurrences(text, WordAt(text, at))}

Renames(m, q) ==
  m.kind = "result" /\ m.id = q.request.id /\ q.request.method = "rename" /\ m.where # {} =>
    m.where = Edits(q.request.uri, q.request.at, q.text)

Renamed == \A k \in DOMAIN outbox, i \in DOMAIN awaiting : Renames(outbox[k], awaiting[i])

Follows == \A u \in Files : Becomes(Len(inbox), u, TextIn(buffers, u))

DocumentInv == TypeInv /\ Ordered /\ Matched /\ Renamed /\ Follows

\* Two that wait have different numbers.
LEMMA NumbersTell ==
  ASSUME TypeInv, Ordered, NEW i \in DOMAIN awaiting, NEW j \in DOMAIN awaiting,
         awaiting[i].request.id = awaiting[j].request.id
  PROVE  i = j
<1>1. i \in Nat /\ j \in Nat
  BY DEF TypeInv
<1>2. awaiting[i].request.id \in Nat
  BY DEF Ordered
<1>3. ~(i < j) /\ ~(j < i)
  BY <1>2 DEF Ordered
<1> QED BY <1>1, <1>3

\* The two properties follow.
LEMMA InvImplies == DocumentInv => DocumentsFollowClient /\ RenameIsWhole
<1> SUFFICES ASSUME DocumentInv PROVE RenameIsWhole
  BY DEF DocumentInv, Follows, DocumentsFollowClient
<1> SUFFICES ASSUME NEW m \in Results("rename"), m.where # {}
             PROVE  m.where = Edits(Asked(m).request.uri, Asked(m).request.at, Asked(m).text)
  BY DEF RenameIsWhole, Edits
<1>1. m \in Range(outbox) /\ m.kind = "result" /\ Asked(m).request.method = "rename"
  BY DEF Results
<1>2. PICK k \in DOMAIN outbox : m = outbox[k]
  BY <1>1 DEF Range
<1>3. m \in Writings
  BY <1>2 DEF DocumentInv, TypeInv
<1>4. IsAnswer(m)
  BY <1>1, <1>3, FilesAssumption DEF Writings, IsAnswer
<1>5. PICK i \in DOMAIN awaiting : awaiting[i].request.id = m.id
  BY <1>2, <1>4 DEF DocumentInv, Matched
<1>6. PICK j \in DOMAIN awaiting : Asked(m) = awaiting[j] /\ awaiting[j].request.id = m.id
  <2>1. \E q \in Range(awaiting) : q.request.id = m.id
    BY <1>5 DEF Range
  <2>2. Asked(m) \in Range(awaiting) /\ Asked(m).request.id = m.id
    BY <2>1, Zenon DEF Asked
  <2> QED BY <2>2, Zenon DEF Range
<1>7. Renames(m, Asked(m))
  BY <1>2, <1>6 DEF DocumentInv, Renamed
<1> QED BY <1>1, <1>6, <1>7 DEF Renames

-----------------------------------------------------------------------------
(* The server takes a message. *)

\* What the head of the inbox does to the documents.
DocumentsStep ==
  \A u : TextIn(documents', u) =
           IF Settles(Head(inbox), u) THEN Left(Head(inbox)) ELSE TextIn(documents, u)

\* The inbox without its head.
LEMMA TakingMoves ==
  ASSUME TypeInv, inbox # <<>>, inbox' = Tail(inbox)
  PROVE  /\ Len(inbox) \in Nat \ {0} /\ DOMAIN inbox = 1..Len(inbox)
         /\ DOMAIN inbox' = 1..(Len(inbox) - 1) /\ Len(inbox') = Len(inbox) - 1
         /\ \A i \in DOMAIN inbox' : inbox'[i] = inbox[i + 1] /\ i + 1 \in DOMAIN inbox
         /\ Head(inbox) = inbox[1] /\ 1 \in DOMAIN inbox
BY DEF TypeInv

\* Taking a message whose effect the documents show keeps what they become,
\* and the text each later rename will reach.
LEMMA TakingKeepsFollows ==
  ASSUME DocumentInv, inbox # <<>>, inbox' = Tail(inbox), UNCHANGED <<awaiting, buffers>>, DocumentsStep
  PROVE  /\ Follows'
         /\ \A k \in DOMAIN inbox', i \in DOMAIN awaiting :
              Reaches(k + 1, awaiting[i]) => Reaches(k, awaiting[i])'
<1>0. inbox \in Seq(Messages) /\ TypeInv
  BY DEF DocumentInv, TypeInv
<1>1. ASSUME NEW n \in 1..Len(inbox), NEW u, NEW text, Becomes(n, u, text)
      PROVE  Becomes(n - 1, u, text)'
  BY <1>0, <1>1, TakingBecomes DEF DocumentsStep
<1>2. Follows'
  <2> SUFFICES ASSUME NEW u \in Files PROVE Becomes(Len(inbox), u, TextIn(buffers, u))'
    BY DEF Follows
  <2>1. PICK n : n = Len(inbox)
    OBVIOUS
  <2>2. PICK text : text = TextIn(buffers, u)
    OBVIOUS
  <2>3. text = TextIn(buffers', u)
    BY <2>2
  <2>4. Becomes(n, u, text)
    BY <2>1, <2>2 DEF DocumentInv, Follows
  <2>5. n \in 1..Len(inbox) /\ n - 1 = Len(inbox')
    BY <2>1, <1>0, TakingMoves
  <2>6. Becomes(n - 1, u, text)'
    BY <2>4, <2>5, <1>1
  <2> QED BY <2>3, <2>5, <2>6 DEF Becomes
<1>3. ASSUME NEW k \in DOMAIN inbox', NEW i \in DOMAIN awaiting, Reaches(k + 1, awaiting[i])
      PROVE  Reaches(k, awaiting[i])'
  <2>1. inbox'[k] = inbox[k + 1] /\ k \in Nat /\ k + 1 \in 1..Len(inbox) /\ k \in 1..Len(inbox) /\ (k + 1) - 1 = k
    BY <1>0, <1>3, TakingMoves
  <2>2. awaiting'[i] = awaiting[i]
    OBVIOUS
  <2>3. awaiting[i].request = inbox[k + 1]
    BY <1>3 DEF Reaches
  <2>4. ASSUME inbox[k + 1].method = "rename"
        PROVE  Becomes(k - 1, inbox[k].uri, awaiting[i].text)'
    <3>1. PICK uri, text : uri = inbox[k + 1].uri /\ text = awaiting[i].text
      OBVIOUS
    <3>2. Becomes(k, uri, text)
      BY <3>1, <2>4, <2>1, <1>3 DEF Reaches
    <3>3. Becomes(k - 1, uri, text)'
      BY <3>2, <2>1, <1>1
    <3> QED BY <3>1, <3>3, <2>1, <2>2 DEF Becomes
  <2> QED BY <2>1, <2>2, <2>3, <2>4 DEF Reaches
<1> QED BY <1>2, <1>3

\* The outbox after a step is the outbox before it, with one message more or not.
Wrote(x) ==
  /\ Len(outbox') = Len(outbox) + 1
  /\ outbox'[Len(outbox) + 1] = x
  /\ \A k \in DOMAIN outbox : outbox'[k] = outbox[k]

\* The outbox with one message more.
LEMMA WritingMoves ==
  ASSUME TypeInv, NEW x \in Writings, outbox' = outbox \o <<x>>
  PROVE  /\ Wrote(x) /\ Len(outbox) \in Nat
         /\ DOMAIN outbox = 1..Len(outbox) /\ DOMAIN outbox' = 1..(Len(outbox) + 1)
BY DEF TypeInv, Wrote

\* A notification is taken, and no answer is written.
LEMMA NoticeKeepsInv ==
  ASSUME DocumentInv, TypeInv', inbox # <<>>, inbox' = Tail(inbox), Head(inbox).id = None,
         UNCHANGED <<awaiting, buffers, sent>>, DocumentsStep,
         \/ outbox' = outbox
         \/ \E x \in Writings : ~IsAnswer(x) /\ x.kind # "result" /\ outbox' = outbox \o <<x>>
  PROVE  DocumentInv'
<1>0. TypeInv /\ Ordered /\ Matched /\ Renamed
  BY DEF DocumentInv
<1>1. Follows' /\ \A k \in DOMAIN inbox', i \in DOMAIN awaiting : Reaches(k + 1, awaiting[i]) => Reaches(k, awaiting[i])'
  BY TakingKeepsFollows
<1>2. /\ DOMAIN inbox = 1..Len(inbox) /\ Len(inbox) \in Nat \ {0}
      /\ DOMAIN inbox' = 1..(Len(inbox) - 1)
      /\ \A i \in DOMAIN inbox' : inbox'[i] = inbox[i + 1] /\ i + 1 \in DOMAIN inbox
      /\ inbox[1].id = None
  BY <1>0, TakingMoves
<1>3. /\ Len(outbox) \in Nat /\ DOMAIN outbox = 1..Len(outbox)
      /\ \A k \in DOMAIN outbox : k \in DOMAIN outbox' /\ outbox'[k] = outbox[k]
      /\ \A k \in DOMAIN outbox' : \/ k \in DOMAIN outbox
                                   \/ ~IsAnswer(outbox'[k]) /\ outbox'[k].kind # "result"
  <2>1. CASE outbox' = outbox
    BY <2>1, <1>0 DEF TypeInv
  <2>2. ASSUME NEW x \in Writings, ~IsAnswer(x), x.kind # "result", outbox' = outbox \o <<x>>
        PROVE  /\ Len(outbox) \in Nat /\ DOMAIN outbox = 1..Len(outbox)
               /\ \A k \in DOMAIN outbox : k \in DOMAIN outbox' /\ outbox'[k] = outbox[k]
               /\ \A k \in DOMAIN outbox' : \/ k \in DOMAIN outbox
                                            \/ ~IsAnswer(outbox'[k]) /\ outbox'[k].kind # "result"
    <3>1. /\ Wrote(x) /\ Len(outbox) \in Nat
          /\ DOMAIN outbox = 1..Len(outbox) /\ DOMAIN outbox' = 1..(Len(outbox) + 1)
      BY <2>2, <1>0, WritingMoves
    <3>2. \A k \in DOMAIN outbox' : k \in DOMAIN outbox \/ k = Len(outbox) + 1
      BY <3>1
    <3>3. outbox'[Len(outbox) + 1] = x /\ \A k \in DOMAIN outbox : outbox'[k] = outbox[k]
      BY <3>1 DEF Wrote
    <3>4. \A k \in DOMAIN outbox : k \in DOMAIN outbox'
      BY <3>1
    <3>5. ASSUME NEW k \in DOMAIN outbox', k \notin DOMAIN outbox
          PROVE  ~IsAnswer(outbox'[k]) /\ outbox'[k].kind # "result"
      <4>1. outbox'[k] = x
        BY <3>2, <3>3, <3>5
      <4> QED BY <4>1, <2>2
    <3> QED BY <3>1, <3>3, <3>4, <3>5
  <2> QED BY <2>1, <2>2
<1>4. Ordered'
  <2>1. /\ \A i \in DOMAIN awaiting' : awaiting'[i].request.id \in Nat /\ awaiting'[i].request.id <= sent'.messages
        /\ \A i, j \in DOMAIN awaiting' : i < j => awaiting'[i].request.id < awaiting'[j].request.id
    BY <1>0 DEF Ordered
  <2>2. \A i, j \in DOMAIN inbox' :
          i < j /\ inbox'[i].id # None /\ inbox'[j].id # None => inbox'[i].id < inbox'[j].id
    <3> SUFFICES ASSUME NEW i \in DOMAIN inbox', NEW j \in DOMAIN inbox', i < j,
                        inbox'[i].id # None, inbox'[j].id # None
                 PROVE  inbox'[i].id < inbox'[j].id
      OBVIOUS
    <3>1. i + 1 < j + 1 /\ i + 1 \in DOMAIN inbox /\ j + 1 \in DOMAIN inbox
      BY <1>2
    <3> QED BY <3>1, <1>0, <1>2 DEF Ordered
  <2>3. \A i, j \in DOMAIN outbox' :
          i < j /\ IsAnswer(outbox'[i]) /\ IsAnswer(outbox'[j]) => outbox'[i].id < outbox'[j].id
    BY <1>0, <1>3 DEF Ordered
  <2>4. \A i \in DOMAIN outbox', j \in DOMAIN inbox' :
          IsAnswer(outbox'[i]) /\ inbox'[j].id # None => outbox'[i].id < inbox'[j].id
    BY <1>0, <1>2, <1>3 DEF Ordered
  <2> QED BY <2>1, <2>2, <2>3, <2>4 DEF Ordered, IsAnswer
<1>5. Matched'
  <2>1. ASSUME NEW i \in DOMAIN awaiting
        PROVE  \/ \E k \in DOMAIN outbox' : IsAnswer(outbox'[k]) /\ outbox'[k].id = awaiting[i].request.id
               \/ \E k \in DOMAIN inbox' : inbox'[k].id = awaiting[i].request.id
    <3>1. CASE \E k \in DOMAIN outbox : IsAnswer(outbox[k]) /\ outbox[k].id = awaiting[i].request.id
      BY <3>1, <1>3
    <3>2. ASSUME NEW k \in DOMAIN inbox, inbox[k].id = awaiting[i].request.id
          PROVE  \E j \in DOMAIN inbox' : inbox'[j].id = awaiting[i].request.id
      <4>1. awaiting[i].request.id # None
        BY <1>0, FilesAssumption DEF Ordered
      <4>2. k # 1
        BY <4>1, <3>2, <1>2
      <4>3. k - 1 \in DOMAIN inbox' /\ (k - 1) + 1 = k
        BY <4>2, <1>2
      <4> QED BY <4>3, <3>2, <1>2
    <3> QED BY <3>1, <3>2, <1>0 DEF Matched
  <2>2. \A k \in DOMAIN outbox' : IsAnswer(outbox'[k]) =>
          \E i \in DOMAIN awaiting : awaiting[i].request.id = outbox'[k].id
    BY <1>0, <1>3 DEF Matched
  <2>3. ASSUME NEW k \in DOMAIN inbox', inbox'[k].id # None
        PROVE  \E i \in DOMAIN awaiting : Reaches(k, awaiting[i])'
    <3>1. inbox'[k] = inbox[k + 1] /\ k + 1 \in DOMAIN inbox
      BY <1>2
    <3>2. PICK i \in DOMAIN awaiting : Reaches(k + 1, awaiting[i])
      BY <3>1, <2>3, <1>0 DEF Matched
    <3> QED BY <3>2, <1>1
  <2>4. awaiting' = awaiting
    OBVIOUS
  <2> QED BY <2>1, <2>2, <2>3, <2>4 DEF Matched, IsAnswer
<1>6. Renamed'
  <2> SUFFICES ASSUME NEW k \in DOMAIN outbox', NEW i \in DOMAIN awaiting'
               PROVE  Renames(outbox'[k], awaiting'[i])
    BY Zenon DEF Renamed, Renames, Edits, Occurrences, WordAt
  <2>1. CASE k \in DOMAIN outbox
    BY <2>1, <1>0, <1>3 DEF Renamed
  <2>2. CASE outbox'[k].kind # "result"
    BY <2>2 DEF Renames
  <2> QED BY <2>1, <2>2, <1>3
<1> QED BY <1>1, <1>4, <1>5, <1>6 DEF DocumentInv

\* A request is taken, and x is its answer.
LEMMA AnswerKeepsInv ==
  ASSUME DocumentInv, TypeInv', inbox # <<>>, inbox' = Tail(inbox), Head(inbox).id # None,
         UNCHANGED <<awaiting, buffers, sent>>, DocumentsStep,
         NEW x \in Writings, IsAnswer(x), x.id = Head(inbox).id, outbox' = outbox \o <<x>>,
         x.kind = "result" /\ Head(inbox).method = "rename" /\ x.where # {} =>
           x.where = Edits(Head(inbox).uri, Head(inbox).at, TextIn(documents, Head(inbox).uri))
  PROVE  DocumentInv'
<1>0. TypeInv /\ Ordered /\ Matched /\ Renamed
  BY DEF DocumentInv
<1>1. Follows' /\ \A k \in DOMAIN inbox', i \in DOMAIN awaiting : Reaches(k + 1, awaiting[i]) => Reaches(k, awaiting[i])'
  BY TakingKeepsFollows
<1>2. /\ DOMAIN inbox = 1..Len(inbox) /\ Len(inbox) \in Nat \ {0}
      /\ DOMAIN inbox' = 1..(Len(inbox) - 1)
      /\ \A i \in DOMAIN inbox' : inbox'[i] = inbox[i + 1] /\ i + 1 \in DOMAIN inbox
      /\ inbox[1] = Head(inbox) /\ 1 \in DOMAIN inbox
  BY <1>0, TakingMoves
<1> DEFINE n == Len(outbox) + 1
<1>3. /\ Len(outbox) \in Nat /\ DOMAIN outbox = 1..Len(outbox) /\ DOMAIN outbox' = 1..n
      /\ \A k \in DOMAIN outbox : k \in DOMAIN outbox' /\ outbox'[k] = outbox[k] /\ k < n
      /\ outbox'[n] = x /\ n \in DOMAIN outbox'
      /\ \A k \in DOMAIN outbox' : k \in DOMAIN outbox \/ k = n
  <2>1. /\ Wrote(x) /\ Len(outbox) \in Nat
        /\ DOMAIN outbox = 1..Len(outbox) /\ DOMAIN outbox' = 1..(Len(outbox) + 1)
    BY <1>0, WritingMoves
  <2> QED BY <2>1 DEF Wrote
<1> HIDE DEF n
<1>4. Ordered'
  <2>1. /\ \A i \in DOMAIN awaiting' : awaiting'[i].request.id \in Nat /\ awaiting'[i].request.id <= sent'.messages
        /\ \A i, j \in DOMAIN awaiting' : i < j => awaiting'[i].request.id < awaiting'[j].request.id
    BY <1>0 DEF Ordered
  <2>2. \A i, j \in DOMAIN inbox' :
          i < j /\ inbox'[i].id # None /\ inbox'[j].id # None => inbox'[i].id < inbox'[j].id
    <3> SUFFICES ASSUME NEW i \in DOMAIN inbox', NEW j \in DOMAIN inbox', i < j,
                        inbox'[i].id # None, inbox'[j].id # None
                 PROVE  inbox'[i].id < inbox'[j].id
      OBVIOUS
    <3>1. i + 1 < j + 1 /\ i + 1 \in DOMAIN inbox /\ j + 1 \in DOMAIN inbox
      BY <1>2
    <3> QED BY <3>1, <1>0, <1>2 DEF Ordered
  <2>3. ASSUME NEW i \in DOMAIN outbox', NEW j \in DOMAIN outbox', i < j,
               IsAnswer(outbox'[i]), IsAnswer(outbox'[j])
        PROVE  outbox'[i].id < outbox'[j].id
    <3>1. i \in DOMAIN outbox
      <4>1. i \in 1..n /\ j \in 1..n
        BY <1>3, <2>3
      <4>2. i # n
        BY <4>1, <2>3, <1>3
      <4> QED BY <4>2, <2>3, <1>3
    <3>2. CASE j \in DOMAIN outbox
      BY <3>1, <3>2, <2>3, <1>0, <1>3 DEF Ordered
    <3>3. CASE j = n
      <4>1. IsAnswer(outbox[i])
        BY <3>1, <2>3, <1>3
      <4>2. outbox[i].id < inbox[1].id
        BY <4>1, <3>1, <1>0, <1>2 DEF Ordered
      <4> QED BY <4>2, <3>1, <3>3, <1>2, <1>3
    <3> QED BY <3>2, <3>3, <1>3
  <2>4. ASSUME NEW i \in DOMAIN outbox', NEW j \in DOMAIN inbox',
               IsAnswer(outbox'[i]), inbox'[j].id # None
        PROVE  outbox'[i].id < inbox'[j].id
    <3>1. inbox'[j] = inbox[j + 1] /\ j + 1 \in DOMAIN inbox /\ 1 < j + 1
      BY <1>2
    <3>2. CASE i \in DOMAIN outbox
      <4>1. IsAnswer(outbox[i])
        BY <3>2, <2>4, <1>3
      <4> QED BY <4>1, <3>1, <3>2, <2>4, <1>0, <1>3 DEF Ordered
    <3>3. CASE i = n
      <4>1. inbox[1].id < inbox[j + 1].id
        BY <3>1, <2>4, <1>0, <1>2 DEF Ordered
      <4> QED BY <4>1, <3>1, <3>3, <1>2, <1>3
    <3> QED BY <3>2, <3>3, <1>3
  <2> QED BY <2>1, <2>2, <2>3, <2>4 DEF Ordered, IsAnswer
<1>5. Matched'
  <2>1. ASSUME NEW i \in DOMAIN awaiting
        PROVE  \/ \E k \in DOMAIN outbox' : IsAnswer(outbox'[k]) /\ outbox'[k].id = awaiting[i].request.id
               \/ \E k \in DOMAIN inbox' : inbox'[k].id = awaiting[i].request.id
    <3>1. ASSUME NEW k \in DOMAIN outbox, IsAnswer(outbox[k]), outbox[k].id = awaiting[i].request.id
          PROVE  IsAnswer(outbox'[k]) /\ outbox'[k].id = awaiting[i].request.id /\ k \in DOMAIN outbox'
      <4>1. outbox'[k] = outbox[k] /\ k \in DOMAIN outbox'
        BY <1>3
      <4> QED BY <4>1, <3>1
    <3>2. ASSUME NEW k \in DOMAIN inbox, inbox[k].id = awaiting[i].request.id
          PROVE  \/ \E j \in DOMAIN outbox' : IsAnswer(outbox'[j]) /\ outbox'[j].id = awaiting[i].request.id
                 \/ \E j \in DOMAIN inbox' : inbox'[j].id = awaiting[i].request.id
      <4>1. CASE k = 1
        <5>1. IsAnswer(outbox'[n]) /\ outbox'[n].id = awaiting[i].request.id /\ n \in DOMAIN outbox'
          BY <4>1, <3>2, <1>2, <1>3
        <5> QED BY <5>1
      <4>2. CASE k # 1
        <5>1. k - 1 \in DOMAIN inbox' /\ (k - 1) + 1 = k
          BY <4>2, <1>2
        <5> QED BY <5>1, <3>2, <1>2
      <4> QED BY <4>1, <4>2
    <3> QED BY <3>1, <3>2, <1>0 DEF Matched
  <2>2. ASSUME NEW k \in DOMAIN outbox', IsAnswer(outbox'[k])
        PROVE  \E i \in DOMAIN awaiting : awaiting[i].request.id = outbox'[k].id
    <3>1. CASE k \in DOMAIN outbox
      <4>1. outbox'[k] = outbox[k] /\ IsAnswer(outbox[k])
        BY <3>1, <2>2, <1>3
      <4> QED BY <4>1, <3>1, <1>0 DEF Matched
    <3>2. CASE k = n
      <4>1. PICK i \in DOMAIN awaiting : Reaches(1, awaiting[i])
        BY <1>0, <1>2 DEF Matched
      <4>2. awaiting[i].request = inbox[1]
        BY <4>1 DEF Reaches
      <4> QED BY <4>2, <3>2, <1>2, <1>3
    <3> QED BY <3>1, <3>2, <1>3
  <2>3. ASSUME NEW k \in DOMAIN inbox', inbox'[k].id # None
        PROVE  \E i \in DOMAIN awaiting : Reaches(k, awaiting[i])'
    <3>1. inbox'[k] = inbox[k + 1] /\ k + 1 \in DOMAIN inbox
      BY <1>2
    <3>2. PICK i \in DOMAIN awaiting : Reaches(k + 1, awaiting[i])
      BY <3>1, <2>3, <1>0 DEF Matched
    <3> QED BY <3>2, <1>1
  <2>4. awaiting' = awaiting
    OBVIOUS
  <2>5. \A k \in DOMAIN outbox' : IsAnswer(outbox'[k]) =>
          \E i \in DOMAIN awaiting : awaiting[i].request.id = outbox'[k].id
    BY <2>2, Zenon
  <2>6. \A k \in DOMAIN inbox' : inbox'[k].id # None =>
          \E i \in DOMAIN awaiting : Reaches(k, awaiting[i])'
    BY <2>3, Zenon
  <2>7. (\A i \in DOMAIN awaiting :
          \/ \E k \in DOMAIN outbox : IsAnswer(outbox[k]) /\ outbox[k].id = awaiting[i].request.id
          \/ \E k \in DOMAIN inbox : inbox[k].id = awaiting[i].request.id)'
    BY <2>1, <2>4 DEF IsAnswer
  <2>8. (\A k \in DOMAIN outbox : IsAnswer(outbox[k]) =>
          \E i \in DOMAIN awaiting : awaiting[i].request.id = outbox[k].id)'
    BY <2>5, <2>4 DEF IsAnswer
  <2>9. (\A k \in DOMAIN inbox : inbox[k].id # None =>
          \E i \in DOMAIN awaiting : Reaches(k, awaiting[i]))'
    BY <2>6, <2>4
  <2> QED BY <2>7, <2>8, <2>9, Zenon DEF Matched
<1>6. Renamed'
  <2> SUFFICES ASSUME NEW k \in DOMAIN outbox', NEW i \in DOMAIN awaiting'
               PROVE  Renames(outbox'[k], awaiting'[i])
    BY Zenon DEF Renamed, Renames, Edits, Occurrences, WordAt
  <2>1. CASE k \in DOMAIN outbox
    BY <2>1, <1>0, <1>3 DEF Renamed
  <2>2. CASE k = n
    <3> SUFFICES ASSUME x.kind = "result", x.id = awaiting[i].request.id,
                        awaiting[i].request.method = "rename", x.where # {}
                 PROVE  x.where = Edits(awaiting[i].request.uri, awaiting[i].request.at, awaiting[i].text)
      BY <2>2, <1>3 DEF Renames
    <3>1. PICK j \in DOMAIN awaiting : Reaches(1, awaiting[j])
      BY <1>0, <1>2 DEF Matched
    <3>2. awaiting[j].request = Head(inbox)
      BY <3>1, <1>2 DEF Reaches
    <3>3. i = j
      BY <3>2, <1>0, NumbersTell
    <3>4. Becomes(0, Head(inbox).uri, awaiting[i].text)
      BY <3>1, <3>2, <3>3, <1>2 DEF Reaches
    <3>5. awaiting[i].text = TextIn(documents, Head(inbox).uri)
      BY <3>4 DEF Becomes
    <3> QED BY <3>2, <3>3, <3>5
  <2> QED BY <2>1, <2>2, <1>3
<1> QED BY <1>1, <1>4, <1>5, <1>6 DEF DocumentInv

\* A step that takes nothing and sends nothing.
LEMMA QuietKeepsInv ==
  ASSUME DocumentInv, TypeInv', UNCHANGED <<inbox, outbox, documents, awaiting, buffers>>,
         sent'.messages = sent.messages
  PROVE  DocumentInv'
<1>0. Ordered /\ Matched /\ Renamed /\ Follows
  BY DEF DocumentInv
<1>1. Ordered'
  BY <1>0 DEF Ordered, IsAnswer
<1>2. Follows'
  BY <1>0 DEF Follows, Becomes, TextIn
<1>3. \A k \in DOMAIN inbox, i \in DOMAIN awaiting : Reaches(k, awaiting[i]) => Reaches(k, awaiting[i])'
  BY DEF Reaches, Becomes
<1>4. Matched'
  <2>1. \A k \in DOMAIN inbox : inbox[k].id # None => \E i \in DOMAIN awaiting : Reaches(k, awaiting[i])'
    BY <1>0, <1>3 DEF Matched
  <2> QED BY <1>0, <2>1 DEF Matched, IsAnswer
<1>5. Renamed'
  <2> SUFFICES ASSUME NEW k \in DOMAIN outbox', NEW i \in DOMAIN awaiting'
               PROVE  Renames(outbox'[k], awaiting'[i])
    BY Zenon DEF Renamed, Renames, Edits, Occurrences, WordAt
  <2> QED BY <1>0 DEF Renamed
<1> QED BY <1>1, <1>2, <1>4, <1>5 DEF DocumentInv

\* A request is answered with an error, or with a result that is right if it
\* is a rename.
LEMMA AnsweringKeepsInv ==
  ASSUME DocumentInv, TypeInv', inbox # <<>>, Head(inbox).id \in Nat, Others, UNCHANGED documents,
         \/ Write(<<Error(Head(inbox).id)>>)
         \/ \E where \in SUBSET Spots :
              /\ Write(<<Result(Head(inbox).id, where)>>)
              /\ Head(inbox).method = "rename" /\ where # {} =>
                   where = Edits(Head(inbox).uri, Head(inbox).at, TextIn(documents, Head(inbox).uri))
  PROVE  DocumentInv'
<1> DEFINE m == Head(inbox)
<1>1. m \in Messages /\ m.id # None
  BY FilesAssumption DEF DocumentInv, TypeInv
<1>2. \A u : ~Settles(m, u)
  BY <1>1, MessageFacts DEF Settles, Notices
<1>3. DocumentsStep
  BY <1>2 DEF DocumentsStep, TextIn
<1>4. UNCHANGED <<awaiting, buffers, sent>>
  BY DEF Others, client
<1>5. CASE Write(<<Error(m.id)>>)
  <2>1. Error(m.id) \in Writings /\ IsAnswer(Error(m.id)) /\ Error(m.id).id = m.id /\ Error(m.id).kind # "result"
    BY <1>1 DEF Error, Writings, IsAnswer
  <2> QED BY <1>1, <1>3, <1>4, <1>5, <2>1, AnswerKeepsInv DEF Write
<1>6. ASSUME NEW where \in SUBSET Spots,
             Write(<<Result(m.id, where)>>),
             m.method = "rename" /\ where # {} => where = Edits(m.uri, m.at, TextIn(documents, m.uri))
      PROVE  DocumentInv'
  <2>1. /\ Result(m.id, where) \in Writings /\ IsAnswer(Result(m.id, where))
        /\ Result(m.id, where).id = m.id /\ Result(m.id, where).where = where
    BY <1>1 DEF Result, Writings, IsAnswer
  <2> QED BY <1>1, <1>3, <1>4, <1>6, <2>1, AnswerKeepsInv DEF Write
<1> QED BY <1>5, <1>6

\* In particular the edits of a rename are those of the buffer.
LEMMA AtOnceKeepsInv ==
  ASSUME DocumentInv, AtOnce
  PROVE  DocumentInv'
<1> DEFINE m == Head(inbox)
<1>0. TypeInv
  BY DEF DocumentInv
<1>1. /\ inbox # <<>> /\ m \in Messages /\ m.id \in Nat
      /\ Others /\ UNCHANGED <<documents, published, running>> /\ work' = None
      /\ shutdown_received' \in BOOLEAN
      /\ \/ Write(<<Error(m.id)>>)
         \/ \E where \in SUBSET Spots : Write(<<Result(m.id, where)>>)
  BY <1>0, AtOnceAnswers
<1>2. TypeInv'
  BY <1>0, <1>1, AnswersKeepTypes DEF TypeInv, TypeOK
<1>3. CASE m.method # "rename"
  BY <1>1, <1>2, <1>3, AnsweringKeepsInv
<1>4. CASE m.method = "rename" /\ RefuseAfterShutdown
  BY <1>1, <1>2, <1>4, AnsweringKeepsInv DEF RefuseAfterShutdown, Fail
<1>5. CASE m.method = "rename" /\ ~RefuseAfterShutdown
  <2>1. HandleRename
    BY <1>5 DEF AtOnce, Initialize, Shutdown, MethodNotFound, HandleDefinition,
         HandleDocumentSymbol, HandleWorkspaceSymbol, HandlePrepareRename, Request, Handling
  <2>2. CASE ~enable_rename \/ ~m.valid_name
    BY <2>1, <2>2, <1>1, <1>2, AnsweringKeepsInv DEF HandleRename, Fail
  <2>3. CASE enable_rename /\ m.valid_name
    <3>1. CASE RenameTarget(m) = None
      <4>1. Write(<<Result(m.id, {})>>)
        BY <2>1, <2>3, <3>1 DEF HandleRename, Answer
      <4> QED BY <4>1, <1>1, <1>2, AnsweringKeepsInv
    <3>2. CASE RenameTarget(m) # None
      <4>1. RenameTarget(m) = WordAt(documents[m.uri], m.at) /\ m.uri \in DOMAIN documents
            /\ m.uri \notin Firewalled
        BY <3>2 DEF RenameTarget, Word
      <4>2. Write(<<Result(m.id, Edits(m.uri, m.at, documents[m.uri]))>>)
        BY <2>1, <2>3, <3>2, <4>1 DEF HandleRename, Answer, Edits
      <4>3. documents[m.uri] = TextIn(documents, m.uri) /\ documents[m.uri] \in Texts /\ m.uri \in Files
        BY <4>1, <1>0 DEF TextIn, TypeInv, TypeOK
      <4>4. Edits(m.uri, m.at, documents[m.uri]) \subseteq Spots
        BY <4>1, <4>3, OccurrencesAreSpots DEF Edits
      <4> QED BY <4>2, <4>3, <4>4, <1>1, <1>2, AnsweringKeepsInv
    <3> QED BY <3>1, <3>2
  <2> QED BY <2>2, <2>3
<1> QED BY <1>3, <1>4, <1>5

\* Collecting goes on, or what was collected is the answer.
LEMMA CollectingAnswers ==
  ASSUME TypeInv, HandleTypeDefinition \/ HandleReferences \/ LocateType \/ ReadReferences
  PROVE  /\ inbox # <<>> /\ Head(inbox) \in Messages /\ Head(inbox).id \in Nat
         /\ Head(inbox).method \in {"typeDefinition", "references"}
         /\ Others /\ UNCHANGED <<documents, published>>
         /\ \/ UNCHANGED <<inbox, outbox>>
            \/ \E where \in SUBSET Spots : Write(<<Result(Head(inbox).id, where)>>)
<1> DEFINE m == Head(inbox)
<1>1. inbox # <<>> /\ Others /\ UNCHANGED <<documents, published>>
  BY DEF TypeInv, WorkOK, HandleTypeDefinition, HandleReferences, LocateType, ReadReferences,
         Request, Resuming, Handling
<1>2. m \in Messages /\ m.method \in {"typeDefinition", "references"}
  BY <1>1 DEF TypeInv, HandleTypeDefinition, HandleReferences, LocateType, ReadReferences,
         Request, Resuming, Handling
<1>3. m.id \in Nat
  BY <1>2, MessageFacts DEF Notices
<1>4. \/ UNCHANGED <<inbox, outbox>>
      \/ \E where \in SUBSET Spots : Answer(where)
  <2>1. CASE HandleTypeDefinition
    BY <2>1 DEF HandleTypeDefinition
  <2>2. CASE HandleReferences
    <3>1. UNCHANGED <<inbox, outbox>> \/ Answer({})
      BY <2>2 DEF HandleReferences
    <3> QED BY <3>1
  <2>3. CASE LocateType
    <3>1. UNCHANGED <<inbox, outbox>> \/ Answer(work.found)
      BY <2>3, Zenon DEF LocateType
    <3>2. work.found \in SUBSET Spots
      BY <2>3 DEF LocateType, Resuming, TypeInv, WorkOK
    <3> QED BY <3>1, <3>2
  <2>4. CASE ReadReferences
    <3>1. UNCHANGED <<inbox, outbox>> \/ Answer(work.found)
      BY <2>4, Zenon DEF ReadReferences
    <3>2. work.found \in SUBSET Spots
      BY <2>4 DEF ReadReferences, Resuming, TypeInv, WorkOK
    <3> QED BY <3>1, <3>2
  <2> QED BY <2>1, <2>2, <2>3, <2>4
<1> QED BY <1>1, <1>2, <1>3, <1>4 DEF Answer

\* typeDefinition and references keep the invariant, whatever they collect.
LEMMA CollectingKeepsInv ==
  ASSUME DocumentInv, HandleTypeDefinition \/ HandleReferences \/ LocateType \/ ReadReferences
  PROVE  DocumentInv'
<1>1. TypeInv /\ TypeInv'
  BY CollectingKeepsTypes DEF DocumentInv
<1>2. /\ inbox # <<>> /\ Head(inbox).id \in Nat /\ Head(inbox).method \in {"typeDefinition", "references"}
      /\ Others /\ UNCHANGED documents
      /\ \/ UNCHANGED <<inbox, outbox>>
         \/ \E where \in SUBSET Spots : Write(<<Result(Head(inbox).id, where)>>)
  BY <1>1, CollectingAnswers
<1>3. CASE UNCHANGED <<inbox, outbox>>
  BY <1>1, <1>2, <1>3, QuietKeepsInv DEF Others, client
<1>4. CASE \E where \in SUBSET Spots : Write(<<Result(Head(inbox).id, where)>>)
  BY <1>1, <1>2, <1>4, AnsweringKeepsInv
<1> QED BY <1>2, <1>3, <1>4

-----------------------------------------------------------------------------
(* Notifications. *)

\* A message may be taken without a word.
LEMMA NoWritingKeepsOutbox ==
  ASSUME TypeInv, Write(<<>>)
  PROVE  outbox' = outbox /\ inbox' = Tail(inbox)
BY DEF TypeInv, Write

\* Diagnostics of an allowed file answer nobody.
LEMMA PublishIsNoAnswer ==
  ASSUME NEW uri \in Files \ Firewalled, NEW any \in BOOLEAN
  PROVE  /\ Publish(uri, any) \in Writings /\ ~IsAnswer(Publish(uri, any))
         /\ Publish(uri, any).kind = "publish" /\ Publish(uri, any).uri = uri /\ Publish(uri, any).any = any
BY DEF Publish, Writings, IsAnswer

\* What a notification writes: nothing, or the new state of one document.
LEMMA PublishingWrites ==
  ASSUME TypeInv, NEW docs, NEW uri \in Files, PublishDiagnosticsIfChanged(uri, docs)
  PROVE  \/ /\ UNCHANGED published /\ Write(<<>>)
            /\ uri \notin Firewalled /\ uri \in DOMAIN docs => ~WasNonempty(uri) /\ ~Diagnosed(uri, docs[uri])
         \/ \E any \in BOOLEAN :
              /\ uri \in DOMAIN docs \ Firewalled
              /\ published' = Replace(published, uri, any) /\ Write(<<Publish(uri, any)>>)
BY DEF PublishDiagnosticsIfChanged, Diagnosed

\* Each notification leaves in the documents what it settles.
LEMMA NotificationsKeepInv ==
  ASSUME DocumentInv, HandleDidOpen \/ HandleDidChange \/ HandleDidClose \/ EndRun \/ AnswerNobody \/ IgnoreNotification
  PROVE  DocumentInv'
<1> DEFINE m == Head(inbox)
<1>0. TypeInv /\ TypeInv'
  BY NotificationsKeepTypes DEF DocumentInv
<1>1. inbox # <<>> /\ Others /\ m \in Messages
  <2>1. inbox # <<>> /\ Others
    BY DEF HandleDidOpen, HandleDidChange, HandleDidClose, EndRun, AnswerNobody, IgnoreNotification, Handling
  <2> QED BY <2>1, <1>0 DEF TypeInv
<1>2. m.id = None
  BY <1>1, MessageFacts
     DEF HandleDidOpen, HandleDidChange, HandleDidClose, EndRun, AnswerNobody, IgnoreNotification, Handling, Notices
<1>3. ASSUME DocumentsStep,
             \/ Write(<<>>)
             \/ \E x \in Writings : ~IsAnswer(x) /\ x.kind # "result" /\ Write(<<x>>)
      PROVE  DocumentInv'
  <2>1. UNCHANGED <<awaiting, buffers, sent>>
    BY <1>1 DEF Others, client
  <2>2. CASE Write(<<>>)
    BY <2>1, <2>2, <1>0, <1>1, <1>2, <1>3, NoWritingKeepsOutbox, NoticeKeepsInv
  <2>3. CASE \E x \in Writings : ~IsAnswer(x) /\ x.kind # "result" /\ Write(<<x>>)
    BY <2>1, <2>3, <1>0, <1>1, <1>2, <1>3, NoticeKeepsInv DEF Write
  <2> QED BY <2>2, <2>3, <1>3
<1>4. ASSUME NEW docs, m.uri \in Files, PublishDiagnosticsIfChanged(m.uri, docs)
      PROVE  \/ Write(<<>>)
             \/ \E x \in Writings : ~IsAnswer(x) /\ x.kind # "result" /\ Write(<<x>>)
  <2>1. CASE Write(<<>>)
    BY <2>1
  <2>2. ASSUME NEW any \in BOOLEAN, m.uri \notin Firewalled, Write(<<Publish(m.uri, any)>>)
        PROVE  \E x \in Writings : ~IsAnswer(x) /\ x.kind # "result" /\ Write(<<x>>)
    BY <2>2, <1>4, PublishIsNoAnswer
  <2> QED BY <2>1, <2>2, <1>0, <1>4, PublishingWrites
<1>5. CASE HandleDidOpen
  <2>1. m.method = "didOpen" /\ m.uri \in Files
    BY <1>1, <1>5, MessageFacts DEF HandleDidOpen, Handling
  <2>2. documents' = Replace(documents, m.uri, m.text) /\ PublishDiagnosticsIfChanged(m.uri, documents')
    BY <1>5 DEF HandleDidOpen
  <2>3. \A u : Settles(m, u) <=> u = m.uri
    BY <2>1 DEF Settles
  <2>4. Left(m) = m.text
    BY <2>1 DEF Left
  <2>5. DocumentsStep
    BY <2>2, <2>3, <2>4 DEF DocumentsStep, TextIn, Replace
  <2> QED BY <2>1, <2>2, <2>5, <1>3, <1>4
<1>6. CASE HandleDidChange
  <2>1. m.method = "didChange" /\ m.uri \in Files
    BY <1>1, <1>6, MessageFacts DEF HandleDidChange, Handling
  <2>2. /\ documents' = IF m.changes = <<>> THEN documents ELSE Replace(documents, m.uri, Last(m.changes))
        /\ PublishDiagnosticsIfChanged(m.uri, documents')
    BY <1>6 DEF HandleDidChange
  <2>3. \A u : Settles(m, u) <=> u = m.uri /\ m.changes # <<>>
    BY <2>1 DEF Settles
  <2>4. Left(m) = Last(m.changes)
    BY <2>1 DEF Left
  <2>5. DocumentsStep
    BY <2>2, <2>3, <2>4 DEF DocumentsStep, TextIn, Replace
  <2> QED BY <2>1, <2>2, <2>5, <1>3, <1>4
<1>7. CASE HandleDidClose
  <2>1. m.method = "didClose" /\ m.uri \in Files
    BY <1>1, <1>7, MessageFacts DEF HandleDidClose, Handling
  <2>2. /\ documents' = Without(documents, m.uri)
        /\ Write(IF WasNonempty(m.uri) THEN <<Publish(m.uri, FALSE)>> ELSE <<>>)
    BY <1>7 DEF HandleDidClose
  <2>3. \A u : Settles(m, u) <=> u = m.uri
    BY <2>1 DEF Settles
  <2>4. Left(m) = None
    BY <2>1 DEF Left
  <2>5. DocumentsStep
    BY <2>2, <2>3, <2>4 DEF DocumentsStep, TextIn, Without, Restrict
  <2>6. WasNonempty(m.uri) => m.uri \in Files \ Firewalled
    BY <2>1, <1>0 DEF WasNonempty, TypeInv
  <2>7. \/ Write(<<>>)
        \/ \E x \in Writings : ~IsAnswer(x) /\ x.kind # "result" /\ Write(<<x>>)
    <3>1. CASE WasNonempty(m.uri)
      <4>1. Write(<<Publish(m.uri, FALSE)>>)
        BY <2>2, <3>1
      <4> QED BY <4>1, <3>1, <2>6, PublishIsNoAnswer
    <3>2. CASE ~WasNonempty(m.uri)
      BY <2>2, <3>2
    <3> QED BY <3>1, <3>2
  <2> QED BY <2>5, <2>7, <1>3
<1>8. CASE EndRun \/ AnswerNobody \/ IgnoreNotification
  <2>1. UNCHANGED documents /\ m.method \notin {"didOpen", "didChange", "didClose"}
    BY <1>8 DEF EndRun, AnswerNobody, IgnoreNotification, server, Handling
  <2>2. DocumentsStep
    BY <2>1 DEF DocumentsStep, TextIn, Settles
  <2>3. Write(<<>>) \/ Write(<<Error(None)>>)
    BY <1>8 DEF EndRun, AnswerNobody, IgnoreNotification
  <2>4. Error(None) \in Writings /\ ~IsAnswer(Error(None)) /\ Error(None).kind # "result"
    BY DEF Error, Writings, IsAnswer
  <2> QED BY <2>2, <2>3, <2>4, <1>3
<1> QED BY <1>5, <1>6, <1>7, <1>8

-----------------------------------------------------------------------------
(* The client. *)

\* The inbox with one message more.
LEMMA PuttingMoves ==
  ASSUME TypeInv, NEW m \in Messages, inbox' = Append(inbox, m)
  PROVE  /\ inbox' \in Seq(Messages)
         /\ Len(inbox) \in Nat /\ Len(inbox') = Len(inbox) + 1
         /\ DOMAIN inbox = 1..Len(inbox) /\ DOMAIN inbox' = 1..(Len(inbox) + 1)
         /\ \A i \in DOMAIN inbox : inbox'[i] = inbox[i] /\ i \in DOMAIN inbox' /\ i < Len(inbox) + 1
         /\ inbox'[Len(inbox) + 1] = m
BY DEF TypeInv

\* The client sends m: a notification, or a request that q now waits for.
LEMMA SendingKeepsInv ==
  ASSUME DocumentInv, TypeInv', NEW m \in Messages, inbox' = Append(inbox, m),
         UNCHANGED <<outbox, documents>>, sent'.messages = sent.messages + 1,
         \A u \in Files : TextIn(buffers', u) = IF Settles(m, u) THEN Left(m) ELSE TextIn(buffers, u),
         \/ m.id = None /\ awaiting' = awaiting
         \/ \E q \in Unanswered :
              /\ m.id = sent.messages + 1 /\ q.request = m
              /\ m.method = "rename" => m.uri \in Files /\ q.text = TextIn(buffers, m.uri)
              /\ awaiting' = Append(awaiting, q)
  PROVE  DocumentInv'
<1>0. TypeInv /\ Ordered /\ Matched /\ Renamed /\ Follows
  BY DEF DocumentInv
<1> DEFINE n == Len(inbox) + 1
<1>1. /\ Len(inbox) \in Nat /\ DOMAIN inbox = 1..Len(inbox) /\ DOMAIN inbox' = 1..n /\ Len(inbox') = n
      /\ \A i \in DOMAIN inbox : inbox'[i] = inbox[i] /\ i \in DOMAIN inbox' /\ i < n
      /\ inbox'[n] = m /\ n \in DOMAIN inbox'
      /\ \A i \in DOMAIN inbox' : i \in DOMAIN inbox \/ i = n
      /\ inbox \in Seq(Messages)
  BY <1>0, PuttingMoves DEF TypeInv
<1>2. ASSUME NEW k \in 0..Len(inbox), NEW u, NEW text, Becomes(k, u, text)
      PROVE  Becomes(k, u, text)'
  BY <1>1, <1>2, PuttingBecomes
<1>3. Follows'
  <2> SUFFICES ASSUME NEW u \in Files PROVE Becomes(Len(inbox), u, TextIn(buffers, u))'
    BY DEF Follows
  <2>1. PICK last, text : last = Len(inbox) /\ text = TextIn(buffers, u)
    OBVIOUS
  <2>2. Becomes(last, u, text)
    BY <1>0, <2>1 DEF Follows
  <2>3. Becomes(last + 1, u, IF Settles(m, u) THEN Left(m) ELSE text)'
    BY <1>1, <2>1, <2>2, PuttingBecomes
  <2>4. last + 1 = Len(inbox') /\ (IF Settles(m, u) THEN Left(m) ELSE text) = TextIn(buffers', u)
    BY <1>1, <2>1
  <2>5. PICK now : now = IF Settles(m, u) THEN Left(m) ELSE text
    OBVIOUS
  <2>6. Becomes(last + 1, u, now)'
    BY <2>3, <2>5, Zenon
  <2> QED BY <2>4, <2>5, <2>6 DEF Becomes
<1>4. \A k \in DOMAIN inbox, i \in DOMAIN awaiting :
        Reaches(k, awaiting[i]) =>
          /\ awaiting[i].request = inbox'[k]
          /\ inbox'[k].method = "rename" => Becomes(k - 1, inbox[k].uri, awaiting[i].text)
  BY <1>1 DEF Reaches
<1>5. /\ \A i \in DOMAIN awaiting : i \in DOMAIN awaiting' /\ awaiting'[i] = awaiting[i]
      /\ \A i \in DOMAIN awaiting' :
           \/ i \in DOMAIN awaiting
           \/ /\ i = Len(awaiting) + 1 /\ \A j \in DOMAIN awaiting : j < i
              /\ awaiting'[i].request = m /\ m.id = sent.messages + 1
              /\ m.method = "rename" => m.uri \in Files /\ awaiting'[i].text = TextIn(buffers, m.uri)
      /\ m.id # None => \E i \in DOMAIN awaiting' : awaiting'[i].request = m
  <2>0. awaiting \in Seq(Unanswered)
    BY <1>0 DEF TypeInv
  <2>1. CASE m.id = None /\ awaiting' = awaiting
    BY <2>1
  <2>2. ASSUME NEW q \in Unanswered, m.id = sent.messages + 1, q.request = m,
               m.method = "rename" => m.uri \in Files /\ q.text = TextIn(buffers, m.uri),
               awaiting' = Append(awaiting, q)
        PROVE  <1>5!1 /\ <1>5!2 /\ <1>5!3
    <3>1. /\ Len(awaiting) \in Nat /\ DOMAIN awaiting = 1..Len(awaiting)
          /\ DOMAIN awaiting' = 1..(Len(awaiting) + 1)
          /\ awaiting'[Len(awaiting) + 1] = q
          /\ \A i \in DOMAIN awaiting : awaiting'[i] = awaiting[i]
      BY <2>0, <2>2
    <3>2. \A i \in DOMAIN awaiting' : i \in DOMAIN awaiting \/ (i = Len(awaiting) + 1 /\ \A j \in DOMAIN awaiting : j < i)
      BY <3>1
    <3>3. <1>5!1
      BY <3>1
    <3>4. ASSUME NEW i \in DOMAIN awaiting', i \notin DOMAIN awaiting
          PROVE  /\ i = Len(awaiting) + 1 /\ \A j \in DOMAIN awaiting : j < i
                 /\ awaiting'[i].request = m /\ m.id = sent.messages + 1
                 /\ m.method = "rename" => m.uri \in Files /\ awaiting'[i].text = TextIn(buffers, m.uri)
      <4>1. i = Len(awaiting) + 1 /\ (\A j \in DOMAIN awaiting : j < i) /\ awaiting'[i] = q
        BY <3>1, <3>2, <3>4
      <4> QED BY <4>1, <2>2
    <3>5. Len(awaiting) + 1 \in DOMAIN awaiting' /\ awaiting'[Len(awaiting) + 1].request = m
      <4>1. Len(awaiting) + 1 \in DOMAIN awaiting'
        BY <3>1
      <4>2. awaiting'[Len(awaiting) + 1] = q
        BY <3>1
      <4> QED BY <4>1, <4>2, <2>2, Zenon
    <3> QED BY <3>3, <3>4, <3>5
  <2> QED BY <2>1, <2>2
<1>6. sent.messages \in Nat /\ (m.id # None => m.id = sent.messages + 1)
  BY <1>0 DEF TypeInv
<1> HIDE DEF n
<1>7. \A k \in DOMAIN inbox : inbox[k].id # None => inbox[k].id \in Nat /\ inbox[k].id <= sent.messages
  BY <1>0 DEF Matched, Reaches, Ordered
<1>8. \A k \in DOMAIN outbox : IsAnswer(outbox[k]) => outbox[k].id \in Nat /\ outbox[k].id <= sent.messages
  BY <1>0 DEF Matched, Ordered
<1>9. Ordered'
  <2>1. \A i \in DOMAIN awaiting' : awaiting'[i].request.id \in Nat /\ awaiting'[i].request.id <= sent'.messages
    BY <1>0, <1>5, <1>6 DEF Ordered
  <2>2. ASSUME NEW i \in DOMAIN awaiting', NEW j \in DOMAIN awaiting', i < j
        PROVE  awaiting'[i].request.id < awaiting'[j].request.id
    <3>0. i \in Nat /\ j \in Nat
      BY DEF TypeInv
    <3>1. CASE j \in DOMAIN awaiting
      <4>1. i \in DOMAIN awaiting
        BY <3>0, <3>1, <2>2, <1>5
      <4> QED BY <4>1, <3>1, <2>2, <1>0, <1>5 DEF Ordered
    <3>2. CASE j \notin DOMAIN awaiting
      <4>1. awaiting'[j].request.id = sent.messages + 1
        BY <3>2, <1>5
      <4>2. i \in DOMAIN awaiting
        <5>1. CASE i \notin DOMAIN awaiting
          <6>1. i = Len(awaiting) + 1 /\ j = Len(awaiting) + 1
            BY <5>1, <3>2, <1>5
          <6> QED BY <6>1, <3>0, <2>2
        <5> QED BY <5>1
      <4>3. awaiting'[i].request.id <= sent.messages /\ awaiting'[i].request.id \in Nat
        BY <4>2, <1>0, <1>5 DEF Ordered
      <4> QED BY <4>1, <4>3, <1>6
    <3> QED BY <3>1, <3>2
  <2>3. ASSUME NEW i \in DOMAIN inbox', NEW j \in DOMAIN inbox', i < j, inbox'[i].id # None, inbox'[j].id # None
        PROVE  inbox'[i].id < inbox'[j].id
    <3>0. i \in DOMAIN inbox
      <4>1. i \in 1..n /\ j \in 1..n /\ n \in Nat
        BY <1>1 DEF n
      <4> QED BY <4>1, <2>3, <1>1
    <3>1. CASE j \in DOMAIN inbox
      BY <3>0, <3>1, <2>3, <1>0, <1>1 DEF Ordered
    <3>2. CASE j = n
      BY <3>0, <3>2, <2>3, <1>1, <1>6, <1>7
    <3> QED BY <3>1, <3>2, <1>1
  <2>4. \A i, j \in DOMAIN outbox' :
          i < j /\ IsAnswer(outbox'[i]) /\ IsAnswer(outbox'[j]) => outbox'[i].id < outbox'[j].id
    BY <1>0 DEF Ordered
  <2>5. ASSUME NEW i \in DOMAIN outbox', NEW j \in DOMAIN inbox', IsAnswer(outbox'[i]), inbox'[j].id # None
        PROVE  outbox'[i].id < inbox'[j].id
    <3>0. i \in DOMAIN outbox /\ outbox'[i] = outbox[i] /\ IsAnswer(outbox[i])
      BY <2>5
    <3>1. CASE j \in DOMAIN inbox
      BY <3>0, <3>1, <2>5, <1>0, <1>1 DEF Ordered
    <3>2. CASE j = n
      BY <3>0, <3>2, <2>5, <1>1, <1>6, <1>8
    <3> QED BY <3>1, <3>2, <1>1
  <2> QED BY <2>1, <2>2, <2>3, <2>4, <2>5 DEF Ordered, IsAnswer
<1>10. Matched'
  <2>1. ASSUME NEW i \in DOMAIN awaiting'
        PROVE  \/ \E k \in DOMAIN outbox' : IsAnswer(outbox'[k]) /\ outbox'[k].id = awaiting'[i].request.id
               \/ \E k \in DOMAIN inbox' : inbox'[k].id = awaiting'[i].request.id
    <3>1. CASE i \in DOMAIN awaiting
      <4>1. awaiting'[i] = awaiting[i]
        BY <3>1, <1>5
      <4>2. CASE \E k \in DOMAIN outbox : IsAnswer(outbox[k]) /\ outbox[k].id = awaiting[i].request.id
        BY <4>1, <4>2
      <4>3. CASE \E k \in DOMAIN inbox : inbox[k].id = awaiting[i].request.id
        BY <4>1, <4>3, <1>1
      <4> QED BY <4>2, <4>3, <3>1, <1>0 DEF Matched
    <3>2. CASE i \notin DOMAIN awaiting
      <4>1. awaiting'[i].request = m
        BY <3>2, <1>5
      <4> QED BY <4>1, <1>1
    <3> QED BY <3>1, <3>2
  <2>2. ASSUME NEW k \in DOMAIN outbox', IsAnswer(outbox'[k])
        PROVE  \E i \in DOMAIN awaiting' : awaiting'[i].request.id = outbox'[k].id
    <3>1. k \in DOMAIN outbox /\ outbox'[k] = outbox[k] /\ IsAnswer(outbox[k])
      BY <2>2
    <3>2. PICK i \in DOMAIN awaiting : awaiting[i].request.id = outbox[k].id
      BY <3>1, <1>0 DEF Matched
    <3> QED BY <3>1, <3>2, <1>5
  <2>3. ASSUME NEW k \in DOMAIN inbox', inbox'[k].id # None
        PROVE  \E i \in DOMAIN awaiting' : Reaches(k, awaiting[i])'
    <3>1. CASE k \in DOMAIN inbox
      <4>1. PICK i \in DOMAIN awaiting : Reaches(k, awaiting[i])
        BY <3>1, <2>3, <1>0, <1>1 DEF Matched
      <4>2. i \in DOMAIN awaiting' /\ awaiting'[i] = awaiting[i] /\ inbox'[k] = inbox[k]
        BY <4>1, <3>1, <1>1, <1>5
      <4>3. ASSUME inbox[k].method = "rename"
            PROVE  Becomes(k - 1, inbox[k].uri, awaiting[i].text)'
        <5>1. PICK uri, text : uri = inbox[k].uri /\ text = awaiting[i].text
          OBVIOUS
        <5>2. Becomes(k - 1, uri, text)
          BY <5>1, <4>1, <4>3 DEF Reaches
        <5>3. k - 1 \in 0..Len(inbox)
          BY <3>1, <1>1
        <5>4. Becomes(k - 1, uri, text)'
          BY <5>2, <5>3, <1>2
        <5> QED BY <5>1, <5>4, <4>2 DEF Becomes
      <4>4. Reaches(k, awaiting[i])'
        BY <4>1, <4>2, <4>3 DEF Reaches
      <4> QED BY <4>2, <4>4
    <3>2. CASE k = n
      <4>1. m.id # None
        BY <3>2, <2>3, <1>1
      <4>2. PICK i \in DOMAIN awaiting' : awaiting'[i].request = m
        BY <4>1, <1>5
      <4>3. i \notin DOMAIN awaiting
        <5>1. i \in DOMAIN awaiting => awaiting[i].request.id <= sent.messages /\ awaiting[i].request = m
          BY <4>2, <1>0, <1>5 DEF Ordered
        <5> QED BY <5>1, <4>1, <1>6
      <4>4. m.method = "rename" => m.uri \in Files /\ awaiting'[i].text = TextIn(buffers, m.uri)
        BY <4>2, <4>3, <1>5
      <4>5. ASSUME m.method = "rename"
            PROVE  Becomes(k - 1, m.uri, awaiting[i].text)'
        <5>1. PICK uri, text : uri = m.uri /\ text = TextIn(buffers, m.uri)
          OBVIOUS
        <5>2. PICK last : last = Len(inbox)
          OBVIOUS
        <5>3. Becomes(last, uri, text)
          BY <5>1, <5>2, <4>4, <4>5, <1>0 DEF Follows
        <5>4. last \in 0..Len(inbox) /\ k - 1 = last
          BY <5>2, <3>2, <1>1 DEF n
        <5>5. Becomes(last, uri, text)'
          BY <5>3, <5>4, <1>2
        <5> QED BY <5>1, <5>4, <5>5, <4>4, <4>5 DEF Becomes
      <4>6. Reaches(k, awaiting[i])'
        BY <4>2, <4>5, <3>2, <1>1 DEF Reaches
      <4> QED BY <4>2, <4>6
    <3> QED BY <3>1, <3>2, <1>1
  <2>7. (\A i \in DOMAIN awaiting :
          \/ \E k \in DOMAIN outbox : IsAnswer(outbox[k]) /\ outbox[k].id = awaiting[i].request.id
          \/ \E k \in DOMAIN inbox : inbox[k].id = awaiting[i].request.id)'
    BY <2>1 DEF IsAnswer
  <2>8. (\A k \in DOMAIN outbox : IsAnswer(outbox[k]) =>
          \E i \in DOMAIN awaiting : awaiting[i].request.id = outbox[k].id)'
    BY <2>2 DEF IsAnswer
  <2>9. (\A k \in DOMAIN inbox : inbox[k].id # None =>
          \E i \in DOMAIN awaiting : Reaches(k, awaiting[i]))'
    BY <2>3
  <2> QED BY <2>7, <2>8, <2>9, Zenon DEF Matched
<1>11. Renamed'
  <2> SUFFICES ASSUME NEW k \in DOMAIN outbox', NEW i \in DOMAIN awaiting'
               PROVE  Renames(outbox'[k], awaiting'[i])
    BY Zenon DEF Renamed, Renames, Edits, Occurrences, WordAt
  <2>0. k \in DOMAIN outbox /\ outbox'[k] = outbox[k]
    OBVIOUS
  <2>1. CASE i \in DOMAIN awaiting
    BY <2>0, <2>1, <1>0, <1>5 DEF Renamed
  <2>2. CASE i \notin DOMAIN awaiting
    <3>1. awaiting'[i].request.id = sent.messages + 1
      BY <2>2, <1>5
    <3>2. outbox[k].kind = "result" => IsAnswer(outbox[k])
      BY <2>0, <1>0, FilesAssumption DEF TypeInv, Writings, IsAnswer
    <3>3. outbox[k].kind = "result" => outbox[k].id # awaiting'[i].request.id
      BY <2>0, <3>1, <3>2, <1>6, <1>8
    <3> QED BY <2>0, <3>3 DEF Renames
  <2> QED BY <2>1, <2>2
<1> QED BY <1>3, <1>9, <1>10, <1>11 DEF DocumentInv

\* The client reads: an answer is to the request it has waited for longest.
LEMMA ReceivingKeepsInv ==
  ASSUME DocumentInv, TypeInv', Receive
  PROVE  DocumentInv'
<1>0. TypeInv /\ Ordered /\ Matched /\ Renamed /\ Follows
  BY DEF DocumentInv
<1>1. /\ UNCHANGED <<inbox, documents, buffers, sent>>
      /\ outbox # <<>> /\ outbox' = Tail(outbox)
      /\ awaiting' = IF IsAnswer(outbox[1]) THEN Tail(awaiting) ELSE awaiting
  BY DEF Receive, server, IsAnswer
<1>2. /\ Len(outbox) \in Nat \ {0} /\ DOMAIN outbox = 1..Len(outbox) /\ DOMAIN outbox' = 1..(Len(outbox) - 1)
      /\ \A k \in DOMAIN outbox' : outbox'[k] = outbox[k + 1] /\ k + 1 \in DOMAIN outbox
      /\ \A k \in DOMAIN outbox : k # 1 => k - 1 \in DOMAIN outbox' /\ outbox'[k - 1] = outbox[k]
      /\ 1 \in DOMAIN outbox
  BY <1>0, <1>1 DEF TypeInv
<1>3. Follows'
  BY <1>0, <1>1 DEF Follows, Becomes, TextIn
<1>4. \A k, q : Reaches(k, q) => Reaches(k, q)'
  BY <1>1 DEF Reaches, Becomes, TextIn
<1>5. Len(awaiting) \in Nat /\ DOMAIN awaiting = 1..Len(awaiting)
  BY <1>0 DEF TypeInv
<1>6. ASSUME IsAnswer(outbox[1])
      PROVE  1 \in DOMAIN awaiting /\ awaiting[1].request.id = outbox[1].id
  <2>1. PICK i \in DOMAIN awaiting : awaiting[i].request.id = outbox[1].id
    BY <1>0, <1>2, <1>6 DEF Matched
  <2>2. 1 \in DOMAIN awaiting
    BY <2>1, <1>5
  <2>3. CASE i = 1
    BY <2>1, <2>2, <2>3
  <2>4. CASE i # 1
    <3>0. awaiting[1].request.id \in Nat /\ awaiting[i].request.id \in Nat
      BY <2>2, <1>0 DEF Ordered
    <3>1. awaiting[1].request.id < awaiting[i].request.id
      BY <2>2, <2>4, <1>0, <1>5 DEF Ordered
    <3>2. CASE \E k \in DOMAIN outbox : IsAnswer(outbox[k]) /\ outbox[k].id = awaiting[1].request.id
      <4>1. PICK k \in DOMAIN outbox : IsAnswer(outbox[k]) /\ outbox[k].id = awaiting[1].request.id
        BY <3>2
      <4>2. k # 1
        BY <4>1, <3>0, <3>1, <2>1
      <4>3. 1 < k
        BY <4>2, <1>2
      <4>4. outbox[1].id < outbox[k].id
        BY <4>1, <4>3, <1>0, <1>2, <1>6 DEF Ordered
      <4> QED BY <4>1, <4>4, <3>0, <3>1, <2>1
    <3>3. CASE \E k \in DOMAIN inbox : inbox[k].id = awaiting[1].request.id
      <4>1. PICK k \in DOMAIN inbox : inbox[k].id = awaiting[1].request.id
        BY <3>3
      <4>2. inbox[k].id # None
        BY <4>1, <3>0, FilesAssumption
      <4>3. outbox[1].id < inbox[k].id
        BY <4>2, <1>0, <1>2, <1>6 DEF Ordered
      <4> QED BY <4>1, <4>3, <3>0, <3>1, <2>1
    <3> QED BY <3>2, <3>3, <2>2, <1>0 DEF Matched
  <2> QED BY <2>3, <2>4
\* How far the numbers of those that still wait have moved.
<1> DEFINE d == IF IsAnswer(outbox[1]) THEN 1 ELSE 0
<1>7. /\ d \in 0..1
      /\ \A i \in DOMAIN awaiting' : awaiting'[i] = awaiting[i + d] /\ i + d \in DOMAIN awaiting /\ i \in Nat \ {0}
      /\ \A i \in DOMAIN awaiting : i > d => i - d \in DOMAIN awaiting' /\ awaiting'[i - d] = awaiting[i]
  <2>1. CASE IsAnswer(outbox[1])
    <3>1. d = 1 /\ awaiting' = Tail(awaiting) /\ awaiting # <<>>
      BY <2>1, <1>1, <1>6
    <3>2. awaiting \in Seq(Unanswered)
      BY <1>0 DEF TypeInv
    <3>3. /\ DOMAIN awaiting' = 1..(Len(awaiting) - 1)
          /\ \A i \in 1..(Len(awaiting) - 1) : awaiting'[i] = awaiting[i + 1]
      BY <3>1, <3>2
    <3> HIDE DEF d
    <3> QED BY <3>1, <3>3, <1>5
  <2>2. CASE ~IsAnswer(outbox[1])
    <3>1. d = 0 /\ awaiting' = awaiting
      BY <2>2, <1>1
    <3> HIDE DEF d
    <3> QED BY <3>1, <1>5
  <2> QED BY <2>1, <2>2
<1> HIDE DEF d
<1>8. \A i \in DOMAIN awaiting : awaiting[i].request.id # outbox[1].id \/ ~IsAnswer(outbox[1]) => i > d
  <2> SUFFICES ASSUME NEW i \in DOMAIN awaiting,
                      awaiting[i].request.id # outbox[1].id \/ ~IsAnswer(outbox[1])
               PROVE  i > d
    OBVIOUS
  <2>1. CASE IsAnswer(outbox[1])
    <3>1. i # 1 /\ d = 1
      BY <2>1, <1>6 DEF d
    <3> QED BY <3>1, <1>5
  <2>2. CASE ~IsAnswer(outbox[1])
    BY <2>2, <1>5 DEF d
  <2> QED BY <2>1, <2>2
<1>9. Ordered'
  <2>1. \A i \in DOMAIN awaiting' : awaiting'[i].request.id \in Nat /\ awaiting'[i].request.id <= sent'.messages
    BY <1>0, <1>1, <1>7 DEF Ordered
  <2>2. ASSUME NEW i \in DOMAIN awaiting', NEW j \in DOMAIN awaiting', i < j
        PROVE  awaiting'[i].request.id < awaiting'[j].request.id
    <3>1. i + d < j + d /\ i + d \in DOMAIN awaiting /\ j + d \in DOMAIN awaiting
      BY <2>2, <1>7
    <3> QED BY <3>1, <1>0, <1>7 DEF Ordered
  <2>3. \A i, j \in DOMAIN inbox' :
          i < j /\ inbox'[i].id # None /\ inbox'[j].id # None => inbox'[i].id < inbox'[j].id
    BY <1>0, <1>1 DEF Ordered
  <2>4. ASSUME NEW i \in DOMAIN outbox', NEW j \in DOMAIN outbox', i < j, IsAnswer(outbox'[i]), IsAnswer(outbox'[j])
        PROVE  outbox'[i].id < outbox'[j].id
    <3>1. i + 1 < j + 1 /\ i + 1 \in DOMAIN outbox /\ j + 1 \in DOMAIN outbox
      BY <2>4, <1>2
    <3> QED BY <3>1, <2>4, <1>0, <1>2 DEF Ordered
  <2>5. \A i \in DOMAIN outbox', j \in DOMAIN inbox' :
          IsAnswer(outbox'[i]) /\ inbox'[j].id # None => outbox'[i].id < inbox'[j].id
    BY <1>0, <1>1, <1>2 DEF Ordered
  <2> QED BY <2>1, <2>2, <2>3, <2>4, <2>5 DEF Ordered, IsAnswer
<1>10. Matched'
  <2>1. ASSUME NEW i \in DOMAIN awaiting'
        PROVE  \/ \E k \in DOMAIN outbox' : IsAnswer(outbox'[k]) /\ outbox'[k].id = awaiting'[i].request.id
               \/ \E k \in DOMAIN inbox' : inbox'[k].id = awaiting'[i].request.id
    <3>1. i + d \in DOMAIN awaiting /\ awaiting'[i] = awaiting[i + d] /\ i + d > d
      BY <1>7, <1>5
    <3>2. ASSUME NEW k \in DOMAIN outbox, IsAnswer(outbox[k]), outbox[k].id = awaiting[i + d].request.id
          PROVE  \E l \in DOMAIN outbox' : IsAnswer(outbox'[l]) /\ outbox'[l].id = awaiting'[i].request.id
      <4>1. k # 1
        <5>1. ASSUME k = 1 PROVE FALSE
          <6>1. 1 \in DOMAIN awaiting /\ awaiting[1].request.id = awaiting[i + d].request.id /\ d = 1
            BY <5>1, <3>2, <1>6 DEF d
          <6>2. i + d = 1
            BY <6>1, <3>1, <1>0, NumbersTell
          <6> QED BY <6>1, <6>2, <3>1
        <5> QED BY <5>1
      <4>2. k - 1 \in DOMAIN outbox' /\ outbox'[k - 1] = outbox[k]
        BY <4>1, <1>2
      <4> QED BY <4>2, <3>1, <3>2
    <3> QED BY <3>1, <3>2, <1>0, <1>1 DEF Matched
  <2>2. ASSUME NEW k \in DOMAIN outbox', IsAnswer(outbox'[k])
        PROVE  \E i \in DOMAIN awaiting' : awaiting'[i].request.id = outbox'[k].id
    <3>1. k + 1 \in DOMAIN outbox /\ outbox'[k] = outbox[k + 1] /\ 1 < k + 1
      BY <1>2
    <3>2. IsAnswer(outbox[k + 1])
      BY <2>2, <3>1
    <3>3. PICK i \in DOMAIN awaiting : awaiting[i].request.id = outbox[k + 1].id
      BY <3>1, <3>2, <1>0 DEF Matched
    <3>4. awaiting[i].request.id \in Nat
      BY <3>3, <1>0 DEF Ordered
    <3>5. IsAnswer(outbox[1]) => outbox[1].id < awaiting[i].request.id
      BY <3>1, <3>2, <3>3, <1>0, <1>2 DEF Ordered
    <3>6. IsAnswer(outbox[1]) => outbox[1].id \in Nat
      BY <1>6, <1>0 DEF Ordered
    <3>7. awaiting[i].request.id # outbox[1].id \/ ~IsAnswer(outbox[1])
      BY <3>4, <3>5, <3>6
    <3>8. i - d \in DOMAIN awaiting' /\ awaiting'[i - d] = awaiting[i]
      BY <3>7, <1>7, <1>8
    <3> QED BY <3>1, <3>3, <3>8
  <2>3. ASSUME NEW k \in DOMAIN inbox', inbox'[k].id # None
        PROVE  \E i \in DOMAIN awaiting' : Reaches(k, awaiting[i])'
    <3>1. k \in DOMAIN inbox /\ inbox[k] = inbox'[k]
      BY <1>1
    <3>2. PICK i \in DOMAIN awaiting : Reaches(k, awaiting[i])
      BY <3>1, <2>3, <1>0 DEF Matched
    <3>3. awaiting[i].request.id = inbox[k].id /\ awaiting[i].request.id \in Nat
      BY <3>2, <1>0 DEF Reaches, Ordered
    <3>4. IsAnswer(outbox[1]) => outbox[1].id < inbox[k].id /\ outbox[1].id \in Nat
      BY <3>1, <2>3, <1>0, <1>2, <1>6 DEF Ordered
    <3>5. i - d \in DOMAIN awaiting' /\ awaiting'[i - d] = awaiting[i]
      BY <3>3, <3>4, <1>7, <1>8
    <3>6. PICK q : q = awaiting[i]
      OBVIOUS
    <3>7. Reaches(k, q)'
      BY <3>2, <3>6, <1>4
    <3>8. PICK j : j = i - d
      OBVIOUS
    <3>9. j \in DOMAIN awaiting' /\ awaiting'[j] = q
      BY <3>5, <3>6, <3>8
    <3>10. Reaches(k, awaiting[j])'
      BY <3>7, <3>9 DEF Reaches, Becomes
    <3> QED BY <3>9, <3>10
  <2>7. (\A i \in DOMAIN awaiting :
          \/ \E k \in DOMAIN outbox : IsAnswer(outbox[k]) /\ outbox[k].id = awaiting[i].request.id
          \/ \E k \in DOMAIN inbox : inbox[k].id = awaiting[i].request.id)'
    BY <2>1 DEF IsAnswer
  <2>8. (\A k \in DOMAIN outbox : IsAnswer(outbox[k]) =>
          \E i \in DOMAIN awaiting : awaiting[i].request.id = outbox[k].id)'
    BY <2>2 DEF IsAnswer
  <2>9. (\A k \in DOMAIN inbox : inbox[k].id # None =>
          \E i \in DOMAIN awaiting : Reaches(k, awaiting[i]))'
    BY <2>3
  <2> QED BY <2>7, <2>8, <2>9, Zenon DEF Matched
<1>11. Renamed'
  <2> SUFFICES ASSUME NEW k \in DOMAIN outbox', NEW i \in DOMAIN awaiting'
               PROVE  Renames(outbox'[k], awaiting'[i])
    BY Zenon DEF Renamed, Renames, Edits, Occurrences, WordAt
  <2>1. k + 1 \in DOMAIN outbox /\ outbox'[k] = outbox[k + 1]
    BY <1>2
  <2>2. i + d \in DOMAIN awaiting /\ awaiting'[i] = awaiting[i + d]
    BY <1>7
  <2>3. Renames(outbox[k + 1], awaiting[i + d])
    BY <2>1, <2>2, <1>0, Zenon DEF Renamed
  <2> QED BY <2>1, <2>2, <2>3
<1> QED BY <1>3, <1>9, <1>10, <1>11 DEF DocumentInv

Sending == Open \/ Change \/ ChangeNothing \/ Close \/ Odd \/ AskAt \/ AskOther

\* What the client does when it sends m.
Sends(m) ==
  /\ MaySend /\ Send(m)
  /\ UNCHANGED <<disk, indexes, enable_rename, server, outbox, shown>>
  /\ DOMAIN buffers' \subseteq Files /\ \A u \in DOMAIN buffers' : buffers'[u] \in Texts
  /\ \A u \in Files : TextIn(buffers', u) = IF Settles(m, u) THEN Left(m) ELSE TextIn(buffers, u)
  /\ \/ m.id = None /\ awaiting' = awaiting
     \/ \E q \in Unanswered :
          /\ m.id = sent.messages + 1 /\ q.request = m
          /\ m.method = "rename" => m.uri \in Files /\ q.text = TextIn(buffers, m.uri)
          /\ awaiting' = Append(awaiting, q)

\* Of the two texts of a change the last counts.
LEMMA TwoChanges ==
  ASSUME NEW ts \in Texts \X Texts
  PROVE  ts \in Seq(Texts) /\ ts # <<>> /\ Last(ts) = ts[2] /\ ts[2] \in Texts
<1>1. PICK a \in Texts, b \in Texts : ts = <<a, b>>
  OBVIOUS
<1>2. <<a, b>> \in Seq(Texts) /\ <<a, b>> # <<>> /\ Len(<<a, b>>) = 2
  OBVIOUS
<1> QED BY <1>1, <1>2 DEF Last

\* A request settles no document, and its client waits for the answer.
LEMMA AskingSends ==
  ASSUME TypeInv, NEW m \in Messages, NEW text \in Texts \cup {None}, m.id = Id,
         m.method = "rename" => m.uri \in Files /\ text = TextIn(buffers, m.uri),
         Ask(m, text)
  PROVE  Sends(m)
<1>1. m.id # None /\ m.id = sent.messages + 1
  BY FilesAssumption DEF Id, TypeInv
<1>2. \A u : ~Settles(m, u)
  BY <1>1, MessageFacts DEF Settles, Notices
<1>3. /\ UNCHANGED <<disk, indexes, enable_rename, server, outbox, buffers, shown>>
      /\ MaySend /\ Send(m) /\ awaiting' = Append(awaiting, [request |-> m, text |-> text])
  BY DEF Ask
<1>4. [request |-> m, text |-> text] \in Unanswered
  BY DEF Unanswered
<1>5. DOMAIN buffers' \subseteq Files /\ \A u \in DOMAIN buffers' : buffers'[u] \in Texts
  BY <1>3 DEF TypeInv, TypeOK
<1>6. \A u \in Files : TextIn(buffers', u) = IF Settles(m, u) THEN Left(m) ELSE TextIn(buffers, u)
  BY <1>2, <1>3
<1>7. \E q \in Unanswered :
          /\ m.id = sent.messages + 1 /\ q.request = m
          /\ m.method = "rename" => m.uri \in Files /\ q.text = TextIn(buffers, m.uri)
          /\ awaiting' = Append(awaiting, q)
  <2> DEFINE q == [request |-> m, text |-> text]
  <2>1. q.request = m /\ q.text = text
    OBVIOUS
  <2> HIDE DEF q
  <2> QED BY <1>1, <1>3, <1>4, <2>1 DEF q
<1> QED BY <1>3, <1>5, <1>6, <1>7 DEF Sends

\* A notification is one for which nobody waits.
LEMMA NotifyingSends ==
  ASSUME TypeInv, NEW m \in Messages, m.id = None, Notify(m),
         DOMAIN buffers' \subseteq Files, \A u \in DOMAIN buffers' : buffers'[u] \in Texts,
         \A u \in Files : TextIn(buffers', u) = IF Settles(m, u) THEN Left(m) ELSE TextIn(buffers, u)
  PROVE  Sends(m)
BY DEF Notify, Sends

\* Whatever the client does, it sends one message and keeps its own text of
\* the document in step with it.
LEMMA EverySendingSends ==
  ASSUME TypeInv, Sending
  PROVE  \E m \in Messages : Sends(m)
<1>0. DOMAIN buffers \subseteq Files /\ \A u \in DOMAIN buffers : buffers[u] \in Texts
  BY DEF TypeInv, TypeOK
<1>1. CASE Open
  <2>1. PICK u \in Files \ DOMAIN buffers, t \in Texts :
          /\ buffers' = Replace(buffers, u, t)
          /\ Notify([id |-> None, method |-> "didOpen", uri |-> u, text |-> t])
    BY <1>1 DEF Open
  <2> DEFINE m == [id |-> None, method |-> "didOpen", uri |-> u, text |-> t]
  <2>2. m \in Messages
    BY DEF Messages
  <2>3. DOMAIN buffers' \subseteq Files /\ \A v \in DOMAIN buffers' : buffers'[v] \in Texts
    BY <1>0, <2>1 DEF Replace
  <2>4. m.method = "didOpen" /\ m.uri = u /\ m.text = t /\ m.id = None
    OBVIOUS
  <2>5. Notify(m)
    BY <2>1
  <2> HIDE DEF m
  <2>6. \A v : (Settles(m, v) <=> v = u) /\ Left(m) = t
    BY <2>4 DEF Settles, Left
  <2>7. \A v \in Files : TextIn(buffers', v) = IF Settles(m, v) THEN Left(m) ELSE TextIn(buffers, v)
    BY <2>1, <2>6 DEF TextIn, Replace
  <2> QED BY <2>2, <2>3, <2>4, <2>5, <2>7, NotifyingSends
<1>2. CASE Change
  <2>1. PICK u \in DOMAIN buffers, ts \in Texts \X Texts :
          /\ buffers' = Replace(buffers, u, ts[2])
          /\ Notify([id |-> None, method |-> "didChange", uri |-> u, changes |-> ts])
    BY <1>2 DEF Change
  <2> DEFINE m == [id |-> None, method |-> "didChange", uri |-> u, changes |-> ts]
  <2>0. ts \in Seq(Texts) /\ ts # <<>> /\ Last(ts) = ts[2] /\ ts[2] \in Texts /\ u \in Files
    BY <1>0, TwoChanges
  <2>2. m \in Messages
    BY <2>0 DEF Messages
  <2>3. DOMAIN buffers' \subseteq Files /\ \A v \in DOMAIN buffers' : buffers'[v] \in Texts
    BY <1>0, <2>0, <2>1 DEF Replace
  <2>4. m.method = "didChange" /\ m.uri = u /\ m.changes = ts /\ m.id = None
    OBVIOUS
  <2>5. Notify(m)
    BY <2>1
  <2> HIDE DEF m
  <2>6. \A v : (Settles(m, v) <=> v = u) /\ Left(m) = ts[2]
    BY <2>0, <2>4 DEF Settles, Left
  <2>7. \A v \in Files : TextIn(buffers', v) = IF Settles(m, v) THEN Left(m) ELSE TextIn(buffers, v)
    BY <2>1, <2>6 DEF TextIn, Replace
  <2> QED BY <2>2, <2>3, <2>4, <2>5, <2>7, NotifyingSends
<1>3. CASE ChangeNothing
  <2>1. PICK u \in Files :
          UNCHANGED buffers /\ Notify([id |-> None, method |-> "didChange", uri |-> u, changes |-> <<>>])
    BY <1>3 DEF ChangeNothing
  <2> DEFINE m == [id |-> None, method |-> "didChange", uri |-> u, changes |-> <<>>]
  <2>2. m \in Messages
    BY DEF Messages
  <2>4. m.method = "didChange" /\ m.changes = <<>> /\ m.id = None
    OBVIOUS
  <2>5. Notify(m)
    BY <2>1
  <2> HIDE DEF m
  <2>7. \A v \in Files : TextIn(buffers', v) = IF Settles(m, v) THEN Left(m) ELSE TextIn(buffers, v)
    BY <2>1, <2>4 DEF Settles
  <2> QED BY <1>0, <2>1, <2>2, <2>4, <2>5, <2>7, NotifyingSends
<1>4. CASE Close
  <2>1. PICK u \in DOMAIN buffers :
          /\ buffers' = Without(buffers, u)
          /\ Notify([id |-> None, method |-> "didClose", uri |-> u])
    BY <1>4 DEF Close
  <2> DEFINE m == [id |-> None, method |-> "didClose", uri |-> u]
  <2>2. m \in Messages
    BY <1>0 DEF Messages
  <2>3. DOMAIN buffers' \subseteq Files /\ \A v \in DOMAIN buffers' : buffers'[v] \in Texts
    BY <1>0, <2>1 DEF Without, Restrict
  <2>4. m.method = "didClose" /\ m.uri = u /\ m.id = None
    OBVIOUS
  <2>5. Notify(m)
    BY <2>1
  <2> HIDE DEF m
  <2>6. \A v : (Settles(m, v) <=> v = u) /\ Left(m) = None
    BY <2>4 DEF Settles, Left
  <2>7. \A v \in Files : TextIn(buffers', v) = IF Settles(m, v) THEN Left(m) ELSE TextIn(buffers, v)
    BY <2>1, <2>6 DEF TextIn, Without, Restrict
  <2> QED BY <2>2, <2>3, <2>4, <2>5, <2>7, NotifyingSends
<1>5. CASE Odd
  <2>1. PICK kind \in {"exit", "malformed", "initialized"} :
          UNCHANGED buffers /\ Notify([id |-> None, method |-> kind])
    BY <1>5 DEF Odd
  <2> DEFINE m == [id |-> None, method |-> kind]
  <2>2. m \in Messages
    BY DEF Messages
  <2>4. m.method = kind /\ m.id = None
    OBVIOUS
  <2>5. Notify(m)
    BY <2>1
  <2> HIDE DEF m
  <2>7. \A v \in Files : TextIn(buffers', v) = IF Settles(m, v) THEN Left(m) ELSE TextIn(buffers, v)
    BY <2>1, <2>4 DEF Settles
  <2> QED BY <1>0, <2>1, <2>2, <2>4, <2>5, <2>7, NotifyingSends
<1>6. CASE AskAt
  <2>0. Id \in Nat
    BY DEF Id, TypeInv
  <2>1. PICK u \in DOMAIN buffers : \E at \in Positions(buffers[u]) :
          \/ \E method \in {"definition", "typeDefinition", "prepareRename"} :
               Ask([id |-> Id, method |-> method, uri |-> u, at |-> at], buffers[u])
          \/ \E b \in BOOLEAN :
               \/ Ask([id |-> Id, method |-> "references", uri |-> u, at |-> at,
                       include_declaration |-> b], buffers[u])
               \/ Ask([id |-> Id, method |-> "rename", uri |-> u, at |-> at,
                       valid_name |-> b], buffers[u])
    BY <1>6 DEF AskAt
  <2>6. PICK at \in Positions(buffers[u]) :
          \/ \E method \in {"definition", "typeDefinition", "prepareRename"} :
               Ask([id |-> Id, method |-> method, uri |-> u, at |-> at], buffers[u])
          \/ \E b \in BOOLEAN :
               \/ Ask([id |-> Id, method |-> "references", uri |-> u, at |-> at,
                       include_declaration |-> b], buffers[u])
               \/ Ask([id |-> Id, method |-> "rename", uri |-> u, at |-> at,
                       valid_name |-> b], buffers[u])
    BY <2>1
  <2>2. u \in Files /\ buffers[u] \in Texts /\ at \in Cursors /\ buffers[u] = TextIn(buffers, u)
    BY <1>0 DEF Cursors, TextIn
  <2>3. ASSUME NEW method \in {"definition", "typeDefinition", "prepareRename"},
               Ask([id |-> Id, method |-> method, uri |-> u, at |-> at], buffers[u])
        PROVE  \E m \in Messages : Sends(m)
    <3> DEFINE m == [id |-> Id, method |-> method, uri |-> u, at |-> at]
    <3>1. m \in Messages
      BY <2>0, <2>2 DEF Messages
    <3>2. m.id = Id /\ m.method # "rename" /\ Ask(m, buffers[u])
      BY <2>3
    <3> HIDE DEF m
    <3> QED BY <3>1, <3>2, <2>2, AskingSends
  <2>4. ASSUME NEW b \in BOOLEAN,
               Ask([id |-> Id, method |-> "references", uri |-> u, at |-> at, include_declaration |-> b], buffers[u])
        PROVE  \E m \in Messages : Sends(m)
    <3> DEFINE m == [id |-> Id, method |-> "references", uri |-> u, at |-> at, include_declaration |-> b]
    <3>1. m \in Messages
      BY <2>0, <2>2 DEF Messages
    <3>2. m.id = Id /\ m.method # "rename" /\ Ask(m, buffers[u])
      BY <2>4
    <3> HIDE DEF m
    <3> QED BY <3>1, <3>2, <2>2, AskingSends
  <2>5. ASSUME NEW b \in BOOLEAN,
               Ask([id |-> Id, method |-> "rename", uri |-> u, at |-> at, valid_name |-> b], buffers[u])
        PROVE  \E m \in Messages : Sends(m)
    <3> DEFINE m == [id |-> Id, method |-> "rename", uri |-> u, at |-> at, valid_name |-> b]
    <3>1. m \in Messages
      BY <2>0, <2>2 DEF Messages
    <3>2. m.id = Id /\ m.uri = u /\ Ask(m, buffers[u])
      BY <2>5
    <3> HIDE DEF m
    <3> QED BY <3>1, <3>2, <2>2, AskingSends
  <2> QED BY <2>6, <2>3, <2>4, <2>5
<1>7. CASE AskOther
  <2>0. Id \in Nat
    BY DEF Id, TypeInv
  <2>1. ASSUME NEW method \in {"initialize", "shutdown", "unknown"}, Ask([id |-> Id, method |-> method], None)
        PROVE  \E m \in Messages : Sends(m)
    <3> DEFINE m == [id |-> Id, method |-> method]
    <3>1. m \in Messages
      BY <2>0 DEF Messages
    <3>2. m.id = Id /\ m.method # "rename" /\ Ask(m, None)
      BY <2>1
    <3> HIDE DEF m
    <3> QED BY <3>1, <3>2, AskingSends
  <2>2. ASSUME NEW u \in Files, Ask([id |-> Id, method |-> "documentSymbol", uri |-> u], None)
        PROVE  \E m \in Messages : Sends(m)
    <3> DEFINE m == [id |-> Id, method |-> "documentSymbol", uri |-> u]
    <3>1. m \in Messages
      BY <2>0 DEF Messages
    <3>2. m.id = Id /\ m.method # "rename" /\ Ask(m, None)
      BY <2>2
    <3> HIDE DEF m
    <3> QED BY <3>1, <3>2, AskingSends
  <2>3. ASSUME NEW n \in Names, Ask([id |-> Id, method |-> "workspaceSymbol", query |-> n], None)
        PROVE  \E m \in Messages : Sends(m)
    <3> DEFINE m == [id |-> Id, method |-> "workspaceSymbol", query |-> n]
    <3>1. m \in Messages
      BY <2>0 DEF Messages
    <3>2. m.id = Id /\ m.method # "rename" /\ Ask(m, None)
      BY <2>3
    <3> HIDE DEF m
    <3> QED BY <3>1, <3>2, AskingSends
  <2> QED BY <1>7, <2>1, <2>2, <2>3, Zenon DEF AskOther
<1> QED BY <1>1, <1>2, <1>3, <1>4, <1>5, <1>6, <1>7 DEF Sending

\* The client keeps the types when it sends,
LEMMA SendingKeepsTypes ==
  ASSUME TypeInv, NEW m \in Messages, Sends(m)
  PROVE  TypeInv' /\ sent'.messages = sent.messages + 1
<1>1. /\ inbox' = Append(inbox, m) /\ sent' = [sent EXCEPT !.messages = @ + 1]
      /\ UNCHANGED <<disk, indexes, enable_rename, server, outbox, shown>>
      /\ DOMAIN buffers' \subseteq Files /\ \A u \in DOMAIN buffers' : buffers'[u] \in Texts
  BY DEF Sends, MaySend, Send
<1>2. sent' \in [messages: Nat, edits: Nat] /\ sent'.messages = sent.messages + 1
  BY <1>1 DEF TypeInv
<1>3. inbox' \in Seq(Messages) /\ (inbox # <<>> => inbox' # <<>> /\ Head(inbox') = Head(inbox))
  BY <1>1 DEF TypeInv
<1>4. awaiting' \in Seq(Unanswered)
  <2>1. awaiting' = awaiting \/ \E q \in Unanswered : awaiting' = Append(awaiting, q)
    BY DEF Sends
  <2>2. awaiting \in Seq(Unanswered)
    BY DEF TypeInv
  <2> HIDE DEF Unanswered
  <2> QED BY <2>1, <2>2
<1>5. WorkOK'
  BY <1>1, <1>3 DEF WorkOK, TypeInv, server
<1>6. TypeOK'
  BY <1>1 DEF TypeInv, TypeOK, server, indexes
<1> QED BY <1>1, <1>2, <1>3, <1>4, <1>5, <1>6 DEF TypeInv, server

\* and when it reads.
LEMMA ReceivingKeepsTypes ==
  ASSUME TypeInv, Matched, Receive
  PROVE  TypeInv'
<1> DEFINE m == Head(outbox)
<1>1. /\ outbox # <<>> /\ outbox' = Tail(outbox)
      /\ UNCHANGED <<disk, indexes, enable_rename, server, inbox, buffers, sent>>
      /\ awaiting' = awaiting \/ awaiting' = Tail(awaiting)
      /\ shown' = IF m.kind # "publish" THEN shown
                  ELSE IF m.any THEN shown \cup {m.uri} ELSE shown \ {m.uri}
  BY DEF Receive
<1>2. outbox' \in Seq(Writings) /\ m \in Writings
  BY <1>1 DEF TypeInv
<1>3. awaiting' \in Seq(Unanswered)
  <2>1. awaiting \in Seq(Unanswered)
    BY DEF TypeInv
  <2>2. CASE IsAnswer(m)
    <3>1. 1 \in DOMAIN outbox /\ outbox[1] = m
      BY <1>1 DEF TypeInv
    <3>2. \E i \in DOMAIN awaiting : awaiting[i].request.id = m.id
      <4>1. IsAnswer(outbox[1])
        BY <2>2, <3>1
      <4> QED BY <3>1, <4>1 DEF Matched
    <3>3. awaiting # <<>>
      BY <2>1, <3>2
    <3>4. awaiting' = awaiting \/ awaiting' = Tail(awaiting)
      BY <1>1
    <3>5. Tail(awaiting) \in Seq(Unanswered)
      BY <2>1, <3>3
    <3> QED BY <2>1, <3>4, <3>5, Zenon
  <2>3. CASE ~IsAnswer(m)
    BY <1>1, <2>1, <2>3 DEF IsAnswer, Receive
  <2> QED BY <2>2, <2>3
<1>4. shown' \subseteq Files
  BY <1>1, <1>2 DEF Writings, TypeInv, TypeOK
<1>5. WorkOK'
  BY <1>1 DEF WorkOK, TypeInv, server
<1>6. TypeOK'
  BY <1>1, <1>2, <1>4, KindsAreTypedNext DEF TypeInv, TypeOK, server, indexes
<1> QED BY <1>1, <1>2, <1>3, <1>5, <1>6 DEF TypeInv, server

\* The edits of files and the updates of the indexes.
LEMMA IndexingKeepsTypes ==
  ASSUME TypeInv, UpdateSymbolIndex \/ UpdateIncludeGraph \/ Edit
  PROVE  /\ TypeInv' /\ sent'.messages = sent.messages
         /\ UNCHANGED <<server, inbox, outbox, client>>
<1>1. UNCHANGED <<enable_rename, server, inbox, outbox, client>>
  BY DEF UpdateSymbolIndex, UpdateIncludeGraph, Edit
<1>2. sent' \in [messages: Nat, edits: Nat] /\ sent'.messages = sent.messages
  BY DEF UpdateSymbolIndex, UpdateIncludeGraph, Edit, TypeInv
<1>3. /\ {disk', symbol_index', include_graph'} \subseteq [Files -> Texts]
      /\ updating' \in Files \cup {None}
  <2>0. /\ disk \in [Files -> Texts] /\ symbol_index \in [Files -> Texts]
        /\ include_graph \in [Files -> Texts] /\ updating \in Files \cup {None}
    BY DEF TypeInv, TypeOK
  <2>1. CASE UpdateSymbolIndex
    BY <2>0, <2>1 DEF UpdateSymbolIndex
  <2>2. CASE UpdateIncludeGraph
    BY <2>0, <2>2 DEF UpdateIncludeGraph
  <2>3. CASE Edit
    BY <2>0, <2>3 DEF Edit, indexes
  <2> QED BY <2>1, <2>2, <2>3
<1>4. WorkOK'
  BY <1>1 DEF WorkOK, TypeInv, server
<1>5. TypeOK'
  BY <1>1, <1>3 DEF TypeInv, TypeOK, server, client
<1> QED BY <1>1, <1>2, <1>4, <1>5 DEF TypeInv, server, client

\* Nothing happens.
LEMMA StutteringKeepsInv ==
  ASSUME DocumentInv, UNCHANGED vars
  PROVE  DocumentInv'
<1>1. UNCHANGED <<disk, symbol_index, include_graph, updating, enable_rename, documents, shutdown_received,
                  published, running, work, inbox, outbox, buffers, shown, awaiting, sent>>
  BY DEF vars, indexes, server, client
<1>2. TypeInv'
  BY <1>1 DEF DocumentInv, TypeInv, TypeOK, WorkOK
<1> QED BY <1>1, <1>2, QuietKeepsInv

Collecting == HandleTypeDefinition \/ HandleReferences \/ LocateType \/ ReadReferences
Notified ==
  HandleDidOpen \/ HandleDidChange \/ HandleDidClose \/ EndRun \/ AnswerNobody \/ IgnoreNotification
Indexing == UpdateSymbolIndex \/ UpdateIncludeGraph \/ Edit

\* The steps, by what they do to the streams.
LEMMA NextIs == Next <=> Notified \/ AtOnce \/ Collecting \/ Indexing \/ Sending \/ Receive
BY Zenon DEF Next, Serve, Notified, AtOnce, Collecting, Indexing, Sending

\* Nothing has been sent.
LEMMA InitDocuments == Init => DocumentInv
<1> SUFFICES ASSUME Init PROVE DocumentInv
  OBVIOUS
<1>1. TypeOK
  <2>1. /\ disk = InitialDisk /\ symbol_index = InitialDisk /\ include_graph = InitialDisk
        /\ documents = <<>> /\ buffers = <<>> /\ published = <<>> /\ outbox = <<>>
        /\ updating = None /\ shown = {}
        /\ shutdown_received = FALSE /\ running = TRUE /\ enable_rename \in BOOLEAN
    BY DEF Init
  <2>2. \A m \in Range(outbox) : m.kind \in {"result", "error", "publish"}
    BY <2>1 DEF Range
  <2>3. {disk, symbol_index, include_graph} \subseteq [Files -> Texts]
    BY <2>1, FilesAssumption
  <2>4. \A f \in {documents, buffers} : DOMAIN f \subseteq Files /\ \A u \in DOMAIN f : f[u] \in Texts
    BY <2>1
  <2>5. DOMAIN published \subseteq Files /\ \A u \in DOMAIN published : published[u] \in BOOLEAN
    BY <2>1
  <2> QED BY <2>1, <2>2, <2>3, <2>4, <2>5 DEF TypeOK
<1>2. TypeInv
  BY <1>1 DEF Init, TypeInv, WorkOK
<1>3. Ordered /\ Matched /\ Renamed
  BY DEF Init, Ordered, Matched, Renamed
<1>4. Follows
  BY DEF Init, Follows, Becomes, TextIn
<1> QED BY <1>2, <1>3, <1>4 DEF DocumentInv

\* Every step keeps the invariant.
LEMMA StepKeepsDocuments ==
  ASSUME DocumentInv, [Next]_vars
  PROVE  DocumentInv'
<1>0. TypeInv
  BY DEF DocumentInv
<1>1. CASE Notified
  BY <1>1, NotificationsKeepInv DEF Notified
<1>2. CASE AtOnce
  BY <1>2, AtOnceKeepsInv
<1>3. CASE Collecting
  BY <1>3, CollectingKeepsInv DEF Collecting
<1>4. CASE Indexing
  <2>1. TypeInv' /\ sent'.messages = sent.messages /\ UNCHANGED <<server, inbox, outbox, client>>
    BY <1>0, <1>4, IndexingKeepsTypes DEF Indexing
  <2> QED BY <2>1, QuietKeepsInv DEF server, client
<1>5. CASE Sending
  <2>1. PICK m \in Messages : Sends(m)
    BY <1>0, <1>5, EverySendingSends
  <2>2. TypeInv' /\ sent'.messages = sent.messages + 1
    BY <1>0, <2>1, SendingKeepsTypes
  <2> QED BY <2>1, <2>2, SendingKeepsInv DEF Sends, Send, server
<1>6. CASE Receive
  BY <1>0, <1>6, ReceivingKeepsTypes, ReceivingKeepsInv DEF DocumentInv
<1>7. CASE UNCHANGED vars
  BY <1>7, StutteringKeepsInv
<1> QED BY <1>1, <1>2, <1>3, <1>4, <1>5, <1>6, <1>7, NextIs

\* So it always holds.
LEMMA DocumentsHold == Spec => []DocumentInv
<1>1. DocumentInv /\ [Next]_vars => DocumentInv'
  BY StepKeepsDocuments
<1> QED BY <1>1, InitDocuments, PTL DEF Spec

\* While the server runs, the texts it has, once it has read every message on
\* its way, are those of the client: the documents that are open, and each as
\* the last change left it, for any documents, texts and number of messages.
THEOREM DocumentsFollow == Spec => []DocumentsFollowClient
BY DocumentsHold, InvImplies, PTL

\* The edits of a rename are the occurrences of the word under the cursor in
\* the text its client had when it asked, whatever was sent before or after.
THEOREM RenamesAreWhole == Spec => []RenameIsWhole
BY DocumentsHold, InvImplies, PTL

-----------------------------------------------------------------------------
(* What the client marks. *)

\* A document that is not open is not published.
ShownInv ==
  /\ \A u \in Files : Marked(u) <=> WasNonempty(u)
  /\ DOMAIN published \subseteq DOMAIN documents

\* A message at the end decides what is marked if it concerns the document.
LEMMA WritingMarks ==
  ASSUME TypeInv, NEW x \in Writings, outbox' = outbox \o <<x>>, UNCHANGED shown, NEW u
  PROVE  Marked(u)' <=> IF Concerns(x, u) THEN x.any ELSE Marked(u)
<1> DEFINE n == Len(outbox) + 1
<1>1. /\ Len(outbox) \in Nat /\ Len(outbox') = n
      /\ DOMAIN outbox = 1..Len(outbox) /\ DOMAIN outbox' = 1..n
      /\ \A i \in DOMAIN outbox : outbox'[i] = outbox[i] /\ i # n /\ i \in DOMAIN outbox'
      /\ outbox'[n] = x
      /\ \A i \in DOMAIN outbox' : i \in DOMAIN outbox \/ i = n
      /\ n \in DOMAIN outbox' /\ \A i \in DOMAIN outbox : n \in (i + 1)..n
      /\ (n + 1)..n = {}
  BY DEF TypeInv
<1> HIDE DEF n
<1>2. CASE Concerns(x, u)
  <2>1. ASSUME NEW i \in DOMAIN outbox', Concerns(outbox'[i], u),
               \A j \in (i + 1)..Len(outbox') : ~Concerns(outbox'[j], u)
        PROVE  i = n
    BY <1>1, <1>2, <2>1
  <2>2. Marked(u)' => x.any
    BY <1>1, <1>2, <2>1 DEF Marked, Concerns
  <2>3. x.any => Marked(u)'
    BY <1>1, <1>2 DEF Marked, Concerns
  <2> QED BY <1>2, <2>2, <2>3 DEF Concerns, Writings
<1>3. CASE ~Concerns(x, u)
  <2>1. \A i \in DOMAIN outbox : (\A j \in (i + 1)..Len(outbox') : ~Concerns(outbox'[j], u)) <=>
                                 (\A j \in (i + 1)..Len(outbox) : ~Concerns(outbox[j], u))
    <3> SUFFICES ASSUME NEW i \in DOMAIN outbox
                 PROVE  (\A j \in (i + 1)..Len(outbox') : ~Concerns(outbox'[j], u)) <=>
                                 (\A j \in (i + 1)..Len(outbox) : ~Concerns(outbox[j], u))
      OBVIOUS
    <3>1. \A j \in (i + 1)..Len(outbox) : j \in DOMAIN outbox /\ j \in (i + 1)..Len(outbox')
      BY <1>1 DEF n
    <3>2. \A j \in (i + 1)..Len(outbox') : j \in (i + 1)..Len(outbox) \/ j = n
      BY <1>1 DEF n
    <3> QED BY <3>1, <3>2, <1>1, <1>3
  <2>2. Marked(u)' => Marked(u)
    <3>1. CASE u \in shown' /\ \A i \in DOMAIN outbox' : ~Concerns(outbox'[i], u)
      BY <3>1, <1>1 DEF Marked
    <3>2. ASSUME NEW i \in DOMAIN outbox', Concerns(outbox'[i], u), outbox'[i].any,
                 \A j \in (i + 1)..Len(outbox') : ~Concerns(outbox'[j], u)
          PROVE  Marked(u)
      <4>1. i \in DOMAIN outbox
        BY <3>2, <1>1, <1>3
      <4> QED BY <4>1, <3>2, <2>1, <1>1 DEF Marked
    <3> QED BY <3>1, <3>2 DEF Marked, Concerns
  <2>3. Marked(u) => Marked(u)'
    <3>1. CASE u \in shown /\ \A i \in DOMAIN outbox : ~Concerns(outbox[i], u)
      <4>1. \A i \in DOMAIN outbox' : ~Concerns(outbox'[i], u)
        BY <3>1, <1>1, <1>3
      <4> QED BY <3>1, <4>1 DEF Marked, Concerns
    <3>2. ASSUME NEW i \in DOMAIN outbox, Concerns(outbox[i], u), outbox[i].any,
                 \A j \in (i + 1)..Len(outbox) : ~Concerns(outbox[j], u)
          PROVE  Marked(u)'
      <4>1. /\ i \in DOMAIN outbox' /\ Concerns(outbox'[i], u) /\ outbox'[i].any
            /\ \A j \in (i + 1)..Len(outbox') : ~Concerns(outbox'[j], u)
        BY <3>2, <2>1, <1>1
      <4> QED BY <4>1 DEF Marked, Concerns
    <3> QED BY <3>1, <3>2 DEF Marked
  <2> QED BY <1>3, <2>2, <2>3
<1> QED BY <1>2, <1>3

\* Reading changes what is marked now, not what will be.
LEMMA ReadingMarks ==
  ASSUME TypeInv, Receive, NEW u
  PROVE  Marked(u)' <=> Marked(u)
<1> DEFINE m == outbox[1]
<1>1. /\ outbox # <<>> /\ outbox' = Tail(outbox) /\ Head(outbox) = m /\ m \in Writings
      /\ Len(outbox) \in Nat \ {0} /\ Len(outbox') = Len(outbox) - 1
      /\ DOMAIN outbox = 1..Len(outbox) /\ DOMAIN outbox' = 1..(Len(outbox) - 1)
      /\ \A i \in DOMAIN outbox' : outbox'[i] = outbox[i + 1] /\ i + 1 \in DOMAIN outbox
      /\ \A i \in DOMAIN outbox : i # 1 => i - 1 \in DOMAIN outbox' /\ outbox'[i - 1] = outbox[i]
  BY DEF Receive, TypeInv
<1>2. u \in shown' <=> IF Concerns(m, u) THEN m.any ELSE u \in shown
  <2>1. shown' = IF m.kind # "publish" THEN shown
                 ELSE IF m.any THEN shown \cup {m.uri} ELSE shown \ {m.uri}
    BY <1>1 DEF Receive
  <2> HIDE DEF m
  <2> QED BY <2>1 DEF Concerns
<1>3. \A i \in DOMAIN outbox : i # 1 =>
        ((\A j \in (i + 1)..Len(outbox) : ~Concerns(outbox[j], u)) <=>
         (\A j \in i..Len(outbox') : ~Concerns(outbox'[j], u)))
  <2> SUFFICES ASSUME NEW i \in DOMAIN outbox, i # 1
               PROVE  (\A j \in (i + 1)..Len(outbox) : ~Concerns(outbox[j], u)) <=>
                      (\A j \in i..Len(outbox') : ~Concerns(outbox'[j], u))
    OBVIOUS
  <2>1. \A j \in (i + 1)..Len(outbox) : j - 1 \in i..Len(outbox') /\ outbox'[j - 1] = outbox[j]
    BY <1>1
  <2>2. \A j \in i..Len(outbox') : j + 1 \in (i + 1)..Len(outbox) /\ outbox'[j] = outbox[j + 1]
    BY <1>1
  <2> QED BY <2>1, <2>2
<1>4. (\A i \in DOMAIN outbox : i # 1 => ~Concerns(outbox[i], u)) <=>
      (\A i \in DOMAIN outbox' : ~Concerns(outbox'[i], u))
  <2>1. \A i \in DOMAIN outbox' : outbox'[i] = outbox[i + 1] /\ i + 1 \in DOMAIN outbox /\ i + 1 # 1
    BY <1>1
  <2> QED BY <2>1, <1>1
<1>5. Marked(u) => Marked(u)'
  <2>1. CASE u \in shown /\ \A i \in DOMAIN outbox : ~Concerns(outbox[i], u)
    <3>1. u \in shown'
      BY <2>1, <1>1, <1>2
    <3>2. \A i \in DOMAIN outbox' : ~Concerns(outbox'[i], u)
      BY <2>1, <1>4
    <3> QED BY <3>1, <3>2 DEF Marked, Concerns
  <2>2. ASSUME NEW i \in DOMAIN outbox, Concerns(outbox[i], u), outbox[i].any,
               \A j \in (i + 1)..Len(outbox) : ~Concerns(outbox[j], u)
        PROVE  Marked(u)'
    <3>1. CASE i = 1
      <4>1. \A j \in DOMAIN outbox : j # 1 => ~Concerns(outbox[j], u)
        BY <2>2, <3>1, <1>1
      <4>2. \A j \in DOMAIN outbox' : ~Concerns(outbox'[j], u)
        BY <4>1, <1>4
      <4>3. u \in shown'
        BY <2>2, <3>1, <1>2
      <4> QED BY <4>2, <4>3 DEF Marked, Concerns
    <3>2. CASE i # 1
      <4>1. /\ i - 1 \in DOMAIN outbox' /\ outbox'[i - 1] = outbox[i] /\ (i - 1) + 1 = i
            /\ \A j \in i..Len(outbox') : ~Concerns(outbox'[j], u)
        BY <2>2, <3>2, <1>1, <1>3
      <4>2. PICK k : k = i - 1
        OBVIOUS
      <4>3. /\ k \in DOMAIN outbox' /\ Concerns(outbox'[k], u) /\ outbox'[k].any
            /\ \A j \in (k + 1)..Len(outbox') : ~Concerns(outbox'[j], u)
        BY <4>1, <4>2, <2>2
      <4> QED BY <4>3 DEF Marked, Concerns
    <3> QED BY <3>1, <3>2
  <2> QED BY <2>1, <2>2 DEF Marked
<1>6. Marked(u)' => Marked(u)
  <2>1. ASSUME u \in shown', \A i \in DOMAIN outbox' : ~Concerns(outbox'[i], u)
        PROVE  Marked(u)
    <3>1. \A i \in DOMAIN outbox : i # 1 => ~Concerns(outbox[i], u)
      BY <2>1, <1>4
    <3>2. CASE Concerns(m, u)
      <4>1. m.any /\ 1 \in DOMAIN outbox
        BY <2>1, <3>2, <1>1, <1>2
      <4>2. \A j \in (1 + 1)..Len(outbox) : ~Concerns(outbox[j], u)
        BY <3>1, <1>1
      <4> QED BY <3>2, <4>1, <4>2 DEF Marked
    <3>3. CASE ~Concerns(m, u)
      BY <2>1, <3>1, <3>3, <1>1, <1>2 DEF Marked
    <3> QED BY <3>2, <3>3
  <2>2. ASSUME NEW i \in DOMAIN outbox', Concerns(outbox'[i], u), outbox'[i].any,
               \A j \in (i + 1)..Len(outbox') : ~Concerns(outbox'[j], u)
        PROVE  Marked(u)
    <3>1. /\ i + 1 \in DOMAIN outbox /\ outbox[i + 1] = outbox'[i] /\ i + 1 # 1
      BY <1>1
    <3>2. \A j \in ((i + 1) + 1)..Len(outbox) : ~Concerns(outbox[j], u)
      BY <3>1, <2>2, <1>3
    <3> QED BY <3>1, <3>2, <2>2 DEF Marked
  <2> QED BY <2>1, <2>2 DEF Marked, Concerns
<1> QED BY <1>5, <1>6

\* A step that writes nothing and publishes nothing.
LEMMA SilenceKeepsShown ==
  ASSUME ShownInv, UNCHANGED <<outbox, shown, published>>, DOMAIN documents \subseteq DOMAIN documents'
  PROVE  ShownInv'
<1>1. \A u : Marked(u)' <=> Marked(u)
  BY DEF Marked, Concerns
<1>2. \A u : WasNonempty(u)' <=> WasNonempty(u)
  BY DEF WasNonempty
<1> QED BY <1>1, <1>2 DEF ShownInv

\* An answer marks nothing.
LEMMA AnsweringKeepsShown ==
  ASSUME TypeInv, ShownInv, NEW x \in Writings, x.kind # "publish", outbox' = outbox \o <<x>>,
         UNCHANGED <<shown, published>>, DOMAIN documents \subseteq DOMAIN documents'
  PROVE  ShownInv'
<1>1. \A u : Marked(u)' <=> Marked(u)
  BY WritingMarks DEF Concerns
<1>2. \A u : WasNonempty(u)' <=> WasNonempty(u)
  BY DEF WasNonempty
<1> QED BY <1>1, <1>2 DEF ShownInv

\* What is published is what will be marked.
LEMMA PublishingKeepsShown ==
  ASSUME TypeInv, ShownInv, NEW uri \in Files \ Firewalled, NEW any \in BOOLEAN,
         outbox' = outbox \o <<Publish(uri, any)>>, UNCHANGED shown,
         \A u \in Files \ {uri} : WasNonempty(u)' <=> WasNonempty(u),
         WasNonempty(uri)' <=> any,
         DOMAIN published' \subseteq DOMAIN documents'
  PROVE  ShownInv'
<1>1. PICK x : x = Publish(uri, any)
  OBVIOUS
<1>2. x \in Writings /\ x.kind = "publish" /\ x.uri = uri /\ x.any = any
  BY <1>1, PublishIsNoAnswer
<1>3. \A u : Marked(u)' <=> IF u = uri THEN any ELSE Marked(u)
  BY <1>1, <1>2, WritingMarks DEF Concerns
<1> QED BY <1>3 DEF ShownInv

\* Each notification remembers what it has published.
LEMMA NotificationsKeepShown ==
  ASSUME TypeInv, ShownInv, Notified
  PROVE  ShownInv'
<1> DEFINE m == Head(inbox)
<1>1. inbox # <<>> /\ UNCHANGED shown /\ m \in Messages
  <2>1. inbox # <<>> /\ Others
    BY DEF Notified, HandleDidOpen, HandleDidChange, HandleDidClose, EndRun, AnswerNobody, IgnoreNotification,
           Handling
  <2> QED BY <2>1 DEF TypeInv, Others, client
<1>2. ASSUME NEW uri \in Files, PublishDiagnosticsIfChanged(uri, documents'),
             DOMAIN documents \subseteq DOMAIN documents'
      PROVE  ShownInv'
  <2>1. CASE UNCHANGED published /\ Write(<<>>)
    BY <2>1, <1>1, <1>2, NoWritingKeepsOutbox, SilenceKeepsShown
  <2>2. ASSUME NEW any \in BOOLEAN, uri \in DOMAIN documents' \ Firewalled,
               published' = Replace(published, uri, any), Write(<<Publish(uri, any)>>)
        PROVE  ShownInv'
    <3>1. WasNonempty(uri)' <=> any
      BY <2>2, Zenon DEF WasNonempty, Replace
    <3>2. \A u \in Files \ {uri} : WasNonempty(u)' <=> WasNonempty(u)
      BY <2>2, Zenon DEF WasNonempty, Replace
    <3>3. DOMAIN published' \subseteq DOMAIN documents'
      BY <1>2, <2>2 DEF ShownInv, Replace
    <3>4. outbox' = outbox \o <<Publish(uri, any)>>
      BY <2>2 DEF Write
    <3> QED BY <3>1, <3>2, <3>3, <3>4, <1>1, <1>2, <2>2, PublishingKeepsShown
  <2> QED BY <2>1, <2>2, <1>2, PublishingWrites
<1>3. CASE HandleDidOpen
  <2>1. m.uri \in Files
    BY <1>1, <1>3, MessageFacts DEF HandleDidOpen, Handling
  <2>2. documents' = Replace(documents, m.uri, m.text) /\ PublishDiagnosticsIfChanged(m.uri, documents')
    BY <1>3 DEF HandleDidOpen
  <2>3. DOMAIN documents \subseteq DOMAIN documents'
    BY <2>2 DEF Replace
  <2> QED BY <2>1, <2>2, <2>3, <1>2
<1>4. CASE HandleDidChange
  <2>1. m.uri \in Files
    BY <1>1, <1>4, MessageFacts DEF HandleDidChange, Handling
  <2>2. /\ documents' = IF m.changes = <<>> THEN documents ELSE Replace(documents, m.uri, Last(m.changes))
        /\ PublishDiagnosticsIfChanged(m.uri, documents')
    BY <1>4 DEF HandleDidChange
  <2>3. DOMAIN documents \subseteq DOMAIN documents'
    BY <2>2 DEF Replace
  <2> QED BY <2>1, <2>2, <2>3, <1>2
<1>5. CASE HandleDidClose
  <2>0. m.uri \in Files
    BY <1>1, <1>5, MessageFacts DEF HandleDidClose, Handling
  <2>1. PICK uri \in Files : uri = m.uri
    BY <2>0
  <2>2. /\ documents' = Without(documents, uri) /\ published' = Without(published, uri)
        /\ Write(IF WasNonempty(uri) THEN <<Publish(uri, FALSE)>> ELSE <<>>)
    BY <1>5, <2>1 DEF HandleDidClose
  <2>3. DOMAIN published' \subseteq DOMAIN documents'
    BY <2>2 DEF ShownInv, Without, Restrict
  <2>4. ~WasNonempty(uri)' /\ \A u \in Files \ {uri} : WasNonempty(u)' <=> WasNonempty(u)
    BY <2>2 DEF WasNonempty, Without, Restrict
  <2>5. CASE WasNonempty(uri)
    <3>1. outbox' = outbox \o <<Publish(uri, FALSE)>>
      BY <2>2, <2>5 DEF Write
    <3>2. uri \notin Firewalled
      BY <2>5 DEF WasNonempty, TypeInv
    <3> QED BY <1>1, <2>1, <2>3, <2>4, <3>1, <3>2, PublishingKeepsShown
  <2>6. CASE ~WasNonempty(uri)
    <3>1. Write(<<>>)
      BY <2>2, <2>6
    <3>2. outbox' = outbox
      BY <3>1, NoWritingKeepsOutbox
    <3>3. \A u : Marked(u)' <=> Marked(u)
      BY <3>2, <1>1 DEF Marked, Concerns
    <3> QED BY <2>3, <2>4, <2>6, <3>3, <2>1 DEF ShownInv
  <2> QED BY <2>5, <2>6
<1>6. CASE EndRun \/ IgnoreNotification
  <2>1. Write(<<>>) /\ UNCHANGED <<documents, published>>
    BY <1>6 DEF EndRun, IgnoreNotification, server
  <2> QED BY <2>1, <1>1, NoWritingKeepsOutbox, SilenceKeepsShown
<1>7. CASE AnswerNobody
  <2>1. Write(<<Error(None)>>) /\ UNCHANGED <<documents, published>>
    BY <1>7 DEF AnswerNobody, server
  <2>2. Error(None) \in Writings /\ Error(None).kind # "publish"
    BY DEF Error, Writings
  <2> QED BY <2>1, <2>2, <1>1, AnsweringKeepsShown DEF Write
<1> QED BY <1>3, <1>4, <1>5, <1>6, <1>7 DEF Notified

\* Answers at once,
LEMMA AtOnceKeepsShown ==
  ASSUME TypeInv, ShownInv, AtOnce
  PROVE  ShownInv'
<1> DEFINE m == Head(inbox)
<1>1. /\ m.id \in Nat /\ UNCHANGED <<documents, published, shown>>
      /\ \/ Write(<<Error(m.id)>>)
         \/ \E where \in SUBSET Spots : Write(<<Result(m.id, where)>>)
  BY AtOnceAnswers DEF Others, client
<1>2. Error(m.id) \in Writings /\ Error(m.id).kind # "publish"
  BY <1>1 DEF Error, Writings
<1>3. \A where \in SUBSET Spots : Result(m.id, where) \in Writings /\ Result(m.id, where).kind # "publish"
  BY <1>1 DEF Result, Writings
<1> QED BY <1>1, <1>2, <1>3, AnsweringKeepsShown DEF Write

\* and answers that were collected.
LEMMA CollectingKeepsShown ==
  ASSUME TypeInv, ShownInv, Collecting
  PROVE  ShownInv'
<1> DEFINE m == Head(inbox)
<1>1. Others /\ UNCHANGED <<documents, published>>
  BY DEF Collecting, HandleTypeDefinition, HandleReferences, LocateType, ReadReferences, Request, Resuming
<1>2. UNCHANGED outbox \/ \E where \in SUBSET Spots : m.id \in Nat /\ Write(<<Result(m.id, where)>>)
  BY CollectingAnswers DEF Collecting
<1>3. ASSUME NEW where \in SUBSET Spots, m.id \in Nat
      PROVE  Result(m.id, where) \in Writings /\ Result(m.id, where).kind # "publish"
  BY <1>3 DEF Result, Writings
<1> QED BY <1>1, <1>2, <1>3, AnsweringKeepsShown, SilenceKeepsShown DEF Write, Others, client

\* Every step keeps it.
LEMMA StepKeepsShown ==
  ASSUME TypeInv, ShownInv, [Next]_vars
  PROVE  ShownInv'
<1>1. CASE Notified
  BY <1>1, NotificationsKeepShown
<1>2. CASE AtOnce
  BY <1>2, AtOnceKeepsShown
<1>3. CASE Collecting
  BY <1>3, CollectingKeepsShown
<1>4. CASE Indexing
  BY <1>4, IndexingKeepsTypes, SilenceKeepsShown DEF Indexing, server, client
<1>5. CASE Sending
  <2>1. PICK m \in Messages : Sends(m)
    BY <1>5, EverySendingSends
  <2> QED BY <2>1, SilenceKeepsShown DEF Sends, server
<1>6. CASE Receive
  <2>1. \A u : Marked(u)' <=> Marked(u)
    BY <1>6, ReadingMarks
  <2>2. UNCHANGED <<published, documents>>
    BY <1>6 DEF Receive, server
  <2> QED BY <2>1, <2>2 DEF ShownInv, WasNonempty
<1>7. CASE UNCHANGED vars
  BY <1>7, SilenceKeepsShown DEF vars, server, client
<1> QED BY <1>1, <1>2, <1>3, <1>4, <1>5, <1>6, <1>7, NextIs

\* Nothing is marked, nothing published.
LEMMA InitShown == Init => ShownInv
BY DEF Init, ShownInv, Marked, WasNonempty

\* The property follows: what is written names no firewalled file by its type.
LEMMA ShownImplies == TypeInv /\ ShownInv => ShownIsAllowed
<1> SUFFICES ASSUME TypeInv, ShownInv PROVE ShownIsAllowed
  OBVIOUS
<1>1. ShownIsPublished
  BY DEF ShownInv, ShownIsPublished, WasNonempty
<1>2. FirewallHolds
  <2> SUFFICES ASSUME NEW m \in Writings
               PROVE  IF m.kind = "publish" THEN m.uri \notin Firewalled
                      ELSE \A w \in m.where : w.file \notin Firewalled
    BY DEF FirewallHolds, TypeInv, Range
  <2> QED BY DEF Writings, Spots
<1> QED BY <1>1, <1>2 DEF ShownIsAllowed, TypeInv

\* The one bit that the server keeps for a document is what its client marks
\* once it has read everything, no document that is closed stays marked, and
\* neither an answer nor a diagnostic names a firewalled file.
THEOREM ShownIsAlwaysAllowed == Spec => []ShownIsAllowed
<1>1. Init => TypeInv /\ ShownInv
  BY InitDocuments, InitShown DEF DocumentInv
<1>2. DocumentInv /\ ShownInv /\ [Next]_vars => ShownInv'
  BY StepKeepsShown DEF DocumentInv
<1>3. DocumentInv /\ ShownInv => ShownIsAllowed
  BY ShownImplies DEF DocumentInv
<1> QED BY <1>1, <1>2, <1>3, DocumentsHold, PTL DEF Spec

-----------------------------------------------------------------------------
(* What keeps the published state up to date. *)

\* A document that has changed is compared at once with what is published.
LEMMA PublishingIsUpToDate ==
  ASSUME TypeInv, UpToDate, UNCHANGED include_graph, NEW uri \in Files,
         PublishDiagnosticsIfChanged(uri, documents'),
         \A u \in DOMAIN documents' : u # uri => u \in DOMAIN documents /\ documents'[u] = documents[u]
  PROVE  UpToDate'
<1> SUFFICES ASSUME NEW u \in DOMAIN documents' \ Firewalled
             PROVE  WasNonempty(u)' <=> Diagnosed(u, documents'[u])
  BY DEF UpToDate, Diagnosed
<1>1. CASE u = uri
  BY <1>1 DEF PublishDiagnosticsIfChanged, WasNonempty, Diagnosed, Replace
<1>2. CASE u # uri
  <2>1. WasNonempty(u)' <=> WasNonempty(u)
    BY <1>2 DEF PublishDiagnosticsIfChanged, WasNonempty, Replace
  <2> QED BY <1>2, <2>1 DEF UpToDate
<1> QED BY <1>1, <1>2

\* A step that touches neither documents nor what is published.
LEMMA StillUpToDate ==
  ASSUME UpToDate, UNCHANGED <<include_graph, documents, published>>
  PROVE  UpToDate'
BY DEF UpToDate, WasNonempty, Diagnosed

\* So as long as the include graph stays, what is up to date stays so.
LEMMA StepIsUpToDate ==
  ASSUME TypeInv, UpToDate, UNCHANGED include_graph, [Next]_vars
  PROVE  UpToDate'
<1> DEFINE m == Head(inbox)
<1>1. CASE Notified
  <2>0. inbox # <<>> /\ m \in Messages
    <3>1. inbox # <<>>
      BY <1>1 DEF Notified, HandleDidOpen, HandleDidChange, HandleDidClose, EndRun, AnswerNobody,
                  IgnoreNotification, Handling
    <3> QED BY <3>1 DEF TypeInv
  <2>1. CASE HandleDidOpen
    <3>1. m.uri \in Files
      BY <2>0, <2>1, MessageFacts DEF HandleDidOpen, Handling
    <3>2. documents' = Replace(documents, m.uri, m.text) /\ PublishDiagnosticsIfChanged(m.uri, documents')
      BY <2>1 DEF HandleDidOpen
    <3>3. \A u \in DOMAIN documents' : u # m.uri => u \in DOMAIN documents /\ documents'[u] = documents[u]
      BY <3>2 DEF Replace
    <3> QED BY <3>1, <3>2, <3>3, PublishingIsUpToDate
  <2>2. CASE HandleDidChange
    <3>1. m.uri \in Files
      BY <2>0, <2>2, MessageFacts DEF HandleDidChange, Handling
    <3>2. /\ documents' = IF m.changes = <<>> THEN documents ELSE Replace(documents, m.uri, Last(m.changes))
          /\ PublishDiagnosticsIfChanged(m.uri, documents')
      BY <2>2 DEF HandleDidChange
    <3>3. \A u \in DOMAIN documents' : u # m.uri => u \in DOMAIN documents /\ documents'[u] = documents[u]
      BY <3>2 DEF Replace
    <3> QED BY <3>1, <3>2, <3>3, PublishingIsUpToDate
  <2>3. CASE HandleDidClose
    <3>1. documents' = Without(documents, m.uri) /\ published' = Without(published, m.uri)
      BY <2>3 DEF HandleDidClose
    <3>2. \A u \in DOMAIN documents' : u # m.uri /\ u \in DOMAIN documents /\ documents'[u] = documents[u]
      BY <3>1 DEF Without, Restrict
    <3>3. \A u \in DOMAIN documents' : WasNonempty(u)' <=> WasNonempty(u)
      BY <3>1, <3>2 DEF WasNonempty, Without, Restrict
    <3> QED BY <3>2, <3>3 DEF UpToDate, Diagnosed
  <2>4. CASE EndRun \/ AnswerNobody \/ IgnoreNotification
    BY <2>4, StillUpToDate DEF EndRun, AnswerNobody, IgnoreNotification, server
  <2> QED BY <1>1, <2>1, <2>2, <2>3, <2>4 DEF Notified
<1>2. CASE AtOnce
  BY <1>2, AtOnceAnswers, StillUpToDate
<1>3. CASE Collecting
  <2>1. UNCHANGED <<documents, published>>
    BY <1>3 DEF Collecting, HandleTypeDefinition, HandleReferences, LocateType, ReadReferences, Request, Resuming
  <2> QED BY <2>1, StillUpToDate
<1>4. CASE Indexing
  BY <1>4, IndexingKeepsTypes, StillUpToDate DEF Indexing, server
<1>5. CASE Sending
  <2>1. PICK x \in Messages : Sends(x)
    BY <1>5, EverySendingSends
  <2> QED BY <2>1, StillUpToDate DEF Sends, server
<1>6. CASE Receive
  BY <1>6, StillUpToDate DEF Receive, server
<1>7. CASE UNCHANGED vars
  BY <1>7, StillUpToDate DEF vars, server
<1> QED BY <1>1, <1>2, <1>3, <1>4, <1>5, <1>6, <1>7, NextIs

\* What was published is up to date until the include graph changes: every
\* change of a document publishes what it changes.
THEOREM OnlyGraphAges == Spec => OnlyTheGraphAges
<1>1. TypeInv /\ [Next]_vars => [UpToDate /\ include_graph' = include_graph => UpToDate']_vars
  BY StepIsUpToDate
<1>2. DocumentInv => TypeInv
  BY DEF DocumentInv
<1> QED BY <1>1, <1>2, DocumentsHold, PTL DEF Spec, OnlyTheGraphAges
=============================================================================
