---------------------------- MODULE CodeIndexes ----------------------------
(***************************************************************************)
(* The six code indexes of Core/Index, the queries the HTTP server answers *)
(* from them and the ImpactAnalyzer that combines three of them.  At the   *)
(* start main.cpp builds one index after the other from a scan of the      *)
(* project; afterwards the handler of "FileChanged" replaces the rows of   *)
(* one file in one index after the other, while the threads of the server  *)
(* read them.  Each index locks itself, nothing locks all of them.         *)
(*                                                                         *)
(* What the extractors find in a file is given by its content.  Build() is *)
(* called once on each index, with an empty cache, so its cache never      *)
(* answers and is left out.  FileWatching models how changes are noticed;  *)
(* here the watcher compares the disk with its baseline in one step.       *)
(***************************************************************************)
EXTENDS Naturals, FiniteSets, Sequences, SequencesExt

CONSTANTS
  Files,      \* paths, each a sequence of components
  Longer,     \* Longer[f]: f's place in the order of length, then of letters
  Sources,    \* the files with an extension of C++
  Contents,   \* what a file may hold
  Rows,       \* what the extractors find in a content: its includes and a
              \* set of rows for each of the tables
  Absent,     \* the file does not exist
  Disks,      \* what the disk may hold at the start
  None,
  Diffs,      \* the diffs asked about: [Files -> SUBSET Nat] by new line number
  MaxEdits,   \* bound on the changes made to the disk
  Reverts     \* TRUE when a file may get back the content the watcher saw last

\* The indexes that keep rows of their own files only.
Tables == {"symbols", "calls", "bases", "references", "trees"}

\* The order in which main.cpp builds the indexes and the handler updates them.
Order == <<"symbols", "includes", "calls", "bases", "references", "trees">>

ASSUME FilesAreOrdered ==
  /\ Sources \subseteq Files /\ None \notin Files
  /\ Longer \in [Files -> Nat]
  /\ \A f, g \in Files : f # g => Longer[f] # Longer[g]
ASSUME ContentsHaveRows ==
  /\ Absent \notin Contents
  /\ \A c \in Contents :
       /\ DOMAIN Rows[c] = Tables \cup {"includes"}
       /\ Rows[c].trees # {}                      \* a parser returns some tree
       /\ \A r \in Rows[c].symbols : r.name # None
ASSUME DisksAreDisks == Disks \subseteq [Files -> Contents \cup {Absent}]
ASSUME NoneIsNoTask == None \notin [event : [file : Files, deleted : BOOLEAN], n : Nat]
ASSUME MaxEditsIsNatural == MaxEdits \in Nat
ASSUME RevertsIsBoolean == Reverts \in BOOLEAN

VARIABLES
  disk,      \* the content of each file
  edits,     \* how many changes were made to the disk
  main,      \* what main() is building, then "serving"
  tables,    \* the rows of each table: records with "file" and "row"
  edges,     \* IncludeGraph::edges_
  known,     \* IncludeGraph::known_paths_
  baseline,  \* what the watcher saw last
  events,    \* FileChanged events of one poll that are to be handled
  handling,  \* the event in hand and the next index to update
  analysis    \* a request for an impact analysis

diskVars == <<disk, edits>>
indexVars == <<tables, edges, known>>
watchVars == <<baseline, events, handling>>
codeVars == <<diskVars, main, indexVars, watchVars, analysis>>

Existing == {f \in Files : disk[f] # Absent}

-----------------------------------------------------------------------------
(* Resolving an #include to a file of the project.                         *)

EndsWithPathSegment(path, text) == text # <<>> /\ IsSuffix(text, path)

\* The shortest path that ends with the text, the first one by letters.
ResolveInclude(text, paths) ==
  LET candidates == {p \in paths : EndsWithPathSegment(p, text)}
  IN  IF candidates = {} THEN None
      ELSE CHOOSE p \in candidates : \A q \in candidates : Longer[p] <= Longer[q]

Edge(f, include, paths) ==
  [file |-> f, include |-> include,
   path |-> IF include.system THEN None ELSE ResolveInclude(include.text, paths)]

EdgesOf(f, paths) == {Edge(f, i, paths) : i \in Rows[disk[f]].includes}

ReResolveAllEdges(es, paths) == {Edge(e.file, e.include, paths) : e \in es}

RowsOf(t, f) == {[file |-> f, row |-> r] : r \in Rows[disk[f]][t]}

-----------------------------------------------------------------------------
(* Queries.                                                                *)

TrailingIdentifier(name) == <<Last(name)>>

FindByName(name) == {r \in tables.symbols : r.row.name = name}
Includes(f) == {e.path : e \in {d \in edges : d.file = f /\ d.path # None}}
IncludedBy(f) == {e.file : e \in {d \in edges : d.path = f}}
Callees(name) == {r \in tables.calls : r.row.caller = name}
Callers(name) == {r \in tables.calls : r.row.callee = name \/ TrailingIdentifier(r.row.callee) = name}
Bases(name) == {r \in tables.bases : r.row.derived = name}
Derived(name) == {r \in tables.bases : r.row.base = name}
References(name) == {r \in tables.references : r.row.type = name}
Tree(f) == {r \in tables.trees : r.file = f}

\* The routes of ApiServer; a parameter that is not given is None.
GetSymbols(name) == IF name = None THEN tables.symbols ELSE FindByName(name)
GetIncludes(file, by) ==
  {e \in edges : IF file # None THEN e.file = file ELSE by # None => e.path = by}
GetCalls(caller, callee) ==
  IF caller # None THEN Callees(caller)
  ELSE IF callee # None THEN Callers(callee) ELSE tables.calls
GetInheritance(derived, base) ==
  IF derived # None THEN Bases(derived)
  ELSE IF base # None THEN Derived(base) ELSE tables.bases
GetReferences(type) == IF type = None THEN tables.references ELSE References(type)
GetAst(file) == IF Tree(file) = {} THEN None ELSE Tree(file)  \* None: 404

-----------------------------------------------------------------------------
InitIndexes ==
  /\ disk \in Disks
  /\ edits = 0
  /\ main = [at |-> "scan", n |-> 1]
  /\ tables = [t \in Tables |-> {}] /\ edges = {} /\ known = {}
  /\ baseline = disk /\ events = {} /\ handling = None
  /\ analysis = None

\* Somebody writes, creates or deletes a file.  A change between a Build() and
\* the watcher's baseline is never noticed, nor one that is taken back before
\* the watcher looks again, see FileWatching: there is none of the former, and
\* Reverts says whether there is the latter.
Edit(f, c) ==
  /\ main.at = "serving" /\ edits < MaxEdits /\ c # disk[f]
  /\ Reverts \/ c # baseline[f]
  /\ disk' = [disk EXCEPT ![f] = c]
  /\ edits' = edits + 1
  /\ UNCHANGED <<main, indexVars, watchVars, analysis>>

-----------------------------------------------------------------------------
(* Build(): a scan lists the files, then each source file is read.         *)

Scan ==
  /\ main.at = "scan" /\ main.n <= Len(Order)
  /\ main' = [at |-> "read", n |-> main.n, seen |-> Existing]
  /\ UNCHANGED <<diskVars, indexVars, watchVars, analysis>>

Building(i) == main.at = "read" /\ Order[main.n] = i

\* What can be opened of what the scan has listed.
Readable == main.seen \cap Sources \cap Existing

BuildTable(t) ==
  /\ Building(t)
  /\ tables' = [tables EXCEPT ![t] = UNION {RowsOf(t, f) : f \in Readable}]
  /\ main' = [at |-> "scan", n |-> main.n + 1]
  /\ UNCHANGED <<diskVars, edges, known, watchVars, analysis>>

BuildSymbolIndex == BuildTable("symbols")
BuildCallGraph == BuildTable("calls")
BuildInheritanceGraph == BuildTable("bases")
BuildReferenceGraph == BuildTable("references")
BuildAstIndex == BuildTable("trees")

BuildIncludeGraph ==
  /\ Building("includes")
  /\ edges' = UNION {EdgesOf(f, main.seen) : f \in Readable}
  /\ known' = main.seen
  /\ main' = [at |-> "scan", n |-> main.n + 1]
  /\ UNCHANGED <<diskVars, tables, watchVars, analysis>>

\* The watcher takes its baseline and the server listens.
Serve ==
  /\ main.at = "scan" /\ main.n > Len(Order)
  /\ main' = [at |-> "serving"]
  /\ baseline' = disk
  /\ UNCHANGED <<diskVars, indexVars, events, handling, analysis>>

-----------------------------------------------------------------------------
(* The handler of "FileChanged".                                           *)

Poll ==
  /\ main.at = "serving" /\ events = {} /\ handling = None
  /\ baseline # disk
  /\ events' = {[file |-> f, deleted |-> disk[f] = Absent] : f \in {g \in Files : baseline[g] # disk[g]}}
  /\ baseline' = disk
  /\ UNCHANGED <<diskVars, main, indexVars, handling, analysis>>

TakeEvent(e) ==
  /\ handling = None
  /\ events' = events \ {e}
  /\ handling' = [event |-> e, n |-> 1]
  /\ UNCHANGED <<diskVars, main, indexVars, baseline, analysis>>

WithoutFile(rows, f) == {r \in rows : r.file # f}

\* UpdateFile() of the indexes with a table: other files are none of its
\* business, and a file that cannot be opened leaves the rows as they are.
UpdateTable(t, f) ==
  IF f \in Sources \cap Existing THEN WithoutFile(tables[t], f) \cup RowsOf(t, f) ELSE tables[t]

SymbolIndexUpdateFile(f) == UpdateTable("symbols", f)
CallGraphUpdateFile(f) == UpdateTable("calls", f)
InheritanceGraphUpdateFile(f) == UpdateTable("bases", f)
ReferenceGraphUpdateFile(f) == UpdateTable("references", f)
AstIndexUpdateFile(f) == UpdateTable("trees", f)

\* Mutant: only the edges of the file itself are resolved.
UpdateOwnIncludes(f) ==
  IF f \in Sources \ Existing THEN UNCHANGED <<edges, known>>
  ELSE LET own == IF f \in Sources THEN EdgesOf(f, known) ELSE {}
           kept == IF f \in Sources THEN WithoutFile(edges, f) ELSE edges
       IN  /\ known' = known \cup {f}
           /\ edges' = kept \cup ReResolveAllEdges(own, known')

\* IncludeGraph::UpdateFile(): any new path may change what others resolve to.
UpdateIncludes(f) ==
  IF f \in Sources \ Existing THEN UNCHANGED <<edges, known>>
  ELSE LET own == IF f \in Sources THEN EdgesOf(f, known) ELSE {}
           kept == IF f \in Sources THEN WithoutFile(edges, f) ELSE edges
       IN  /\ known' = known \cup {f}
           /\ edges' = ReResolveAllEdges(kept \cup own, known')

RemoveIncludes(f) ==
  /\ known' = known \ {f}
  /\ edges' = ReResolveAllEdges(WithoutFile(edges, f), known')

UpdateFile(t, f) ==
  CASE t = "symbols"    -> SymbolIndexUpdateFile(f)
    [] t = "calls"      -> CallGraphUpdateFile(f)
    [] t = "bases"      -> InheritanceGraphUpdateFile(f)
    [] t = "references" -> ReferenceGraphUpdateFile(f)
    [] t = "trees"      -> AstIndexUpdateFile(f)

SymbolIndexRemoveFile(f) == WithoutFile(tables.symbols, f)
CallGraphRemoveFile(f) == WithoutFile(tables.calls, f)
InheritanceGraphRemoveFile(f) == WithoutFile(tables.bases, f)
ReferenceGraphRemoveFile(f) == WithoutFile(tables.references, f)
AstIndexRemoveFile(f) == WithoutFile(tables.trees, f)

RemoveFile(t, f) ==
  CASE t = "symbols"    -> SymbolIndexRemoveFile(f)
    [] t = "calls"      -> CallGraphRemoveFile(f)
    [] t = "bases"      -> InheritanceGraphRemoveFile(f)
    [] t = "references" -> ReferenceGraphRemoveFile(f)
    [] t = "trees"      -> AstIndexRemoveFile(f)

\* What a pending request will have seen of the edges, see ImpactIsReachable.
Witnessed(es) ==
  IF analysis = None THEN None
  ELSE [analysis EXCEPT !.always = @ \cap es, !.ever = @ \cup es]

\* apply(): the next index takes the event in hand.
Apply ==
  /\ handling # None
  /\ LET i == Order[handling.n]
         f == handling.event.file
         gone == handling.event.deleted
     IN  IF i = "includes"
           THEN /\ IF gone THEN RemoveIncludes(f) ELSE UpdateIncludes(f)
                /\ UNCHANGED tables
           ELSE /\ tables' = [tables EXCEPT ![i] = IF gone THEN RemoveFile(i, f) ELSE UpdateFile(i, f)]
                /\ UNCHANGED <<edges, known>>
  /\ handling' = IF handling.n = Len(Order) THEN None ELSE [handling EXCEPT !.n = @ + 1]
  /\ analysis' = Witnessed(edges')
  /\ UNCHANGED <<diskVars, main, baseline, events>>

-----------------------------------------------------------------------------
(* ImpactAnalyzer: every question to an index locks it anew.               *)

\* Analyze() looks for the includers first, AnalyzeChanges() last.
Asked(kind, seeds, lines) ==
  [kind |-> kind, at |-> IF kind = "file" THEN "includers" ELSE "symbols",
   seeds |-> seeds, lines |-> lines, files |-> seeds,
   visited |-> seeds, frontier |-> seeds, next |-> {}, todo |-> {}, callers |-> {},
   always |-> edges, ever |-> edges]

AskFile(f) ==
  /\ main.at = "serving" /\ analysis = None
  /\ analysis' = Asked("file", {f}, [g \in Files |-> {}])
  /\ UNCHANGED <<diskVars, main, indexVars, watchVars>>

\* The files of a diff are those with a header, a deleted one has none.
AskChanges(d) ==
  /\ main.at = "serving" /\ analysis = None
  /\ analysis' = Asked("changes", {f \in Files : d[f] # {}}, d)
  /\ UNCHANGED <<diskVars, main, indexVars, watchVars>>

AfterIncluders(r) == [r EXCEPT !.at = IF r.kind = "file" THEN "symbols" ELSE "done"]
AfterCallers(r) ==
  [r EXCEPT !.at = IF r.files # {} THEN "symbols" ELSE IF r.kind = "file" THEN "done" ELSE "includers"]

\* Mutant: nobody remembers which files were met.
CollectAnew ==
  /\ analysis # None /\ analysis.at = "includers" /\ analysis.frontier # {}
  /\ \E f \in analysis.frontier :
       analysis' = [analysis EXCEPT !.visited = @ \cup IncludedBy(f), !.next = @ \cup IncludedBy(f),
                                  !.frontier = @ \ {f}]
  /\ UNCHANGED <<diskVars, main, indexVars, watchVars>>

\* CollectTransitiveIncluders(): one file of the frontier, ...
CollectIncluders ==
  /\ analysis # None /\ analysis.at = "includers" /\ analysis.frontier # {}
  /\ \E f \in analysis.frontier :
       LET fresh == IncludedBy(f) \ analysis.visited
       IN  analysis' = [analysis EXCEPT !.visited = @ \cup fresh, !.next = @ \cup fresh,
                                      !.frontier = @ \ {f}]
  /\ UNCHANGED <<diskVars, main, indexVars, watchVars>>

\* ... and the next frontier, until it is empty.
NextFrontier ==
  /\ analysis # None /\ analysis.at = "includers" /\ analysis.frontier = {}
  /\ analysis' = IF analysis.next = {} THEN AfterIncluders(analysis)
                ELSE [analysis EXCEPT !.frontier = analysis.next, !.next = {}]
  /\ UNCHANGED <<diskVars, main, indexVars, watchVars>>

\* A symbol's span ends before the next symbol of its file.  When that one is
\* on the same line the span is empty, and only a run of changed lines across
\* its beginning overlaps it.
Follows(q, r) == q.row.line > r.row.line \/ (q.row.line = r.row.line /\ q.row.order > r.row.order)

Touched(r, rows, lines) ==
  LET start == r.row.line
      later == {q.row.line : q \in {p \in rows : Follows(p, r)}}
  IN  \/ \E l \in lines : start <= l /\ \A k \in later : l < k
      \/ start \in later /\ {start - 1, start} \subseteq lines

\* SymbolIndex::All(), and which symbols of one file are reported.
SelectSymbols ==
  /\ analysis # None /\ analysis.at = "symbols"
  /\ LET f == CHOOSE g \in analysis.files : TRUE
         rows == {r \in tables.symbols : r.file = f}
     IN  analysis' = [analysis EXCEPT
           !.at = "callers", !.files = @ \ {f},
           !.todo = {r \in rows : r.row.function /\ (analysis.kind = "file" \/ Touched(r, rows, analysis.lines[f]))}]
  /\ UNCHANGED <<diskVars, main, indexVars, watchVars>>

\* CallGraph::Callers() of one function after the other.
FindCallers ==
  /\ analysis # None /\ analysis.at = "callers"
  /\ analysis' = IF analysis.todo = {} THEN AfterCallers(analysis)
                ELSE LET r == CHOOSE q \in analysis.todo : TRUE
                     IN  [analysis EXCEPT !.todo = @ \ {r},
                                         !.callers = @ \cup {<<r, c>> : c \in Callers(TrailingIdentifier(r.row.name))}]
  /\ UNCHANGED <<diskVars, main, indexVars, watchVars>>

Reply ==
  /\ analysis # None /\ analysis.at = "done"
  /\ analysis' = None
  /\ UNCHANGED <<diskVars, main, indexVars, watchVars>>

-----------------------------------------------------------------------------
Build == \/ Scan
         \/ BuildSymbolIndex \/ BuildIncludeGraph \/ BuildCallGraph
         \/ BuildInheritanceGraph \/ BuildReferenceGraph \/ BuildAstIndex
         \/ Serve

Watch == \/ Poll
         \/ \E e \in events : TakeEvent(e)
         \/ Apply

Analyze == CollectIncluders \/ NextFrontier \/ SelectSymbols \/ FindCallers \/ Reply

NextIndexes ==
  \/ \E f \in Files, c \in Contents \cup {Absent} : Edit(f, c)
  \/ Build
  \/ Watch
  \/ \E f \in Files : AskFile(f)
  \/ \E d \in Diffs : AskChanges(d)
  \/ Analyze

\* main(), the watcher's thread and the server's run whenever they can;
\* editors edit and clients ask when they like.
SpecIndexes == InitIndexes /\ [][NextIndexes]_codeVars
               /\ WF_codeVars(Build) /\ WF_codeVars(Watch) /\ WF_codeVars(Analyze)

-----------------------------------------------------------------------------
(* Properties.                                                             *)

\* What a reader of the disk would answer, without indexes.
SourcesNow == Sources \cap Existing
RowsNow(t) == UNION {RowsOf(t, f) : f \in SourcesNow}
ResolvesTo(include, f) ==
  /\ ~include.system /\ f \in Existing /\ EndsWithPathSegment(f, include.text)
  /\ \A g \in Existing : EndsWithPathSegment(g, include.text) => Longer[f] <= Longer[g]

\* Nothing has changed that the watcher has not told the indexes.
UpToDate == main.at = "serving" /\ baseline = disk /\ events = {} /\ handling = None

SymbolNames == UNION {{r.name : r \in Rows[c].symbols} : c \in Contents}

\* After any sequence of creations, changes and deletions, and however often
\* a file changed again while it was being handled (but for one that is back
\* where the watcher saw it last, see Edit), every answer the server
\* gives from the indexes is the one a reading of the whole project gives:
\* replacing the rows of single files is as good as building anew.  For the
\* includes this needs all of them to be resolved again, since a new file may
\* be a better match, and the end of one may leave another as the best.
AnswersFollowDisk ==
  UpToDate =>
    /\ \A n \in SymbolNames :
         /\ GetSymbols(n) = {r \in RowsNow("symbols") : r.row.name = n}
         /\ GetCalls(None, n) = {r \in RowsNow("calls") : r.row.callee = n \/ <<Last(r.row.callee)>> = n}
         /\ GetCalls(n, None) = {r \in RowsNow("calls") : r.row.caller = n}
         /\ GetInheritance(n, None) = {r \in RowsNow("bases") : r.row.derived = n}
         /\ GetInheritance(None, n) = {r \in RowsNow("bases") : r.row.base = n}
         /\ GetReferences(n) = {r \in RowsNow("references") : r.row.type = n}
    /\ \A f \in Files :
         /\ Includes(f) = {g \in Existing : f \in SourcesNow /\ \E i \in Rows[disk[f]].includes : ResolvesTo(i, g)}
         /\ {e.file : e \in GetIncludes(None, f)} =
              {g \in SourcesNow : \E i \in Rows[disk[g]].includes : ResolvesTo(i, f)}
         /\ GetAst(f) = IF f \in SourcesNow THEN RowsOf("trees", f) ELSE None

\* The seeds and the files from which one of them can be reached along edges:
\* what is in every set that has the seeds and whoever includes a file of it.
Closed(paths, es) == \A e \in es : e.path \in paths => e.file \in paths
Includers(seeds, es) ==
  {f \in Files : \A paths \in SUBSET Files : seeds \subseteq paths /\ Closed(paths, es) => f \in paths}

\* An impact analysis runs while the watcher's thread changes the graph under
\* it.  It reports every file that includes the seed through edges that stayed
\* as they were, however many files away and whether or not the includes form
\* a cycle, and no file that was at no time an includer.
ImpactIsReachable ==
  (analysis # None /\ analysis.at = "done") =>
    /\ Includers(analysis.seeds, analysis.always) \subseteq analysis.visited
    /\ analysis.visited \subseteq Includers(analysis.seeds, analysis.ever)

\* What the indexes answer and what an analysis finds is so on disk.
IndexesAreTrue == AnswersFollowDisk /\ ImpactIsReachable

\* An analysis ends: cycles of includes do not hold it, nor does the watcher.
ImpactIsAnswered == (analysis # None) ~> (analysis = None)
=============================================================================
