-------------------------- MODULE ContextPipeline --------------------------
(***************************************************************************)
(* How an intent becomes the items of a response.  ContextRetriever::      *)
(* Retrieve asks one source after the other (symbols, include edges, file  *)
(* names, lines of text, backends), each leaving out what an earlier one   *)
(* has brought, and cuts what is much weaker than the best; then           *)
(* ContextSelector spends the token budget, shortening what does not fit   *)
(* with ContextCompressor.                                                 *)
(*                                                                         *)
(* What the searches find is part of the project.  The text of an item is  *)
(* the range of lines of a file it shows, with the number of characters it *)
(* takes.  Numbers of the code that only scale (lines, priorities) keep    *)
(* their value, caps that bound a count are CONSTANTS.                     *)
(***************************************************************************)
EXTENDS Integers, FiniteSets, Sequences, SequencesExt

CONSTANTS
  Projects,         \* the projects asked about, see ProjectsAreProjects
  MaxSymbols,       \* Options::max_symbol_matches
  MaxFiles,         \* Options::max_file_matches
  MaxKeywords,      \* Options::max_keyword_matches
  SpecificMatches,  \* kSpecificTokenMatches
  MaxEdges,         \* kMaxDependencyEdges
  MaxCallSites,     \* kMaxExemptedCallSites
  Budgets,          \* context_response_budget_tokens
  NoFile            \* no document is active

kMaxWholeFiles == 2  \* kMaxWholeFilesFromSymbols and kMaxInlinedFiles
kWindow == 6         \* kKeywordWindowLines
kCutoff == 30        \* kRelativePriorityCutoff

\* path: the files in the order of their paths; scanned, small, text, tests
\* and allowed: those in the snapshot, at most 6 KB, that decode, that look
\* like tests and that the firewall lets pass; lines: how many a file has;
\* active: the editor's document; score: what FilePathScore gives a file for a
\* token; symbols: the index, of those of one name in a file the one a search
\* takes (the key of best_by_symbol); matches: the score of each symbol a token
\* finds; hits: the lines a token or a phrase finds; includes: the edges;
\* offered: the items of the backends.  That of a File names it and has an
\* excerpt of the lines first..last, or the whole file.
ASSUME ProjectsAreProjects ==
  \A p \in Projects :
    LET files == ToSet(p.path)
    IN  /\ p.path \in Seq(files) /\ IsInjective(p.path)
        /\ p.scanned \cup p.small \cup p.text \cup p.tests \cup p.allowed \subseteq files
        /\ \A f \in files : p.lines[f] \in Nat /\ p.includes[f] \in Seq(files)
        /\ IsFiniteSet(p.symbols)
        /\ \A s \in p.symbols : s.file \in files /\ s.first \in Nat /\ s.last \in Nat
        /\ \A s, t \in p.symbols : s.file = t.file /\ s.name = t.name => s = t
        /\ IsFiniteSet(DOMAIN p.matches)
        /\ \A t \in DOMAIN p.matches :
             /\ DOMAIN p.matches[t] \subseteq p.symbols
             /\ \A s \in DOMAIN p.matches[t] : p.matches[t][s] \in Nat
             /\ \A f \in files : p.score[f][t] \in Nat
        /\ IsFiniteSet(p.hits)
        /\ \A h \in p.hits : h.file \in files /\ h.line \in 1..p.lines[h.file] /\ h.score \in Nat
        /\ p.offered \in Seq(ToSet(p.offered))
        /\ \A o \in ToSet(p.offered) :
             /\ o.source \in {"GitDiff", "Custom", "File"} /\ o.priority \in Int /\ o.chars \in Nat
             /\ o.source = "File" =>
                  /\ o.name \in files /\ o.whole \in BOOLEAN /\ o.first \in Nat \ {0}
                  /\ o.last \in o.first..p.lines[o.name]
                  /\ o.whole => o.first = 1 /\ o.last = p.lines[o.name]

\* No limit is negative, nor the budget of a selection.
ASSUME CapsAreNumbers ==
  /\ {MaxSymbols, MaxFiles, MaxKeywords, SpecificMatches, MaxEdges, MaxCallSites} \subseteq Nat
  /\ Budgets \subseteq Nat

VARIABLES
  project,
  stage,      \* the source to be asked next
  items,      \* what was found so far, in the order it was found
  matched,    \* the files of the symbols that matched
  order,      \* the same, the best match first
  covered,    \* ranges whose whole text is in an item
  truncated,  \* the sources that had more matches than their cap
  selection   \* what ContextSelector included and excluded

found == <<items, matched, order, covered, truncated>>
pipelineVars == <<project, stage, found, selection>>

Clamp(n, low, high) == IF n < low THEN low ELSE IF n > high THEN high ELSE n
FirstOf(list, max) == SubSeq(list, 1, Clamp(Len(list), 0, max))

\* The elements of a set, each behind those before it.
Sorted(set, before(_, _)) ==
  [i \in 1..Cardinality(set) |-> CHOOSE x \in set : Cardinality({y \in set : before(y, x)}) = i - 1]

Passes(f) == f \in project.allowed
HasContent(f) == f \in project.scanned \cap project.text
WholeFileFor(f) == f \in (project.scanned \cap project.small) \ project.tests
-----------------------------------------------------------------------------
(* What every source uses: priorities by file and items by id. *)

Tokens == DOMAIN project.matches
FilePathScore(f, t) == project.score[f][t]

FileAffinity(f) ==
  LET n == Cardinality({t \in Tokens : FilePathScore(f, t) > 0}) - 1
  IN  IF f \in project.scanned THEN 12 * Clamp(n, 0, 2) ELSE 0

ActiveFileBias(f) ==
  LET a == project.active
  IN  IF a = NoFile THEN 0
      ELSE IF f = a THEN 20
      ELSE IF f \in ToSet(project.includes[a]) \/ a \in ToSet(project.includes[f]) THEN 10
      ELSE 0

Biased(priority, f) == Clamp(priority + ActiveFileBias(f), 0, 100)
TestPenalty(f) == IF f \in project.tests THEN 10 ELSE 0

AddItem(list, item) ==
  IF \E i \in DOMAIN list : list[i].id = item.id THEN list ELSE Append(list, item)

Ceil4(chars) == (chars + 3) \div 4

\* An item that shows the lines first..last of a file; none if last < first.
Shows(id, source, level, f, first, last, priority) ==
  LET chars == 30 + 40 * Clamp(last - first + 1, 0, last)
  IN  [id |-> id, source |-> source, level |-> level, file |-> f, first |-> first, last |-> last,
       whole |-> FALSE, cut |-> FALSE, offered |-> FALSE, priority |-> priority, chars |-> chars, tokens |-> Ceil4(chars)]

MakeFileItem(f, priority, inline) ==
  LET lines == project.lines[f]
      whole == Shows(<<"file", f>>, "File", "Raw", f, 1, lines, priority)
  IN  IF inline THEN [whole EXCEPT !.whole = TRUE]
      ELSE [whole EXCEPT !.first = 1, !.last = 0, !.chars = 0]  \* a stub: the size is told, nothing is shown

\* The lines first..last of the file, at most max of them.
SliceLines(item, f, first, last, max) ==
  LET end == Clamp(last, 0, project.lines[f])
      shown == Shows(item.id, item.source, item.level, f, first, Clamp(end, 0, first + max - 1), item.priority)
  IN  [shown EXCEPT !.cut = end > first + max - 1]
-----------------------------------------------------------------------------
(* Symbols: each token's matches, weighted by how many they are, pooled. *)

TokenSpecificity(t) ==  \* in percent
  LET n == Cardinality(DOMAIN project.matches[t])
      doublings == Cardinality({d \in 1..n : SpecificMatches * 2^d <= n})
  IN  Clamp(100 - 15 * doublings, 30, 100)

Weighted(s, t) == (project.matches[t][s] * TokenSpecificity(t)) \div 100

Pooled == UNION {DOMAIN project.matches[t] : t \in Tokens}
Merged(s) ==
  LET by == {t \in Tokens : s \in DOMAIN project.matches[t]}
  IN  [score |-> Max({Weighted(s, t) : t \in by}), tokens |-> Cardinality(by),
       specificity |-> FoldSet(LAMBDA t, sum : sum + TokenSpecificity(t), 0, by)]

\* A variable that matched brings the definition of its type at its own score.
TypesOf(v) == {s \in project.symbols : v.kind = "Variable" /\ s.name = v.type /\ s.kind # "Variable"}
BringersOf(s) == {v \in Pooled : s \in TypesOf(v)}
Joined == {s \in project.symbols : BringersOf(s) # {}} \ Pooled

\* The variable whose entry a joined type takes is the first in hash order.
Entry(s, bringer) ==
  LET own == Merged(IF s \in Pooled THEN s ELSE bringer[s])
  IN  [own EXCEPT !.score = Max({@} \cup {Merged(v).score : v \in BringersOf(s)})]

SymbolPriority(score) == 35 + ((Clamp(score, 40, 105) - 40) * 50) \div 65

SymbolRank(s, entry) ==
  Clamp(SymbolPriority(entry.score)
          + (10 * (entry.tokens - 1) * entry.specificity) \div (100 * entry.tokens)
          - (IF s.kind = "Variable" THEN 30 ELSE 0) - TestPenalty(s.file) + FileAffinity(s.file),
        35, 85)

\* std::stable_sort over what a hash map holds: ties in any order.
Rankings(rank) ==
  {seq \in SetToSeqs(DOMAIN rank) : \A i \in 1..(Len(seq) - 1) : rank[seq[i]] >= rank[seq[i + 1]]}

MakeSymbolItem(s, priority) ==
  Shows(<<"symbol", s.file, s.name>>, "Symbol", "Symbol", s.file, 1, 0, priority)

HasBody(s) ==
  /\ s.kind # "Variable" /\ s.first > 0 /\ s.last >= s.first
  /\ HasContent(s.file) /\ s.first <= project.lines[s.file]

AttachDefinitionBody(item, s) ==
  IF HasBody(s)
  THEN SliceLines([item EXCEPT !.level = "Raw"], s.file, s.first, s.last, IF s.kind = "Function" THEN 120 ELSE 40)
  ELSE item

Span(f, first, last) == [file |-> f, first |-> first, last |-> last]

\* One match of the list: its whole file, nothing, or its own definition.
TakeSymbol(acc, match) ==
  LET s     == match.symbol
      priority == match.priority
      first == s.file \notin acc.matched
      noted == [acc EXCEPT !.matched = @ \cup {s.file}, !.order = IF first THEN Append(@, s.file) ELSE @]
      bring == Cardinality(acc.whole) < kMaxWholeFiles /\ WholeFileFor(s.file)
      item  == AttachDefinitionBody(MakeSymbolItem(s, Biased(priority, s.file)), s)
      body  == HasBody(s) /\ ~item.cut
  IN  IF ~Passes(s.file) THEN acc
      ELSE IF s.file \in acc.whole \/ (bring /\ ~first) THEN noted
      ELSE IF bring /\ HasContent(s.file)
      THEN [noted EXCEPT !.whole = @ \cup {s.file}, !.covered = @ \cup {Span(s.file, 1, project.lines[s.file])},
                         !.items = AddItem(@, MakeFileItem(s.file, Biased(priority, s.file), TRUE))]
      ELSE [noted EXCEPT !.covered = IF body THEN @ \cup {Span(s.file, s.first, s.last)} ELSE @,
                         !.items = AddItem(@, item)]

RetrieveSymbols ==
  /\ stage = "symbols"
  /\ \E bringer \in [Joined -> Pooled] :
       /\ \A s \in Joined : bringer[s] \in BringersOf(s)
       /\ LET rank == [s \in Pooled \cup Joined |-> SymbolRank(s, Entry(s, bringer))]
          IN  \E ranking \in Rankings(rank) :
                LET start == [items |-> <<>>, matched |-> {}, order |-> <<>>, covered |-> {}, whole |-> {}]
                    best == FirstOf(ranking, MaxSymbols)
                    end == FoldLeft(TakeSymbol, start,
                                    [i \in DOMAIN best |-> [symbol |-> best[i], priority |-> rank[best[i]]]])
                IN  /\ items' = end.items
                    /\ matched' = end.matched
                    /\ order' = end.order
                    /\ covered' = end.covered
                    /\ truncated' = IF Len(ranking) > MaxSymbols THEN {"symbol"} ELSE {}
  /\ stage' = "dependencies"
  /\ UNCHANGED <<project, selection>>
-----------------------------------------------------------------------------
(* What the files of the matched symbols include. *)

MakeDependencyItem(f, g) ==
  [Shows(<<"dependency", f, g>>, "Dependency", "Reference", f, 1, 0, Biased(35, f)) EXCEPT !.tokens = 5]

\* Where the edges of the files stand, in the order of both.
Places == UNION {{i} \X DOMAIN project.includes[order[i]] : i \in DOMAIN order}
Included(place) == project.includes[order[place[1]]][place[2]]
Sooner(place, other) == place[1] < other[1] \/ (place[1] = other[1] /\ place[2] < other[2])

\* Without the firewall's say on the file that is included.
AllEdges == Sorted(Places, Sooner)

Edges == Sorted({place \in Places : Passes(Included(place))}, Sooner)

AddDependency(list, place) == AddItem(list, MakeDependencyItem(order[place[1]], Included(place)))

RetrieveDependencies ==
  /\ stage = "dependencies"
  /\ items' = FoldLeft(AddDependency, items, FirstOf(Edges, MaxEdges))
  /\ stage' = "files"
  /\ UNCHANGED <<project, matched, order, covered, truncated, selection>>
-----------------------------------------------------------------------------
(* Files whose path holds a token. *)

BestPathScore(f) == Max({0} \cup {FilePathScore(f, t) : t \in Tokens})

FileRank(f) == Biased(BestPathScore(f) + FileAffinity(f), f)

TakeFile(acc, f) ==
  LET worth  == /\ acc.inlined < kMaxWholeFiles /\ BestPathScore(f) >= 45
                /\ f \in project.small \ project.tests
      inline == worth /\ HasContent(f)
  IN  [inlined |-> IF inline THEN acc.inlined + 1 ELSE acc.inlined,
       covered |-> IF inline THEN acc.covered \cup {Span(f, 1, project.lines[f])} ELSE acc.covered,
       items   |-> AddItem(acc.items, MakeFileItem(f, FileRank(f), inline))]

RetrieveFiles ==
  /\ stage = "files"
  /\ LET rank == [f \in {g \in project.scanned \ matched : Passes(g) /\ BestPathScore(g) > 0} |-> FileRank(f)]
     IN  \E ranking \in Rankings(rank) :
           LET end == FoldLeft(TakeFile, [inlined |-> 0, covered |-> covered, items |-> items],
                               FirstOf(ranking, MaxFiles))
           IN  /\ items' = end.items
               /\ covered' = end.covered
               /\ truncated' = IF Len(ranking) > MaxFiles THEN truncated \cup {"file"} ELSE truncated
  /\ stage' = "keywords"
  /\ UNCHANGED <<project, matched, order, selection>>
-----------------------------------------------------------------------------
(* Lines that hold a token or a phrase, the fallback. *)

HitRank(h) == h.score + (IF h.phrase THEN 40 ELSE 0)

\* The lines with a hit in files that were scanned, each with its best.
Lines ==
  {[file |-> h.file, line |-> h.line, rank |-> HitRank(h)] :
     h \in {g \in project.hits : /\ g.file \in project.scanned
                                /\ \A o \in project.hits : o.file = g.file /\ o.line = g.line => HitRank(o) <= HitRank(g)}}

KeywordPriority(rank) == Clamp(rank, 15, IF rank >= 40 THEN 60 ELSE 35)
HitPriority(h) == KeywordPriority(h.rank) + FileAffinity(h.file) - TestPenalty(h.file)

\* The sets of at most n hits that a sort by priority may put first.
Best(n) ==
  {top \in kSubset(Clamp(Cardinality(Lines), 0, n), Lines) :
     \A h \in top, g \in Lines \ top : HitPriority(h) >= HitPriority(g)}

AlreadyVisible(h) ==
  \E r \in covered : r.file = h.file /\ h.line + kWindow >= r.first /\ h.line - kWindow <= r.last

\* Hits of a file no more than two windows apart share one item: the groups
\* of hits, in the order of their paths and lines.
Joins(kept, h) == \E g \in kept : g.file = h.file /\ g.line < h.line /\ h.line - kWindow <= g.line + kWindow
PlaceOf(f) == CHOOSE i \in DOMAIN project.path : project.path[i] = f
Above(g, h) == IF g.file = h.file THEN g.line < h.line ELSE PlaceOf(g.file) < PlaceOf(h.file)
Groups(kept) ==
  LET heads == {h \in kept : ~Joins(kept, h)}
      groupOf(h) == {g \in kept : /\ g.file = h.file /\ g.line >= h.line
                                  /\ \A o \in heads : o.file # h.file \/ o.line <= h.line \/ o.line > g.line}
      sorted == Sorted(heads, Above)
  IN  [i \in DOMAIN sorted |-> [head |-> sorted[i], hits |-> groupOf(sorted[i])]]

WindowLast(group) == Max({g.line : g \in group.hits}) + kWindow

KeywordItem(list, group) ==
  LET h        == group.head
      f        == h.file
      rank     == Max({g.rank : g \in group.hits})
      priority == Biased(Max({0, KeywordPriority(rank) + FileAffinity(f) - TestPenalty(f)}), f)
      best     == Max({priority} \cup {list[i].priority : i \in DOMAIN list})
      item     == Shows(<<"keyword", f, h.line>>, "Custom", "Summary", f, h.line, h.line, priority)
  IN  IF ~HasContent(f) THEN [item EXCEPT !.level = "Reference", !.tokens = 10]
      ELSE IF priority >= best - kCutoff /\ WholeFileFor(f)
      THEN [SliceLines([item EXCEPT !.level = "Raw"], f, 1, project.lines[f], project.lines[f]) EXCEPT !.whole = TRUE]
      ELSE SliceLines(item, f, Max({1, h.line - kWindow}), WindowLast(group), 120)

TakeGroup(list, group) == AddItem(list, KeywordItem(list, group))

RetrieveKeywords ==
  /\ stage = "keywords"
  /\ \E top \in Best(MaxKeywords) :
       LET kept == {h \in top : Passes(h.file) /\ ~AlreadyVisible(h)}
       IN  items' = FoldLeft(TakeGroup, items, Groups(kept))
  /\ truncated' = IF Cardinality(Lines) > MaxKeywords THEN truncated \cup {"keyword"} ELSE truncated
  /\ stage' = "backends"
  /\ UNCHANGED <<project, matched, order, covered, selection>>
-----------------------------------------------------------------------------
(* What the backends offer, and the cutoff. *)

\* An item of a file has the id that the file has among the items.
OfferedId(o) == IF o.source = "File" THEN <<"file", o.name>> ELSE <<"backend", o.name>>

\* The lines of a File are an excerpt around what its backend searched for, not
\* all of which need be there, or all there are; no other offer shows lines.
OfferedItem(o) ==
  LET priority == Min({o.priority, 10})
      item == IF o.source # "File" THEN Shows(OfferedId(o), o.source, "Raw", o.name, 1, 0, priority)
              ELSE [Shows(OfferedId(o), o.source, IF o.whole THEN "Raw" ELSE "Summary", o.name, o.first, o.last, priority)
                      EXCEPT !.whole = o.whole]
  IN  [item EXCEPT !.offered = TRUE, !.chars = o.chars, !.tokens = Ceil4(o.chars)]

\* Whether the lines are in another item already is not asked.
TakeOffer(list, o) ==
  IF o.name \in ToSet(project.path) /\ ~Passes(o.name) THEN list ELSE AddItem(list, OfferedItem(o))

RetrieveBackends ==
  /\ stage = "backends"
  /\ items' = FoldLeft(TakeOffer, items, project.offered)
  /\ stage' = "cutoff"
  /\ UNCHANGED <<project, matched, order, covered, truncated, selection>>

\* Weak backend items and weak keyword hits go, but for a few hits in files
\* that nothing else in the response is about.
Floor == Max({items[i].priority : i \in DOMAIN items}) - kCutoff
Represented == matched \cup {items[i].file : i \in {j \in DOMAIN items : items[j].source = "File"}}
Elsewhere(item) == item.id[1] = "keyword" /\ item.file \notin Represented

KeepStrong(acc, item) ==
  LET kept == [acc EXCEPT !.kept = Append(@, item)]
  IN  IF item.priority >= Floor \/ item.source \notin {"GitDiff", "Custom"} THEN kept
      ELSE IF item.source = "GitDiff" \/ ~Elsewhere(item) THEN acc
      ELSE [(IF acc.sites < MaxCallSites THEN kept ELSE acc) EXCEPT !.sites = @ + 1]

CutWeak == FoldLeft(KeepStrong, [kept |-> <<>>, sites |-> 0], items).kept

RelativeCutoff ==
  /\ stage = "cutoff"
  /\ items' = IF items = <<>> THEN items ELSE CutWeak
  /\ stage' = "select"
  /\ UNCHANGED <<project, matched, order, covered, truncated, selection>>
-----------------------------------------------------------------------------
(* The budget.  An item costs its serialized size: text and envelope. *)

ResponseItemCost(item) ==
  LET level == [Raw |-> 3, Symbol |-> 6, Summary |-> 7, Reference |-> 9][item.level]
  IN  Ceil4(item.chars + 110 + level)

\* The middle of the text makes room for a marker of 26 characters and the
\* number of characters left out; ten are set aside for that number.
Compress(item, target) ==
  LET available == 4 * target - 36
      omitted == item.chars - available
      digits == 1 + Cardinality({d \in 1..9 : omitted >= 10^d})
      chars == available + 26 + digits
  IN  IF target <= 0 \/ item.tokens <= target \/ available <= 0 \/ item.chars <= available THEN item
      ELSE [item EXCEPT !.level = "Summary", !.chars = chars, !.tokens = Ceil4(chars)]

\* The items of the list, best first, where they are equal in their order.
ByPriority(list) ==
  LET before(i, j) == list[i].priority > list[j].priority \/ (list[i].priority = list[j].priority /\ i < j)
      places == Sorted(DOMAIN list, before)
  IN  [i \in DOMAIN places |-> list[places[i]]]

Include(sel, item, cost) == [sel EXCEPT !.included = Append(@, item), !.used = @ + cost]

Charge(sel, item) ==
  LET cost       == ResponseItemCost(item)
      remaining  == sel.budget - sel.used
      target     == remaining - (cost - item.tokens)
      compressed == Compress(item, target)
      less       == ResponseItemCost(compressed)
  IN  IF cost <= remaining THEN Include(sel, item, cost)
      ELSE IF remaining > 0 /\ target > 0 /\ less <= remaining THEN Include(sel, compressed, less)
      ELSE [sel EXCEPT !.excluded = Append(@, item)]

SelectWithCompression ==
  /\ stage = "select"
  /\ \E budget \in Budgets :
       selection' = FoldLeft(Charge, [included |-> <<>>, excluded |-> <<>>, used |-> 0, budget |-> budget],
                             ByPriority(items))
  /\ stage' = "answered"
  /\ UNCHANGED <<project, found>>
-----------------------------------------------------------------------------
InitPipeline ==
  /\ project \in Projects
  /\ stage = "symbols"
  /\ items = <<>>
  /\ matched = {}
  /\ order = <<>>
  /\ covered = {}
  /\ truncated = {}
  /\ selection = [included |-> <<>>, excluded |-> <<>>, used |-> 0, budget |-> 0]

NextPipeline ==
  \/ RetrieveSymbols
  \/ RetrieveDependencies
  \/ RetrieveFiles
  \/ RetrieveKeywords
  \/ RetrieveBackends
  \/ RelativeCutoff
  \/ SelectWithCompression

SpecPipeline == InitPipeline /\ [][NextPipeline]_pipelineVars
-----------------------------------------------------------------------------
Overlap(i, j) == i.file = j.file /\ i.first <= j.last /\ j.first <= i.last
ShowsLine(item, f, line) ==
  LET margin == IF item.source = "Custom" THEN 0 ELSE kWindow
  IN  item.file = f /\ item.first <= line + margin /\ line <= item.last + margin

\* The firewall: no item shows, names or is about a file outside the allowed
\* scope, an include edge on neither of its ends.
InScope ==
  \A i \in DOMAIN items :
    /\ items[i].source \in {"Symbol", "File", "Dependency"} => Passes(items[i].file)
    /\ items[i].id[1] = "keyword" => Passes(items[i].file)
    /\ items[i].source = "Dependency" => Passes(items[i].id[3])

\* What the symbols, file names and lines of text bring repeats no line of one
\* another, whatever the order in which they are found, but in four cases: a
\* definition inside another; a body that was cut; the whole file of a keyword
\* hit, which may repeat definitions and windows, and windows it; and what
\* the backends offer, which may repeat any of these.  No case lets a file
\* that was sent whole for its symbols or its name be sent again: neither a
\* hit nor a backend brings lines of it.
NoLineTwice ==
  \A i, j \in DOMAIN items :
    i < j /\ Overlap(items[i], items[j]) =>
      /\ items[i].source # "File"
      /\ \/ items[i].source = "Symbol" /\ (items[i].cut \/ items[j].source = "Symbol")
         \/ items[j].source = "Custom" /\ (items[i].whole \/ items[j].whole)
         \/ items[j].offered

\* "Hits in the same file closer than a window apart merge into one snippet so
\* the same lines are never sent twice", and a hit in a small file brings the
\* file instead of the window: then the file is not brought a second time.
WholeFileOnce ==
  \A i, j \in DOMAIN items :
    items[i].whole /\ items[j].whole /\ items[i].file = items[j].file => i = j

\* A match that the firewall allows is in the response, near to what is in it,
\* or the caller is told that there was more.  Exempt: lines of files that do
\* not decode, and symbols of such files if they are small (of two of them the
\* second is taken to be in a file that was sent).
NothingVanishes ==
  stage = "backends" =>
    /\ "symbol" \notin truncated =>
         \A s \in Pooled \cup Joined :
           Passes(s.file) /\ (WholeFileFor(s.file) => HasContent(s.file)) =>
             \E i \in DOMAIN items : \/ items[i].id = <<"symbol", s.file, s.name>>
                                     \/ items[i].file = s.file /\ items[i].whole
    /\ "keyword" \notin truncated =>
         \A h \in Lines :
           Passes(h.file) /\ HasContent(h.file) =>
             \E i \in DOMAIN items : ShowsLine(items[i], h.file, h.line) \/ (items[i].file = h.file /\ items[i].cut)

AddCost(sum, item) == sum + ResponseItemCost(item)

\* What is included fits into the budget at its size in the response, also
\* what was shortened, and every item is either included or listed as omitted.
BudgetIsKept ==
  stage = "answered" =>
    /\ FoldLeft(AddCost, 0, selection.included) = selection.used
    /\ selection.used <= selection.budget
    /\ \A i \in DOMAIN items :
         \E list \in {selection.included, selection.excluded} : \E j \in DOMAIN list : list[j].id = items[i].id

\* A response is what may be sent, fits, and has every line found, once but
\* for the cases that NoLineTwice names.
ResponseIsSound == InScope /\ BudgetIsKept /\ NoLineTwice /\ NothingVanishes
=============================================================================
