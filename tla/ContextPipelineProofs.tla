----------------------- MODULE ContextPipelineProofs -----------------------
(***************************************************************************)
(* The context a question is answered with is sound, for every project,    *)
(* every limit and every budget.                                           *)
(*                                                                         *)
(* The sources add to one list, each by a fold over what it found: what a  *)
(* fold keeps is proved of one step and of the order in which it sees its  *)
(* elements (FoldFacts).  The invariant of the pipeline says of the list   *)
(* that its items are well formed, that no line is shown twice, that what  *)
(* is noted as covered is shown, that the symbols are shown once they were *)
(* retrieved and the lines with a hit once those were, and that what was   *)
(* selected is within the budget.                                          *)
(***************************************************************************)
EXTENDS ContextPipeline, FiniteSetTheorems, TLAPS

Specificities(t, sum) == sum + TokenSpecificity(t)

Sums == INSTANCE FoldFacts WITH Op <- Specificities

Files == ToSet(project.path)
Project == project \in Projects
-----------------------------------------------------------------------------
(* Numbers. *)

\* What the provers need of a project.
LEMMA ProjectFacts ==
  ASSUME Project
  PROVE  /\ project.path \in Seq(Files) /\ IsInjective(project.path) /\ IsFiniteSet(Files)
         /\ project.scanned \subseteq Files /\ project.allowed \subseteq Files
         /\ \A f \in Files : project.lines[f] \in Nat /\ project.includes[f] \in Seq(Files)
         /\ IsFiniteSet(project.symbols) /\ IsFiniteSet(project.hits) /\ IsFiniteSet(Tokens)
<1>1. /\ project.path \in Seq(Files) /\ IsInjective(project.path)
      /\ project.scanned \cup project.small \cup project.text \cup project.tests \cup project.allowed \subseteq Files
      /\ \A f \in Files : project.lines[f] \in Nat /\ project.includes[f] \in Seq(Files)
      /\ IsFiniteSet(project.symbols) /\ IsFiniteSet(project.hits) /\ IsFiniteSet(Tokens)
  BY ProjectsAreProjects DEF Project, Files, Tokens
<1>2. IsFiniteSet(Files)
  <2>1. project.path \in Surjection(1..Len(project.path), Files)
    BY <1>1 DEF Surjection, Files, ToSet
  <2>2. IsFiniteSet(1..Len(project.path))
    <3>1. 1 \in Int /\ Len(project.path) \in Int
      BY <1>1
    <3> QED BY <3>1, FS_Interval
  <2> QED BY <2>1, <2>2, FS_Surjection
<1> QED BY <1>1, <1>2

\* Clamp stays within its bounds and leaves what is within them.
LEMMA ClampIs ==
  ASSUME NEW n \in Int, NEW low \in Int, NEW high \in Int
  PROVE  /\ Clamp(n, low, high) \in Int
         /\ low <= high => /\ low <= Clamp(n, low, high) /\ Clamp(n, low, high) <= high
                           /\ low <= n /\ n <= high => Clamp(n, low, high) = n
BY DEF Clamp

\* A quotient rounded up is a number.
LEMMA Ceil4Is ==
  ASSUME NEW n \in Int
  PROVE  Ceil4(n) \in Int
BY DEF Ceil4

\* The weights of a file are numbers, and so is a priority they are added to.
LEMMA WeightsAreNumbers ==
  ASSUME Project, NEW f
  PROVE  /\ FileAffinity(f) \in Int /\ TestPenalty(f) \in Int /\ ActiveFileBias(f) \in Int
         /\ \A p \in Int : Biased(p, f) \in Int
<1>1. Cardinality({t \in Tokens : FilePathScore(f, t) > 0}) \in Nat
  <2>1. {t \in Tokens : FilePathScore(f, t) > 0} \in SUBSET Tokens
    OBVIOUS
  <2> QED BY <2>1, ProjectFacts, FS_Subset, FS_CardinalityType
<1>2. FileAffinity(f) \in Int
  <2> DEFINE n == Cardinality({t \in Tokens : FilePathScore(f, t) > 0}) - 1
  <2>1. n \in Int
    BY <1>1
  <2> HIDE DEF n
  <2>2. Clamp(n, 0, 2) \in Int
    BY <2>1, ClampIs
  <2>3. FileAffinity(f) = IF f \in project.scanned THEN 12 * Clamp(n, 0, 2) ELSE 0
    BY DEF FileAffinity, n
  <2> QED BY <2>2, <2>3
<1>3. TestPenalty(f) \in Int /\ ActiveFileBias(f) \in Int
  BY DEF TestPenalty, ActiveFileBias
<1>4. ASSUME NEW p \in Int PROVE Biased(p, f) \in Int
  <2>1. p + ActiveFileBias(f) \in Int
    BY <1>3
  <2> QED BY <2>1, ClampIs DEF Biased
<1> QED BY <1>2, <1>3, <1>4

\* The greatest of some numbers is one.
LEMMA GreatestIsNumber ==
  ASSUME NEW S, IsFiniteSet(S), S # {}, S \subseteq Int
  PROVE  Max(S) \in Int /\ Max(S) \in S /\ \A x \in S : x <= Max(S)
<1>1. S \in SUBSET Int
  OBVIOUS
<1>2. Sums!Max(S) \in S /\ \A x \in S : x <= Sums!Max(S)
  BY <1>1, Sums!GreatestOf DEF Sums!IsFiniteSet, IsFiniteSet
<1>3. Sums!Max(S) = Max(S)
  BY DEF Sums!Max, Max
<1> QED BY <1>2, <1>3

\* What an operator gives for the elements of a finite set is finite.
LEMMA ImageIsFinite ==
  ASSUME NEW S, IsFiniteSet(S), NEW g, DOMAIN g = S
  PROVE  IsFiniteSet({g[x] : x \in S})
<1> DEFINE T == {g[x] : x \in S}
           h == [x \in S |-> g[x]]
<1>1. h \in Surjection(S, T)
  BY DEF Surjection
<1> QED BY <1>1, FS_Surjection

\* The specificity of a token is a number.
LEMMA SpecificityIsNumber ==
  ASSUME Project, NEW t \in Tokens
  PROVE  TokenSpecificity(t) \in Int
<1> DEFINE n == Cardinality(DOMAIN project.matches[t])
           D == {d \in 1..n : SpecificMatches * 2^d <= n}
<1>1. n \in Nat
  <2>1. DOMAIN project.matches[t] \in SUBSET project.symbols
    BY ProjectsAreProjects DEF Project, Tokens
  <2> QED BY <2>1, ProjectFacts, FS_Subset, FS_CardinalityType
<1>2. Cardinality(D) \in Nat
  <2> HIDE DEF n
  <2>1. IsFiniteSet(1..n) /\ D \in SUBSET (1..n)
    BY <1>1, FS_Interval
  <2> QED BY <2>1, FS_Subset, FS_CardinalityType
<1>3. TokenSpecificity(t) = Clamp(100 - 15 * Cardinality(D), 30, 100)
  BY DEF TokenSpecificity
<1> HIDE DEF D
<1>4. 100 - 15 * Cardinality(D) \in Int
  BY <1>2
<1> QED BY <1>3, <1>4, ClampIs

\* Among the matches of a symbol.
LEMMA MergedAreNumbers ==
  ASSUME Project, NEW s \in Pooled
  PROVE  Merged(s) \in [score : Int, tokens : Nat \ {0}, specificity : Int]
<1> DEFINE by == {t \in Tokens : s \in DOMAIN project.matches[t]}
<1>1. by # {} /\ IsFiniteSet(by) /\ Cardinality(by) \in Nat \ {0}
  <2>1. by # {} /\ by \in SUBSET Tokens
    BY DEF Pooled
  <2>2. IsFiniteSet(by)
    BY <2>1, ProjectFacts, FS_Subset
  <2> QED BY <2>1, <2>2, FS_EmptySet, FS_CardinalityType
<1>2. ASSUME NEW t \in by PROVE Weighted(s, t) \in Int /\ TokenSpecificity(t) \in Int
  <2>1. project.matches[t][s] \in Nat /\ TokenSpecificity(t) \in Int
    BY SpecificityIsNumber, ProjectsAreProjects DEF Project, Tokens
  <2> QED BY <2>1 DEF Weighted
<1>3. Max({Weighted(s, t) : t \in by}) \in Int
  <2> DEFINE g == [t \in by |-> Weighted(s, t)]
  <2>1. {Weighted(s, t) : t \in by} = {g[t] : t \in by}
    OBVIOUS
  <2>2. {g[t] : t \in by} \subseteq Int /\ {g[t] : t \in by} # {} /\ IsFiniteSet({g[t] : t \in by})
    <3>1. IsFiniteSet({g[t] : t \in by})
      <4>1. DOMAIN g = by
        OBVIOUS
      <4> HIDE DEF g, by
      <4> QED BY <1>1, <4>1, ImageIsFinite
    <3> QED BY <1>1, <1>2, <3>1
  <2> HIDE DEF g, by
  <2> QED BY <2>1, <2>2, GreatestIsNumber
<1>4. FoldSet(LAMBDA t, sum : sum + TokenSpecificity(t), 0, by) \in Int
  <2>1. \A t \in by, sum \in Int : Specificities(t, sum) \in Int
    BY <1>2 DEF Specificities
  <2> HIDE DEF by
  <2>2. Sums!FoldSet(Specificities, 0, by) \in Int
    <3>1. Sums!IsFiniteSet(by)
      BY <1>1 DEF Sums!IsFiniteSet, IsFiniteSet
    <3>2. 0 \in Int
      OBVIOUS
    <3> QED BY <2>1, <3>1, <3>2, Sums!FoldSetIn
  <2>3. Sums!FoldSet(Specificities, 0, by) = FoldSet(LAMBDA t, sum : sum + TokenSpecificity(t), 0, by)
    BY DEF Sums!FoldSet, FoldSet, Sums!MapThenFoldSet, MapThenFoldSet, Specificities
  <2> QED BY <2>2, <2>3
<1> QED BY <1>1, <1>3, <1>4 DEF Merged

\* The matches of a search are symbols of the index, and ranked by numbers.
LEMMA RanksAreNumbers ==
  ASSUME Project, NEW bringer \in [Joined -> Pooled], \A s \in Joined : bringer[s] \in BringersOf(s),
         NEW s \in Pooled \cup Joined
  PROVE  SymbolRank(s, Entry(s, bringer)) \in Int /\ s \in project.symbols
<1> DEFINE own == Merged(IF s \in Pooled THEN s ELSE bringer[s])
           S == {own.score} \cup {Merged(v).score : v \in BringersOf(s)}
           entry == Entry(s, bringer)
<1>1. own \in [score : Int, tokens : Nat \ {0}, specificity : Int]
  <2>1. (IF s \in Pooled THEN s ELSE bringer[s]) \in Pooled
    OBVIOUS
  <2> HIDE DEF own
  <2> QED BY <2>1, MergedAreNumbers DEF own
<1>2. Pooled \subseteq project.symbols /\ s \in project.symbols
  <2>1. Pooled \subseteq project.symbols
    BY ProjectsAreProjects DEF Pooled, Tokens, Project
  <2> QED BY <2>1 DEF Joined
<1> HIDE DEF own
<1>3. Max(S) \in Int
  <2> DEFINE g == [v \in BringersOf(s) |-> Merged(v).score]
             T == {g[v] : v \in BringersOf(s)}
  <2>1. IsFiniteSet(BringersOf(s)) /\ BringersOf(s) \subseteq Pooled
    <3>1. BringersOf(s) \in SUBSET project.symbols
      BY <1>2 DEF BringersOf
    <3> QED BY <3>1, ProjectFacts, FS_Subset DEF BringersOf
  <2>2. IsFiniteSet(T) /\ T = {Merged(v).score : v \in BringersOf(s)}
    <3>1. DOMAIN g = BringersOf(s) /\ T = {Merged(v).score : v \in BringersOf(s)}
      OBVIOUS
    <3> HIDE DEF g
    <3>2. IsFiniteSet({g[v] : v \in BringersOf(s)})
      BY <2>1, <3>1, ImageIsFinite
    <3> QED BY <3>1, <3>2
  <2>3. IsFiniteSet(S)
    <3> HIDE DEF T
    <3>1. S = T \cup {own.score}
      BY <2>2
    <3> HIDE DEF S
    <3> QED BY <2>2, <3>1, FS_AddElement
  <2>4. S \subseteq Int /\ S # {}
    BY <1>1, <2>1, MergedAreNumbers
  <2> HIDE DEF S
  <2> QED BY <2>3, <2>4, GreatestIsNumber
<1>4. entry.score \in Int /\ entry.tokens \in Nat \ {0} /\ entry.specificity \in Int
  <2>1. entry = [own EXCEPT !.score = Max(S)]
    BY DEF Entry, own
  <2> HIDE DEF S, entry
  <2> QED BY <1>1, <1>3, <2>1
<1> HIDE DEF entry
<1>5. SymbolPriority(entry.score) \in Int
  <2>0. \A n \in Int : Clamp(n, 40, 105) \in Int
    BY DEF Clamp
  <2>1. Clamp(entry.score, 40, 105) \in Int
    BY <1>4, <2>0
  <2> DEFINE c == Clamp(entry.score, 40, 105)
  <2>2. SymbolPriority(entry.score) = 35 + ((c - 40) * 50) \div 65
    BY DEF SymbolPriority
  <2> HIDE DEF c
  <2>3. (c - 40) * 50 \in Int
    BY <2>1 DEF c
  <2>4. ((c - 40) * 50) \div 65 \in Int
    BY <2>3
  <2> QED BY <2>2, <2>4
<1>6. (10 * (entry.tokens - 1) * entry.specificity) \div (100 * entry.tokens) \in Int
  <2>1. 10 * (entry.tokens - 1) * entry.specificity \in Int
    BY <1>4
  <2>2. 100 * entry.tokens \in Int /\ 100 * entry.tokens > 0
    BY <1>4
  <2> QED BY <2>1, <2>2
<1>7. \A n \in Int : Clamp(n, 35, 85) \in Int
  BY ClampIs
<1> QED BY <1>2, <1>5, <1>6, <1>7, WeightsAreNumbers DEF SymbolRank, entry

Symbols == INSTANCE FoldFacts WITH Op <- TakeSymbol

-----------------------------------------------------------------------------
(* Items and lists of them. *)

IsList(list) == \E T : list \in Seq(T)

Sources == {"Symbol", "File", "Dependency", "Custom", "GitDiff"}
Levels == {"Raw", "Symbol", "Summary", "Reference"}
IsItem(item) ==
  item \in [id : {item.id}, source : Sources, level : Levels, file : {item.file}, first : Nat \ {0}, last : Int,
            whole : BOOLEAN, cut : BOOLEAN, offered : BOOLEAN, priority : Int, chars : Int, tokens : Int]

\* What an item of each source is.
LinesOf(s) == IF s.kind = "Function" THEN 120 ELSE 40

IsSymbolOf(item, s) ==
  /\ Passes(s.file) /\ item.id = <<"symbol", s.file, s.name>> /\ item.file = s.file /\ ~item.whole
  /\ HasBody(s) => item.cut = (Clamp(s.last, 0, project.lines[s.file]) > s.first + LinesOf(s) - 1)
  /\ HasBody(s) => item.first = s.first /\ (~item.cut => item.last = Clamp(s.last, 0, project.lines[s.file]))
  /\ ~HasBody(s) => item.first = 1 /\ item.last = 0 /\ ~item.cut

IsSymbol(item) == \E s \in project.symbols : IsSymbolOf(item, s)

IsFile(item) ==
  /\ Passes(item.file) /\ item.id = <<"file", item.file>> /\ ~item.cut
  /\ IF item.offered THEN item.first <= item.last
     ELSE item.first = 1 /\ item.last = IF item.whole THEN project.lines[item.file] ELSE 0

IsDependency(item) ==
  /\ \E g : Passes(g) /\ item.id = <<"dependency", item.file, g>>
  /\ Passes(item.file) /\ item.first = 1 /\ item.last = 0 /\ ~item.whole /\ ~item.cut

IsKeyword(item) == item.source = "Custom" /\ Passes(item.file) /\ \E n : item.id = <<"keyword", item.file, n>>

IsOffer(item) == item.id = <<"backend", item.file>> /\ item.first = 1 /\ item.last = 0 /\ ~item.whole

Proper(item) ==
  /\ IsItem(item)
  /\ item.source = "Symbol" => IsSymbol(item)
  /\ item.source = "File" => IsFile(item)
  /\ item.source = "Dependency" => IsDependency(item)
  /\ item.source \in {"Custom", "GitDiff"} => IsKeyword(item) \/ IsOffer(item)

ProperList(list) == IsList(list) /\ \A i \in DOMAIN list : Proper(list[i])

\* A list with one more item, or the same list.
LEMMA AppendList ==
  ASSUME NEW list, IsList(list), NEW item
  PROVE  /\ IsList(Append(list, item)) /\ Len(list) \in Nat /\ DOMAIN list = 1..Len(list)
         /\ DOMAIN Append(list, item) = 1..(Len(list) + 1)
         /\ \A i \in DOMAIN list : Append(list, item)[i] = list[i]
         /\ Append(list, item)[Len(list) + 1] = item
<1>1. PICK S : list \in Seq(S)
  BY DEF IsList
<1> DEFINE T == S \cup {item}
           more == Append(list, item)
<1>2. list \in Seq(T) /\ item \in T /\ more \in Seq(T)
  BY <1>1
<1> HIDE DEF T
<1>3. /\ Len(list) \in Nat /\ DOMAIN list = 1..Len(list) /\ Len(more) = Len(list) + 1
      /\ DOMAIN more = 1..(Len(list) + 1) /\ more[Len(list) + 1] = item
      /\ \A i \in DOMAIN list : more[i] = list[i]
  BY <1>2
<1> QED BY <1>2, <1>3 DEF IsList

\* AddItem keeps what is there, and adds an item with a new id.
LEMMA AddItemAdds ==
  ASSUME NEW list, IsList(list), NEW item
  PROVE  /\ IsList(AddItem(list, item))
         /\ Len(list) \in Nat /\ DOMAIN list = 1..Len(list)
         /\ DOMAIN list \subseteq DOMAIN AddItem(list, item)
         /\ \A i \in DOMAIN list : AddItem(list, item)[i] = list[i]
         /\ \/ AddItem(list, item) = list /\ \E i \in DOMAIN list : list[i].id = item.id
            \/ /\ DOMAIN AddItem(list, item) = 1..(Len(list) + 1)
               /\ AddItem(list, item)[Len(list) + 1] = item
               /\ \A i \in DOMAIN list : list[i].id # item.id
<1>1. CASE \E i \in DOMAIN list : list[i].id = item.id
  BY <1>1, AppendList DEF AddItem
<1>2. CASE \A i \in DOMAIN list : list[i].id # item.id
  <2>1. AddItem(list, item) = Append(list, item)
    BY <1>2 DEF AddItem
  <2>2. DOMAIN list \subseteq 1..(Len(list) + 1)
    BY AppendList
  <2> QED BY <1>2, <2>1, <2>2, AppendList
<1> QED BY <1>1, <1>2

\* What is proper stays so.
LEMMA AddProper ==
  ASSUME NEW list, ProperList(list), NEW item, Proper(item)
  PROVE  ProperList(AddItem(list, item))
<1>1. IsList(list)
  BY DEF ProperList
<1>2. \A i \in DOMAIN AddItem(list, item) :
        AddItem(list, item)[i] = item \/ (i \in DOMAIN list /\ AddItem(list, item)[i] = list[i])
  <2>1. Len(list) \in Nat
    BY <1>1, AddItemAdds
  <2>2. \A i \in 1..(Len(list) + 1) : i \in 1..Len(list) \/ i = Len(list) + 1
    BY <2>1
  <2> DEFINE more == AddItem(list, item)
  <2>3. /\ DOMAIN list = 1..Len(list) /\ \A i \in DOMAIN list : more[i] = list[i]
        /\ more = list \/ (DOMAIN more = 1..(Len(list) + 1) /\ more[Len(list) + 1] = item)
    BY <1>1, AddItemAdds
  <2> HIDE DEF more
  <2> SUFFICES \A i \in DOMAIN more : more[i] = item \/ (i \in DOMAIN list /\ more[i] = list[i])
    BY DEF more
  <2> QED BY <2>2, <2>3
<1> QED BY <1>1, <1>2, AddItemAdds DEF ProperList

-----------------------------------------------------------------------------
\* The lines of an item.
LEMMA ShowsIs ==
  ASSUME NEW id, NEW source \in Sources, NEW level \in Levels, NEW f, NEW first \in Nat \ {0}, NEW last \in Int,
         NEW priority \in Int
  PROVE  LET item == Shows(id, source, level, f, first, last, priority)
         IN  /\ IsItem(item) /\ item.id = id /\ item.source = source /\ item.level = level /\ item.file = f
             /\ item.first = first /\ item.last = last /\ ~item.whole /\ ~item.cut /\ ~item.offered /\ item.priority = priority
<1> DEFINE item == Shows(id, source, level, f, first, last, priority)
           n == Clamp(last - first + 1, 0, last)
<1>1. n \in Int
  BY DEF Clamp
<1> HIDE DEF n
<1>2. 30 + 40 * n \in Int /\ Ceil4(30 + 40 * n) \in Int
  BY <1>1, Ceil4Is
<1>3. item = [id |-> id, source |-> source, level |-> level, file |-> f, first |-> first, last |-> last,
              whole |-> FALSE, cut |-> FALSE, offered |-> FALSE, priority |-> priority, chars |-> 30 + 40 * n, tokens |-> Ceil4(30 + 40 * n)]
  BY DEF Shows, n
<1> HIDE DEF item
<1>4. IsItem(item)
  BY <1>2, <1>3 DEF IsItem
<1> QED BY <1>3, <1>4 DEF item

\* The range of a slice.
SliceOf(slice, item, f, first, last, max) ==
  /\ IsItem(slice) /\ slice.id = item.id /\ slice.source = item.source /\ slice.file = f
  /\ slice.level = item.level /\ slice.priority = item.priority
  /\ slice.first = first /\ ~slice.whole
  /\ slice.cut = (Clamp(last, 0, project.lines[f]) > first + max - 1)
  /\ slice.last = Clamp(Clamp(last, 0, project.lines[f]), 0, first + max - 1)

\* A slice of a file.
LEMMA SliceIs ==
  ASSUME NEW item, IsItem(item), NEW f, project.lines[f] \in Nat, NEW first \in Nat \ {0}, NEW last \in Int, NEW max \in Nat
  PROVE  SliceOf(SliceLines(item, f, first, last, max), item, f, first, last, max)
<1> DEFINE end == Clamp(last, 0, project.lines[f])
           to == Clamp(end, 0, first + max - 1)
           shown == Shows(item.id, item.source, item.level, f, first, to, item.priority)
<1>1. end \in Int /\ to \in Int
  BY DEF Clamp
<1> HIDE DEF end, to
<1>2. item.source \in Sources /\ item.level \in Levels /\ item.priority \in Int
  BY DEF IsItem
<1>3. /\ IsItem(shown) /\ shown.id = item.id /\ shown.source = item.source /\ shown.level = item.level /\ shown.file = f
      /\ shown.first = first /\ shown.last = to /\ ~shown.whole /\ shown.priority = item.priority
  BY <1>1, <1>2, ShowsIs
<1>4. SliceLines(item, f, first, last, max) = [shown EXCEPT !.cut = end > first + max - 1]
  BY DEF SliceLines, end, to
<1> HIDE DEF shown
<1> DEFINE slice == SliceLines(item, f, first, last, max)
           cut == end > first + max - 1
<1>5. cut \in BOOLEAN
  OBVIOUS
<1>6. slice = [shown EXCEPT !.cut = cut]
  BY <1>4
<1> HIDE DEF slice, cut
<1>7. /\ IsItem(slice) /\ slice.id = shown.id /\ slice.source = shown.source /\ slice.file = shown.file
      /\ slice.level = shown.level /\ slice.priority = shown.priority /\ slice.first = shown.first
      /\ slice.last = shown.last /\ slice.whole = shown.whole /\ slice.cut = cut
  BY <1>3, <1>5, <1>6 DEF IsItem
<1> QED BY <1>3, <1>7 DEF SliceOf, slice, cut, end, to

\* The item of a symbol.
LEMMA SymbolIsProper ==
  ASSUME Project, NEW s \in project.symbols, Passes(s.file), NEW p \in Int
  PROVE  LET item == AttachDefinitionBody(MakeSymbolItem(s, p), s)
         IN  Proper(item) /\ item.source = "Symbol" /\ item.id = <<"symbol", s.file, s.name>> /\ item.file = s.file
<1> DEFINE made == MakeSymbolItem(s, p)
           raw == [made EXCEPT !.level = "Raw"]
           max == LinesOf(s)
           item == AttachDefinitionBody(made, s)
<1>1. /\ IsItem(made) /\ made.id = <<"symbol", s.file, s.name>> /\ made.source = "Symbol" /\ made.file = s.file
      /\ made.first = 1 /\ made.last = 0 /\ ~made.whole /\ ~made.cut
  <2>1. "Symbol" \in Sources /\ "Symbol" \in Levels /\ 1 \in Nat \ {0} /\ 0 \in Int
    BY DEF Sources, Levels
  <2>2. MakeSymbolItem(s, p) = Shows(<<"symbol", s.file, s.name>>, "Symbol", "Symbol", s.file, 1, 0, p)
    BY DEF MakeSymbolItem
  <2> HIDE DEF made
  <2> QED BY <2>1, <2>2, ShowsIs DEF made
<1> HIDE DEF made
<1>2. IsItem(raw) /\ raw.id = made.id /\ raw.source = made.source
  <2>1. "Raw" \in Levels
    BY DEF Levels
  <2> QED BY <1>1, <2>1 DEF IsItem
<1>3. project.lines[s.file] \in Nat /\ s.first \in Nat /\ s.last \in Nat
  BY ProjectsAreProjects DEF Project
<1> HIDE DEF raw
<1>4. CASE HasBody(s)
  <2>1. s.first \in Nat \ {0} /\ s.first <= project.lines[s.file] /\ s.last >= s.first
    BY <1>3, <1>4 DEF HasBody
  <2>2. item = SliceLines(raw, s.file, s.first, s.last, max)
    BY <1>4 DEF AttachDefinitionBody, raw, LinesOf
  <2>3. max \in Nat
    BY DEF LinesOf
  <2> HIDE DEF item, max
  <2> DEFINE end == Clamp(s.last, 0, project.lines[s.file])
  <2>4. /\ IsItem(item) /\ item.id = raw.id /\ item.source = raw.source /\ item.file = s.file
        /\ item.first = s.first /\ ~item.whole /\ item.cut = (end > s.first + max - 1)
        /\ item.last = Clamp(end, 0, s.first + max - 1)
    <3>1. SliceOf(item, raw, s.file, s.first, s.last, max)
      BY <1>2, <1>3, <2>1, <2>2, <2>3, SliceIs
    <3> QED BY <3>1 DEF SliceOf
  <2>5. end \in Int /\ end >= 0
    BY <1>3 DEF Clamp
  <2> HIDE DEF end
  <2>6. ~item.cut => item.last = end
    <3> DEFINE high == s.first + max - 1
    <3>1. high \in Int /\ (end <= high => Clamp(end, 0, high) = end)
      BY <1>3, <2>3, <2>5 DEF Clamp
    <3>2. item.cut = (end > high) /\ item.last = Clamp(end, 0, high)
      BY <2>4
    <3> HIDE DEF high
    <3>3. ~(end > high) => end <= high
      BY <2>5, <3>1
    <3> QED BY <3>1, <3>2, <3>3
  <2>7. IsSymbol(item)
    <3>1. /\ Passes(s.file) /\ item.id = <<"symbol", s.file, s.name>> /\ item.file = s.file /\ ~item.whole
          /\ item.first = s.first /\ (~item.cut => item.last = Clamp(s.last, 0, project.lines[s.file]))
          /\ item.cut = (Clamp(s.last, 0, project.lines[s.file]) > s.first + LinesOf(s) - 1)
      BY <1>1, <1>2, <2>4, <2>6 DEF end, max
    <3>2. IsSymbolOf(item, s)
      BY <1>4, <3>1 DEF IsSymbolOf
    <3> QED BY <3>2 DEF IsSymbol
  <2> QED BY <1>1, <1>2, <2>4, <2>7 DEF Proper, item, made
<1>5. CASE ~HasBody(s)
  <2>1. item = made
    BY <1>5 DEF AttachDefinitionBody
  <2> HIDE DEF item
  <2>2. IsSymbol(item)
    <3>1. /\ Passes(s.file) /\ item.id = <<"symbol", s.file, s.name>> /\ item.file = s.file /\ ~item.whole
          /\ item.first = 1 /\ item.last = 0 /\ ~item.cut
      BY <1>1, <2>1
    <3>2. IsSymbolOf(item, s)
      BY <1>5, <3>1 DEF IsSymbolOf
    <3> QED BY <3>2 DEF IsSymbol
  <2> QED BY <1>1, <2>1, <2>2 DEF Proper, item, made
<1> QED BY <1>4, <1>5

\* The item of a file, in full and by its name.
LEMMA FileIsProper ==
  ASSUME Project, NEW f \in Files, Passes(f), NEW p \in Int, NEW inline \in BOOLEAN
  PROVE  LET item == MakeFileItem(f, p, inline)
         IN  /\ Proper(item) /\ item.source = "File" /\ item.id = <<"file", f>> /\ item.file = f
             /\ item.whole = inline /\ ~item.offered
<1> DEFINE lines == project.lines[f]
           whole == Shows(<<"file", f>>, "File", "Raw", f, 1, lines, p)
           item == MakeFileItem(f, p, inline)
<1>1. lines \in Nat
  BY ProjectFacts
<1> HIDE DEF lines
<1>2. /\ IsItem(whole) /\ whole.id = <<"file", f>> /\ whole.source = "File" /\ whole.file = f
      /\ whole.first = 1 /\ whole.last = lines /\ ~whole.whole /\ ~whole.cut /\ ~whole.offered
  <2>1. "File" \in Sources /\ "Raw" \in Levels /\ 1 \in Nat \ {0} /\ lines \in Int
    BY <1>1 DEF Sources, Levels
  <2> QED BY <2>1, ShowsIs
<1>3. item = IF inline THEN [whole EXCEPT !.whole = TRUE] ELSE [whole EXCEPT !.first = 1, !.last = 0, !.chars = 0]
  BY DEF MakeFileItem, lines
<1> HIDE DEF whole, item
<1>4. /\ IsItem(item) /\ item.id = <<"file", f>> /\ item.source = "File" /\ item.file = f /\ item.first = 1
      /\ ~item.cut /\ ~item.offered /\ item.whole = inline /\ item.last = IF item.whole THEN lines ELSE 0
  <2>1. CASE inline
    BY <1>1, <1>2, <1>3, <2>1 DEF IsItem
  <2>2. CASE ~inline
    <3>1. item = [whole EXCEPT !.first = 1, !.last = 0, !.chars = 0]
      BY <1>3, <2>2
    <3> DEFINE c == 30 + 40 * Clamp(lines - 1 + 1, 0, lines)
    <3>2. whole = [id |-> <<"file", f>>, source |-> "File", level |-> "Raw", file |-> f, first |-> 1, last |-> lines,
                   whole |-> FALSE, cut |-> FALSE, offered |-> FALSE, priority |-> p, chars |-> c, tokens |-> Ceil4(c)]
      BY DEF Shows, whole
    <3>3. Ceil4(c) \in Int
      <4>1. c \in Int
        BY <1>1 DEF Clamp
      <4> HIDE DEF c
      <4> QED BY <4>1, Ceil4Is
    <3> HIDE DEF c
    <3>4. item = [id |-> <<"file", f>>, source |-> "File", level |-> "Raw", file |-> f, first |-> 1, last |-> 0,
                  whole |-> FALSE, cut |-> FALSE, offered |-> FALSE, priority |-> p, chars |-> 0, tokens |-> Ceil4(c)]
      BY <3>1, <3>2
    <3>5. IsItem(item)
      BY <3>3, <3>4 DEF IsItem, Sources, Levels
    <3> QED BY <2>2, <3>4, <3>5
  <2> QED BY <2>1, <2>2
<1>5. IsFile(item)
  BY <1>4 DEF IsFile, lines
<1> QED BY <1>4, <1>5 DEF Proper, item

WholeFile(f, p) == MakeFileItem(f, p, TRUE)
FileName(f, p) == MakeFileItem(f, p, FALSE)

\* The item of a whole file shows all of its lines.
LEMMA WholeFileIs ==
  ASSUME Project, NEW f \in Files, Passes(f), NEW p \in Int
  PROVE  LET item == WholeFile(f, p)
         IN  /\ Proper(item) /\ item.source = "File" /\ item.id = <<"file", f>> /\ item.file = f /\ item.whole
             /\ item.first = 1 /\ item.last = project.lines[f] /\ ~item.cut
<1>1. TRUE \in BOOLEAN
  OBVIOUS
<1>2. /\ Proper(WholeFile(f, p)) /\ WholeFile(f, p).source = "File" /\ WholeFile(f, p).id = <<"file", f>>
      /\ WholeFile(f, p).file = f /\ WholeFile(f, p).whole = TRUE /\ ~WholeFile(f, p).offered
  BY <1>1, FileIsProper DEF WholeFile
<1> QED BY <1>2 DEF Proper, IsFile

\* The item of a file without its text shows none.
LEMMA FileNameIs ==
  ASSUME Project, NEW f \in Files, Passes(f), NEW p \in Int
  PROVE  LET item == FileName(f, p)
         IN  /\ Proper(item) /\ item.source = "File" /\ item.id = <<"file", f>> /\ item.file = f
             /\ item.first = 1 /\ item.last = 0
<1>1. FALSE \in BOOLEAN
  OBVIOUS
<1>2. /\ Proper(FileName(f, p)) /\ FileName(f, p).source = "File" /\ FileName(f, p).id = <<"file", f>>
      /\ FileName(f, p).file = f /\ FileName(f, p).whole = FALSE /\ ~FileName(f, p).offered
  BY <1>1, FileIsProper DEF FileName
<1> QED BY <1>2 DEF Proper, IsFile

\* The item of an include edge.
LEMMA DependencyIsProper ==
  ASSUME Project, NEW f, Passes(f), NEW g, Passes(g)
  PROVE  LET item == MakeDependencyItem(f, g)
         IN  Proper(item) /\ item.source = "Dependency" /\ item.file = f
<1> DEFINE shown == Shows(<<"dependency", f, g>>, "Dependency", "Reference", f, 1, 0, Biased(35, f))
           item == MakeDependencyItem(f, g)
<1>1. /\ IsItem(shown) /\ shown.id = <<"dependency", f, g>> /\ shown.source = "Dependency" /\ shown.file = f
      /\ shown.first = 1 /\ shown.last = 0 /\ ~shown.whole /\ ~shown.cut
  <2>1. "Dependency" \in Sources /\ "Reference" \in Levels /\ 1 \in Nat \ {0} /\ 0 \in Int
    BY DEF Sources, Levels
  <2>2. Biased(35, f) \in Int
    <3>1. 35 \in Int
      OBVIOUS
    <3> QED BY <3>1, WeightsAreNumbers
  <2> QED BY <2>1, <2>2, ShowsIs
<1>2. item = [shown EXCEPT !.tokens = 5]
  BY DEF MakeDependencyItem
<1> HIDE DEF item, shown
<1>3. /\ IsItem(item) /\ item.id = <<"dependency", f, g>> /\ item.source = "Dependency" /\ item.file = f
      /\ item.first = 1 /\ item.last = 0 /\ ~item.whole /\ ~item.cut
  BY <1>1, <1>2 DEF IsItem
<1>4. IsDependency(item)
  BY <1>3 DEF IsDependency
<1> QED BY <1>3, <1>4 DEF Proper, item

-----------------------------------------------------------------------------
(* Lists that show no line twice, and what covers what. *)

Extends(more, list) == DOMAIN list \subseteq DOMAIN more /\ \A i \in DOMAIN list : more[i] = list[i]

Apart(one, other) ==
  Overlap(one, other) =>
    /\ one.source # "File"
    /\ \/ one.source = "Symbol" /\ (one.cut \/ other.source = "Symbol")
       \/ other.source = "Custom" /\ (one.whole \/ other.whole)
       \/ other.offered

Clear(list) == \A i, j \in DOMAIN list : i < j => Apart(list[i], list[j])

Covers(span, item) ==
  /\ span.file = item.file /\ span.first <= item.first /\ item.last <= span.last
  /\ item.source = "File" => span.first = 1 /\ span.last = project.lines[span.file]
Reaches(item, span) ==
  /\ item.source # "Custom" /\ item.file = span.file /\ item.first <= span.first
  /\ span.last <= item.last \/ project.lines[span.file] <= item.last

\* Every definition and file that is shown in full is covered, and what is
\* covered is shown.
Covering(list, spans) ==
  /\ \A r \in spans : r.first \in Int /\ r.last \in Int /\ \E i \in DOMAIN list : Reaches(list[i], r)
  /\ \A i \in DOMAIN list :
       list[i].source \in {"Symbol", "File"} /\ ~list[i].cut /\ list[i].first <= list[i].last =>
         \E r \in spans : Covers(r, list[i])

Added(list, item, more) ==
  /\ ProperList(more) /\ Extends(more, list)
  /\ \E i \in DOMAIN more : more[i].id = item.id
  /\ \A i \in DOMAIN more : (i \in DOMAIN list /\ more[i] = list[i]) \/ more[i] = item
  /\ (\A i \in DOMAIN list : list[i].id # item.id) => \E i \in DOMAIN more : more[i] = item

\* AddItem keeps what was there and adds the item, unless its id is there.
LEMMA AddExtends ==
  ASSUME NEW list, ProperList(list), NEW item, Proper(item)
  PROVE  Added(list, item, AddItem(list, item))
<1> DEFINE more == AddItem(list, item)
           n == Len(list)
<1>1. ProperList(more) /\ IsList(list)
  BY AddProper DEF ProperList
<1>2. /\ n \in Nat /\ DOMAIN list = 1..n /\ DOMAIN list \subseteq DOMAIN more
      /\ \A i \in DOMAIN list : more[i] = list[i]
      /\ \/ more = list /\ \E i \in DOMAIN list : list[i].id = item.id
         \/ DOMAIN more = 1..(n + 1) /\ more[n + 1] = item /\ \A i \in DOMAIN list : list[i].id # item.id
  BY <1>1, AddItemAdds
<1> HIDE DEF more, n
<1>3. n + 1 \in 1..(n + 1) /\ \A i \in 1..(n + 1) : i \in 1..n \/ i = n + 1
  BY <1>2
<1>4. Extends(more, list)
  BY <1>2 DEF Extends
<1>5. \E i \in DOMAIN more : more[i].id = item.id
  BY <1>2, <1>3
<1>6. \A i \in DOMAIN more : (i \in DOMAIN list /\ more[i] = list[i]) \/ more[i] = item
  BY <1>2, <1>3
<1>7. (\A i \in DOMAIN list : list[i].id # item.id) => \E i \in DOMAIN more : more[i] = item
  BY <1>2, <1>3
<1> QED BY <1>1, <1>4, <1>5, <1>6, <1>7 DEF Added, more

\* A list stays clear with an item that is apart from all of it.
LEMMA AddClear ==
  ASSUME NEW list, ProperList(list), Clear(list), NEW item, \A i \in DOMAIN list : Apart(list[i], item)
  PROVE  Clear(AddItem(list, item))
<1> DEFINE more == AddItem(list, item)
           n == Len(list)
<1>1. IsList(list)
  BY DEF ProperList
<1>2. /\ n \in Nat /\ DOMAIN list = 1..n /\ \A i \in DOMAIN list : more[i] = list[i]
      /\ more = list \/ (DOMAIN more = 1..(n + 1) /\ more[n + 1] = item)
  BY <1>1, AddItemAdds
<1> HIDE DEF more, n
<1>3. ASSUME NEW i \in DOMAIN more, NEW j \in DOMAIN more, i < j PROVE Apart(more[i], more[j])
  <2>1. CASE more = list
    BY <1>3, <2>1 DEF Clear
  <2>2. CASE DOMAIN more = 1..(n + 1) /\ more[n + 1] = item
    <3>1. i \in 1..n /\ (j \in 1..n \/ j = n + 1)
      BY <1>2, <1>3, <2>2
    <3> QED BY <1>2, <1>3, <2>2, <3>1 DEF Clear
  <2> QED BY <1>2, <2>1, <2>2
<1> QED BY <1>3 DEF Clear, more

\* What shows nothing is apart from everything.
LEMMA NothingIsApart ==
  ASSUME NEW one, IsItem(one), NEW other, other.first = 1, other.last = 0
  PROVE  Apart(one, other) /\ Apart(other, one)
<1>1. one.first \in Nat \ {0}
  BY DEF IsItem
<1>2. ~Overlap(one, other) /\ ~Overlap(other, one)
  BY <1>1 DEF Overlap
<1> QED BY <1>2 DEF Apart

\* What a list reaches, a longer one reaches.
LEMMA ExtendedReaches ==
  ASSUME NEW list, NEW more, Extends(more, list), NEW r, \E i \in DOMAIN list : Reaches(list[i], r)
  PROVE  \E i \in DOMAIN more : Reaches(more[i], r)
BY DEF Extends

-----------------------------------------------------------------------------
(* The fold over the symbols. *)

IsAcc(acc) ==
  acc \in [items : {acc.items}, matched : {acc.matched}, order : {acc.order}, covered : {acc.covered}, whole : {acc.whole}]

ShownSymbol(list, s) ==
  Passes(s.file) /\ (WholeFileFor(s.file) => HasContent(s.file)) =>
    \E i \in DOMAIN list : list[i].id = <<"symbol", s.file, s.name>> \/ (list[i].file = s.file /\ list[i].whole)

SymbolsSound(acc) ==
  /\ IsAcc(acc)
  /\ ProperList(acc.items) /\ Clear(acc.items) /\ Covering(acc.items, acc.covered)
  /\ acc.whole \subseteq acc.matched /\ acc.matched \subseteq project.allowed /\ acc.order \in Seq(acc.matched)
  /\ \A i \in DOMAIN acc.items :
       /\ acc.items[i].file \in acc.matched
       /\ \/ acc.items[i].source = "Symbol" /\ acc.items[i].file \notin acc.whole
          \/ acc.items[i].source = "File" /\ acc.items[i].file \in acc.whole
  /\ \A f \in acc.whole : \E i \in DOMAIN acc.items : acc.items[i].file = f /\ acc.items[i].whole
  /\ \A f \in acc.matched : WholeFileFor(f) /\ HasContent(f) =>
       f \in acc.whole \/ ~(Cardinality(acc.whole) < kMaxWholeFiles)

BodyOf(s, p) == AttachDefinitionBody(MakeSymbolItem(s, Biased(p, s.file)), s)
Skips(acc, s) ==
  \/ s.file \in acc.whole
  \/ Cardinality(acc.whole) < kMaxWholeFiles /\ WholeFileFor(s.file) /\ s.file \in acc.matched
Brings(acc, s) == Cardinality(acc.whole) < kMaxWholeFiles /\ WholeFileFor(s.file) /\ HasContent(s.file)

\* What becomes of the results with one more symbol.
Takes(acc, s, p, next) ==
  /\ IsAcc(next)
  /\ ~Passes(s.file) => next = acc
  /\ Passes(s.file) =>
       /\ next.matched = acc.matched \cup {s.file}
       /\ next.order = IF s.file \notin acc.matched THEN Append(acc.order, s.file) ELSE acc.order
       /\ Skips(acc, s) => next.items = acc.items /\ next.covered = acc.covered /\ next.whole = acc.whole
       /\ ~Skips(acc, s) /\ Brings(acc, s) =>
            /\ next.whole = acc.whole \cup {s.file}
            /\ next.covered = acc.covered \cup {Span(s.file, 1, project.lines[s.file])}
            /\ next.items = AddItem(acc.items, WholeFile(s.file, Biased(p, s.file)))
       /\ ~Skips(acc, s) /\ ~Brings(acc, s) =>
            /\ next.whole = acc.whole
            /\ next.covered = IF HasBody(s) /\ ~BodyOf(s, p).cut
                              THEN acc.covered \cup {Span(s.file, s.first, s.last)} ELSE acc.covered
            /\ next.items = AddItem(acc.items, BodyOf(s, p))

\* TakeSymbol is one of its three cases.
LEMMA TakeSymbolIs ==
  ASSUME NEW acc, IsAcc(acc), NEW s, NEW p
  PROVE  Takes(acc, s, p, TakeSymbol(acc, [symbol |-> s, priority |-> p]))
<1> DEFINE match == [symbol |-> s, priority |-> p]
           next == TakeSymbol(acc, match)
           first == s.file \notin acc.matched
           noted == [acc EXCEPT !.matched = @ \cup {s.file}, !.order = IF first THEN Append(@, s.file) ELSE @]
           bring == Cardinality(acc.whole) < kMaxWholeFiles /\ WholeFileFor(s.file)
           item == BodyOf(s, p)
           body == HasBody(s) /\ ~item.cut
           file == WholeFile(s.file, Biased(p, s.file))
<1>1. match.symbol = s /\ match.priority = p
  OBVIOUS
<1> HIDE DEF match
<1>2. next = IF ~Passes(s.file) THEN acc
             ELSE IF s.file \in acc.whole \/ (bring /\ ~first) THEN noted
             ELSE IF bring /\ HasContent(s.file)
             THEN [noted EXCEPT !.whole = @ \cup {s.file}, !.covered = @ \cup {Span(s.file, 1, project.lines[s.file])},
                                !.items = AddItem(@, file)]
             ELSE [noted EXCEPT !.covered = IF body THEN @ \cup {Span(s.file, s.first, s.last)} ELSE @,
                                !.items = AddItem(@, item)]
  BY <1>1 DEF TakeSymbol, BodyOf, WholeFile
<1>3. /\ IsAcc(noted) /\ noted.items = acc.items /\ noted.covered = acc.covered /\ noted.whole = acc.whole
      /\ noted.matched = acc.matched \cup {s.file}
      /\ noted.order = IF first THEN Append(acc.order, s.file) ELSE acc.order
  BY DEF IsAcc
<1> HIDE DEF next, noted, item, file, body
<1>4. CASE ~Passes(s.file)
  BY <1>2, <1>4 DEF next, match, Takes
<1>5. CASE Passes(s.file) /\ Skips(acc, s)
  <2>1. next = noted
    BY <1>2, <1>5 DEF Skips
  <2> QED BY <1>3, <1>5, <2>1 DEF next, match, Takes
<1>6. CASE Passes(s.file) /\ ~Skips(acc, s) /\ Brings(acc, s)
  <2>1. next = [noted EXCEPT !.whole = @ \cup {s.file}, !.covered = @ \cup {Span(s.file, 1, project.lines[s.file])},
                             !.items = AddItem(@, file)]
    BY <1>2, <1>6 DEF Skips, Brings
  <2>2. /\ IsAcc(next) /\ next.matched = noted.matched /\ next.order = noted.order
        /\ next.whole = noted.whole \cup {s.file}
        /\ next.covered = noted.covered \cup {Span(s.file, 1, project.lines[s.file])}
        /\ next.items = AddItem(noted.items, file)
    BY <1>3, <2>1 DEF IsAcc
  <2> QED BY <1>3, <1>6, <2>2 DEF next, match, Takes, file
<1>7. CASE Passes(s.file) /\ ~Skips(acc, s) /\ ~Brings(acc, s)
  <2>1. next = [noted EXCEPT !.covered = IF body THEN @ \cup {Span(s.file, s.first, s.last)} ELSE @,
                             !.items = AddItem(@, item)]
    BY <1>2, <1>7 DEF Skips, Brings
  <2>2. /\ IsAcc(next) /\ next.matched = noted.matched /\ next.order = noted.order
        /\ next.whole = noted.whole
        /\ next.covered = IF body THEN noted.covered \cup {Span(s.file, s.first, s.last)} ELSE noted.covered
        /\ next.items = AddItem(noted.items, item)
    BY <1>3, <2>1 DEF IsAcc
  <2> QED BY <1>3, <1>7, <2>2 DEF next, match, Takes, item, body
<1> QED BY <1>4, <1>5, <1>6, <1>7

\* The range of a symbol's item.
LEMMA BodyIs ==
  ASSUME Project, NEW s \in project.symbols, Passes(s.file), NEW p \in Int
  PROVE  LET item == BodyOf(s, p)
         IN  /\ Proper(item) /\ item.source = "Symbol" /\ item.id = <<"symbol", s.file, s.name>> /\ item.file = s.file
             /\ IsSymbolOf(item, s)
<1> DEFINE item == BodyOf(s, p)
<1>1. Biased(p, s.file) \in Int
  BY WeightsAreNumbers
<1>2. Proper(item) /\ item.source = "Symbol" /\ item.id = <<"symbol", s.file, s.name>> /\ item.file = s.file
  BY <1>1, SymbolIsProper DEF BodyOf
<1> HIDE DEF item
<1>3. PICK t \in project.symbols : IsSymbolOf(item, t)
  BY <1>2 DEF Proper, IsSymbol
<1>4. t.file = s.file /\ t.name = s.name
  BY <1>2, <1>3 DEF IsSymbolOf
<1>5. t = s
  BY <1>4, ProjectsAreProjects DEF Project
<1> QED BY <1>2, <1>3, <1>5 DEF item

\* The items of one symbol show the same lines.
LEMMA SameSymbol ==
  ASSUME Project, NEW item, Proper(item), NEW s \in project.symbols, item.id = <<"symbol", s.file, s.name>>,
         item.source \in {"Symbol", "File"}
  PROVE  item.source = "Symbol" /\ IsSymbolOf(item, s)
<1>1. item.source = "Symbol"
  BY DEF Proper, IsFile
<1>2. PICK t \in project.symbols : IsSymbolOf(item, t)
  BY <1>1 DEF Proper, IsSymbol
<1>3. t.file = s.file /\ t.name = s.name
  BY <1>2 DEF IsSymbolOf
<1>4. t = s
  BY <1>3, ProjectsAreProjects DEF Project
<1> QED BY <1>1, <1>2, <1>4

\* Anything with a body that is not cut reaches the symbol's lines.
LEMMA BodyReaches ==
  ASSUME Project, NEW s \in project.symbols, HasBody(s), NEW item, IsSymbolOf(item, s), ~item.cut, item.source = "Symbol"
  PROVE  /\ Reaches(item, Span(s.file, s.first, s.last)) /\ Covers(Span(s.file, s.first, s.last), item)
         /\ s.first \in Int /\ s.last \in Int
<1>1. s.first \in Nat /\ s.last \in Nat /\ project.lines[s.file] \in Nat
  BY ProjectsAreProjects DEF Project
<1>2. item.file = s.file /\ item.first = s.first /\ item.last = Clamp(s.last, 0, project.lines[s.file])
  BY DEF IsSymbolOf
<1>3. item.last <= s.last /\ (s.last <= item.last \/ project.lines[s.file] <= item.last)
  BY <1>1, <1>2 DEF Clamp
<1>4. s.first <= s.first
  BY <1>1
<1> QED BY <1>1, <1>2, <1>3, <1>4 DEF Reaches, Covers, Span

\* The firewall lets through finitely many files, all of the project.
LEMMA PassingIsFinite ==
  ASSUME Project
  PROVE  IsFiniteSet(project.allowed) /\ project.allowed \subseteq Files
BY ProjectFacts, FS_Subset

\* One more element makes no set smaller.
LEMMA CardinalityGrows ==
  ASSUME NEW S, IsFiniteSet(S), NEW x
  PROVE  Cardinality(S) \in Nat /\ Cardinality(S \cup {x}) \in Nat /\ Cardinality(S) <= Cardinality(S \cup {x})
<1>1. IsFiniteSet(S \cup {x}) /\ S \in SUBSET (S \cup {x})
  BY FS_AddElement
<1> QED BY <1>1, FS_Subset, FS_CardinalityType

\* A list with one more item, and what covers it.
Adds(list, item, more, spans) ==
  /\ Added(list, item, more) /\ Clear(more) /\ Covering(more, spans)

\* The item of a file is in it.
AddsFile(list, f, item, more, spans) ==
  /\ Adds(list, item, more, spans \cup {Span(f, 1, project.lines[f])})
  /\ \E i \in DOMAIN more : more[i] = item
  /\ item.source = "File" /\ item.file = f /\ item.whole

\* A file that no item is about, in full.
LEMMA WholeFileKeeps ==
  ASSUME Project, NEW list, ProperList(list), Clear(list), NEW spans, Covering(list, spans),
         NEW f \in Files, Passes(f), NEW p \in Int, \A i \in DOMAIN list : list[i].file # f,
         NEW file, file = WholeFile(f, p)
  PROVE  AddsFile(list, f, file, AddItem(list, file), spans)
<1> DEFINE more == AddItem(list, file)
           span == Span(f, 1, project.lines[f])
           wider == spans \cup {span}
<1>1. Proper(file) /\ file.source = "File" /\ file.id = <<"file", f>> /\ file.file = f /\ file.whole
  BY WholeFileIs
<1>2. file.first = 1 /\ file.last = project.lines[f] /\ ~file.cut /\ project.lines[f] \in Nat
  BY WholeFileIs, ProjectFacts
<1>3. \A i \in DOMAIN list : list[i].id # file.id
  <2> SUFFICES ASSUME NEW i \in DOMAIN list, list[i].id = <<"file", f>> PROVE list[i].file = f
    BY <1>1
  <2>1. Proper(list[i])
    BY DEF ProperList
  <2>2. list[i].source \in Sources
    BY <2>1 DEF Proper, IsItem
  <2>3. list[i].source = "File"
    BY <2>1, <2>2 DEF Proper, IsSymbol, IsSymbolOf, IsDependency, IsKeyword, IsOffer, Sources
  <2>4. list[i].id = <<"file", list[i].file>>
    BY <2>1, <2>3 DEF Proper, IsFile
  <2> QED BY <2>4
<1>4. /\ Added(list, file, more) /\ ProperList(more) /\ Extends(more, list)
      /\ \A i \in DOMAIN more : (i \in DOMAIN list /\ more[i] = list[i]) \/ more[i] = file
      /\ \E i \in DOMAIN more : more[i] = file
  <2>1. Added(list, file, more)
    BY <1>1, AddExtends
  <2> HIDE DEF more
  <2> QED BY <1>3, <2>1 DEF Added
<1>5. Clear(more)
  <2>1. \A i \in DOMAIN list : Apart(list[i], file)
    BY <1>1 DEF Apart, Overlap
  <2> QED BY <2>1, AddClear
<1> HIDE DEF more
<1>6. Covering(more, wider)
  <2>1. span.first = 1 /\ span.last = project.lines[f] /\ span.file = f
    BY DEF Span
  <2> HIDE DEF span
  <2>2. Reaches(file, span) /\ Covers(span, file) /\ span.first \in Int /\ span.last \in Int
    <3>1. file.first = 1 /\ file.last = span.last /\ file.file = span.file /\ span.last \in Int
      BY <1>1, <1>2, <2>1
    <3>2. file.source # "Custom" /\ 1 <= 1 /\ span.last <= span.last
      BY <1>1, <3>1
    <3> QED BY <2>1, <3>1, <3>2 DEF Reaches, Covers
  <2>3. ASSUME NEW r \in wider
        PROVE  r.first \in Int /\ r.last \in Int /\ \E i \in DOMAIN more : Reaches(more[i], r)
    <3>1. CASE r \in spans
      BY <1>4, <3>1, ExtendedReaches DEF Covering
    <3>2. CASE r = span
      BY <1>4, <2>2, <3>2
    <3> QED BY <2>3, <3>1, <3>2
  <2>4. ASSUME NEW i \in DOMAIN more, more[i].source \in {"Symbol", "File"}, ~more[i].cut, more[i].first <= more[i].last
        PROVE  \E r \in wider : Covers(r, more[i])
    <3>1. CASE i \in DOMAIN list /\ more[i] = list[i]
      <4>1. \E r \in spans : Covers(r, list[i])
        BY <2>4, <3>1 DEF Covering
      <4> QED BY <3>1, <4>1
    <3>2. CASE more[i] = file
      BY <2>2, <3>2
    <3> QED BY <1>4, <3>1, <3>2
  <2> HIDE DEF wider
  <2> QED BY <2>3, <2>4 DEF Covering
<1> QED BY <1>1, <1>4, <1>5, <1>6 DEF AddsFile, Adds, more

\* One symbol of the list.
LEMMA TakeSymbolKeeps ==
  ASSUME Project, NEW acc, SymbolsSound(acc), NEW s \in project.symbols, NEW p \in Int
  PROVE  LET next == TakeSymbol(acc, [symbol |-> s, priority |-> p])
         IN  SymbolsSound(next) /\ Extends(next.items, acc.items) /\ ShownSymbol(next.items, s)
<1> DEFINE next == TakeSymbol(acc, [symbol |-> s, priority |-> p])
           f == s.file
           body == BodyOf(s, p)
           file == WholeFile(f, Biased(p, f))
<1>1. /\ IsAcc(acc)
      /\ ProperList(acc.items) /\ Clear(acc.items) /\ Covering(acc.items, acc.covered)
      /\ acc.whole \subseteq acc.matched /\ acc.matched \subseteq project.allowed /\ acc.order \in Seq(acc.matched)
      /\ \A i \in DOMAIN acc.items :
           /\ acc.items[i].file \in acc.matched
           /\ \/ acc.items[i].source = "Symbol" /\ acc.items[i].file \notin acc.whole
              \/ acc.items[i].source = "File" /\ acc.items[i].file \in acc.whole
      /\ \A g \in acc.whole : \E i \in DOMAIN acc.items : acc.items[i].file = g /\ acc.items[i].whole
      /\ \A g \in acc.matched : WholeFileFor(g) /\ HasContent(g) =>
           g \in acc.whole \/ ~(Cardinality(acc.whole) < kMaxWholeFiles)
  BY DEF SymbolsSound
<1>0. IsAcc(acc)
  BY <1>1
<1>a. Takes(acc, s, p, next)
  BY <1>0, TakeSymbolIs
<1>2. /\ IsAcc(next)
      /\ ~Passes(f) => next = acc
      /\ Passes(f) =>
           /\ next.matched = acc.matched \cup {f}
           /\ next.order = IF f \notin acc.matched THEN Append(acc.order, f) ELSE acc.order
           /\ Skips(acc, s) => next.items = acc.items /\ next.covered = acc.covered /\ next.whole = acc.whole
           /\ ~Skips(acc, s) /\ Brings(acc, s) =>
                /\ next.whole = acc.whole \cup {f}
                /\ next.covered = acc.covered \cup {Span(f, 1, project.lines[f])}
                /\ next.items = AddItem(acc.items, file)
           /\ ~Skips(acc, s) /\ ~Brings(acc, s) =>
                /\ next.whole = acc.whole
                /\ next.covered = IF HasBody(s) /\ ~body.cut
                                  THEN acc.covered \cup {Span(f, s.first, s.last)} ELSE acc.covered
                /\ next.items = AddItem(acc.items, body)
  BY <1>a DEF Takes, body, file
<1> HIDE DEF next, body, file
<1>3. Passes(f) => next.order \in Seq(next.matched)
  <2> SUFFICES ASSUME Passes(f) PROVE next.order \in Seq(next.matched)
    OBVIOUS
  <2>1. acc.order \in Seq(acc.matched \cup {f}) /\ f \in acc.matched \cup {f}
    BY <1>1
  <2>2. Append(acc.order, f) \in Seq(acc.matched \cup {f})
    BY <2>1
  <2> QED BY <1>2, <2>1, <2>2
<1>4. f \in Files /\ project.lines[f] \in Nat
  BY ProjectFacts, ProjectsAreProjects DEF Project, Files
<1>5. IsFiniteSet(acc.whole)
  BY <1>1, PassingIsFinite, FS_Subset
<1>6. CASE ~Passes(f)
  <2>1. next = acc /\ ShownSymbol(acc.items, s) /\ Extends(acc.items, acc.items)
    BY <1>2, <1>6 DEF ShownSymbol, Extends
  <2> QED BY <2>1 DEF next
<1>7. CASE Passes(f) /\ Skips(acc, s)
  <2>1. next.items = acc.items /\ next.covered = acc.covered /\ next.whole = acc.whole
        /\ next.matched = acc.matched \cup {f}
    BY <1>2, <1>7
  <2>2. next.matched \subseteq project.allowed /\ next.whole \subseteq next.matched
    BY <1>1, <1>7, <2>1 DEF Passes
  <2>3. \A g \in next.matched : WholeFileFor(g) /\ HasContent(g) =>
          g \in next.whole \/ ~(Cardinality(next.whole) < kMaxWholeFiles)
    BY <1>1, <1>7, <2>1 DEF Skips
  <2>4. SymbolsSound(next)
    BY <1>1, <1>2, <1>3, <1>7, <2>1, <2>2, <2>3 DEF SymbolsSound
  <2>5. ShownSymbol(next.items, s)
    BY <1>1, <1>7, <2>1 DEF ShownSymbol, Skips
  <2> QED BY <2>1, <2>4, <2>5 DEF next, Extends
<1>8. CASE Passes(f) /\ ~Skips(acc, s) /\ Brings(acc, s)
  <2>1. /\ next.whole = acc.whole \cup {f} /\ next.matched = acc.matched \cup {f}
        /\ next.covered = acc.covered \cup {Span(f, 1, project.lines[f])}
        /\ next.items = AddItem(acc.items, file)
    BY <1>2, <1>8
  <2>2. f \notin acc.matched
    BY <1>8 DEF Skips, Brings
  <2>3. \A i \in DOMAIN acc.items : acc.items[i].file # f
    BY <1>1, <2>2
  <2>4. Biased(p, f) \in Int
    BY WeightsAreNumbers
  <2>5. /\ ProperList(next.items) /\ Clear(next.items) /\ Covering(next.items, next.covered)
        /\ Extends(next.items, acc.items)
        /\ \A i \in DOMAIN next.items : (i \in DOMAIN acc.items /\ next.items[i] = acc.items[i]) \/ next.items[i] = file
        /\ \E i \in DOMAIN next.items : next.items[i] = file
        /\ file.source = "File" /\ file.file = f /\ file.whole
    <3> DEFINE q == Biased(p, f)
    <3>1. q \in Int /\ file = WholeFile(f, q) /\ f \in Files /\ Passes(f)
      BY <1>4, <1>8, <2>4 DEF file
    <3>2. ProperList(acc.items) /\ Clear(acc.items) /\ Covering(acc.items, acc.covered)
      BY <1>1
    <3> HIDE DEF q, f
    <3>3. AddsFile(acc.items, f, file, AddItem(acc.items, file), acc.covered)
      BY <2>3, <3>1, <3>2, WholeFileKeeps
    <3> QED BY <2>1, <3>3 DEF AddsFile, Adds, Added
  <2>6. \A i \in DOMAIN next.items :
           /\ next.items[i].file \in next.matched
           /\ \/ next.items[i].source = "Symbol" /\ next.items[i].file \notin next.whole
              \/ next.items[i].source = "File" /\ next.items[i].file \in next.whole
    BY <1>1, <2>1, <2>3, <2>5
  <2>7. \A g \in next.whole : \E i \in DOMAIN next.items : next.items[i].file = g /\ next.items[i].whole
    BY <1>1, <2>1, <2>5 DEF Extends
  <2>8. \A g \in next.matched : WholeFileFor(g) /\ HasContent(g) =>
           g \in next.whole \/ ~(Cardinality(next.whole) < kMaxWholeFiles)
    <3>0. /\ Cardinality(acc.whole) \in Nat /\ Cardinality(next.whole) \in Nat
          /\ Cardinality(acc.whole) <= Cardinality(next.whole)
      BY <1>5, <2>1, CardinalityGrows
    <3>1. Cardinality(next.whole) < kMaxWholeFiles => Cardinality(acc.whole) < kMaxWholeFiles
      BY <3>0 DEF kMaxWholeFiles
    <3> QED BY <1>1, <2>1, <3>1
  <2>9. next.matched \subseteq project.allowed /\ next.whole \subseteq next.matched
    BY <1>1, <1>8, <2>1 DEF Passes
  <2>10. SymbolsSound(next)
    BY <1>2, <1>3, <1>8, <2>5, <2>6, <2>7, <2>8, <2>9 DEF SymbolsSound
  <2>11. ShownSymbol(next.items, s)
    BY <2>5 DEF ShownSymbol
  <2> QED BY <2>5, <2>10, <2>11 DEF next
<1>9. CASE Passes(f) /\ ~Skips(acc, s) /\ ~Brings(acc, s)
  <2>1. /\ next.whole = acc.whole /\ next.matched = acc.matched \cup {f}
        /\ next.covered = IF HasBody(s) /\ ~body.cut THEN acc.covered \cup {Span(f, s.first, s.last)} ELSE acc.covered
        /\ next.items = AddItem(acc.items, body)
    BY <1>2, <1>9
  <2>2. f \notin acc.whole
    BY <1>9 DEF Skips
  <2>3. Proper(body) /\ body.source = "Symbol" /\ body.id = <<"symbol", s.file, s.name>> /\ body.file = f
        /\ IsSymbolOf(body, s)
    BY <1>9, BodyIs DEF body
  <2>4. /\ ProperList(next.items) /\ Extends(next.items, acc.items)
        /\ \A i \in DOMAIN next.items : (i \in DOMAIN acc.items /\ next.items[i] = acc.items[i]) \/ next.items[i] = body
        /\ \E i \in DOMAIN next.items : next.items[i].id = body.id
        /\ (\A i \in DOMAIN acc.items : acc.items[i].id # body.id) => \E i \in DOMAIN next.items : next.items[i] = body
    <3>1. Added(acc.items, body, next.items)
      BY <1>1, <2>1, <2>3, AddExtends
    <3> QED BY <3>1 DEF Added
  <2>5. Clear(next.items)
    <3>1. ASSUME NEW i \in DOMAIN acc.items PROVE Apart(acc.items[i], body)
      <4>1. CASE acc.items[i].source = "Symbol"
        BY <2>3, <4>1 DEF Apart
      <4>2. CASE acc.items[i].file \in acc.whole
        BY <2>2, <2>3, <4>2 DEF Apart, Overlap
      <4> QED BY <1>1, <4>1, <4>2
    <3> QED BY <1>1, <2>1, <3>1, AddClear
  <2>6. \A i \in DOMAIN next.items :
           /\ next.items[i].file \in next.matched
           /\ \/ next.items[i].source = "Symbol" /\ next.items[i].file \notin next.whole
              \/ next.items[i].source = "File" /\ next.items[i].file \in next.whole
    BY <1>1, <2>1, <2>2, <2>3, <2>4
  <2>7. Covering(next.items, next.covered)
    <3> DEFINE span == Span(f, s.first, s.last)
    <3> HIDE DEF span
    <3>1. PICK k \in DOMAIN next.items : next.items[k].id = body.id
      BY <2>4
    <3>2. next.items[k].source = "Symbol" /\ IsSymbolOf(next.items[k], s)
      <4>1. Proper(next.items[k]) /\ next.items[k].source \in {"Symbol", "File"}
        BY <2>4, <2>6 DEF ProperList
      <4> QED BY <2>3, <3>1, <4>1, SameSymbol
    <3>3. ASSUME HasBody(s), ~body.cut
          PROVE  /\ span.first \in Int /\ span.last \in Int /\ Covers(span, body)
                 /\ Reaches(next.items[k], span)
      <4>1. s.first \in Int /\ s.last \in Int /\ Covers(span, body)
        BY <2>3, <3>3, BodyReaches DEF span
      <4>2. ~next.items[k].cut
        BY <2>3, <3>2, <3>3 DEF IsSymbolOf
      <4>3. Reaches(next.items[k], span)
        BY <3>2, <3>3, <4>2, BodyReaches DEF span
      <4> QED BY <4>1, <4>3 DEF span, Span
    <3>4. acc.covered \subseteq next.covered
      BY <2>1
    <3>5. ASSUME NEW r \in next.covered
          PROVE  r.first \in Int /\ r.last \in Int /\ \E i \in DOMAIN next.items : Reaches(next.items[i], r)
      <4>1. CASE r \in acc.covered
        BY <1>1, <2>4, <4>1, ExtendedReaches DEF Covering
      <4>2. CASE r \notin acc.covered
        <5>1. HasBody(s) /\ ~body.cut /\ r = span
          BY <2>1, <3>5, <4>2 DEF span
        <5> QED BY <3>3, <5>1
      <4> QED BY <4>1, <4>2
    <3>6. ASSUME NEW i \in DOMAIN next.items, next.items[i].source \in {"Symbol", "File"}, ~next.items[i].cut,
                 next.items[i].first <= next.items[i].last
          PROVE  \E r \in next.covered : Covers(r, next.items[i])
      <4>1. CASE i \in DOMAIN acc.items /\ next.items[i] = acc.items[i]
        <5>1. \E r \in acc.covered : Covers(r, acc.items[i])
          BY <1>1, <3>6, <4>1 DEF Covering
        <5> QED BY <3>4, <4>1, <5>1
      <4>2. CASE next.items[i] = body
        <5>1. HasBody(s)
          <6>1. ~HasBody(s) => body.first = 1 /\ body.last = 0
            BY <2>3 DEF IsSymbolOf
          <6> QED BY <3>6, <4>2, <6>1
        <5>2. span \in next.covered
          BY <2>1, <3>6, <4>2, <5>1 DEF span
        <5> QED BY <3>3, <3>6, <4>2, <5>1, <5>2
      <4> QED BY <2>4, <4>1, <4>2
    <3> QED BY <3>5, <3>6 DEF Covering
  <2>8. \A g \in next.whole : \E i \in DOMAIN next.items : next.items[i].file = g /\ next.items[i].whole
    BY <1>1, <2>1, <2>4 DEF Extends
  <2>9. \A g \in next.matched : WholeFileFor(g) /\ HasContent(g) =>
           g \in next.whole \/ ~(Cardinality(next.whole) < kMaxWholeFiles)
    BY <1>1, <1>9, <2>1 DEF Brings
  <2>10. next.matched \subseteq project.allowed /\ next.whole \subseteq next.matched
    BY <1>1, <1>9, <2>1 DEF Passes
  <2>11. SymbolsSound(next)
    BY <1>2, <1>3, <1>9, <2>4, <2>5, <2>6, <2>7, <2>8, <2>9, <2>10 DEF SymbolsSound
  <2>12. ShownSymbol(next.items, s)
    BY <2>3, <2>4 DEF ShownSymbol
  <2> QED BY <2>4, <2>11, <2>12 DEF next
<1> QED BY <1>6, <1>7, <1>8, <1>9

-----------------------------------------------------------------------------
(* Rankings and their first elements. *)

\* The elements of a set in some order.
Orders(list, S) ==
  /\ list \in Seq(S)
  /\ \A i, j \in 1..Len(list) : list[i] = list[j] => i = j
  /\ \A x \in S : \E i \in 1..Len(list) : list[i] = x

\* A ranking lists what is ranked, each once.
LEMMA RankingIs ==
  ASSUME NEW rank, IsFiniteSet(DOMAIN rank), NEW ranking \in Rankings(rank)
  PROVE  Orders(ranking, DOMAIN rank)
<1> DEFINE S == DOMAIN rank
           n == Cardinality(S)
<1> HIDE DEF S
<1>1. IsFiniteSet(S) /\ n \in Nat
  BY FS_CardinalityType DEF S
<1>2. ranking \in SetToSeqs(S)
  BY DEF Rankings, S
<1>3. ranking \in [1..n -> S] /\ \A i, j \in 1..n : i # j => ranking[i] # ranking[j]
  BY <1>2 DEF SetToSeqs
<1> HIDE DEF n
<1>4. ranking \in Seq(S) /\ Len(ranking) = n
  BY <1>1, <1>3
<1>5. \A x \in S : \E i \in 1..n : ranking[i] = x
  <2>1. ranking \in Injection(1..n, S)
    BY <1>3 DEF Injection, IsInjective
  <2>2. IsFiniteSet(1..n) /\ Cardinality(1..n) = n
    BY <1>1, FS_Interval
  <2>3. ranking \in Surjection(1..n, S)
    BY <1>1, <2>1, <2>2, FS_Injection DEF n
  <2> QED BY <2>3 DEF Surjection
<1> QED BY <1>3, <1>4, <1>5 DEF Orders, S

\* FirstOf is a beginning of the list, all of it when that is short enough.
LEMMA FirstOfIs ==
  ASSUME NEW T, NEW list \in Seq(T), NEW max \in Nat
  PROVE  /\ FirstOf(list, max) \in Seq(T) /\ Len(FirstOf(list, max)) \in 0..Len(list)
         /\ \A i \in 1..Len(FirstOf(list, max)) : FirstOf(list, max)[i] = list[i]
         /\ Len(list) <= max => Len(FirstOf(list, max)) = Len(list)
<1> DEFINE n == Clamp(Len(list), 0, max)
<1>1. n \in 0..Len(list) /\ (Len(list) <= max => n = Len(list))
  BY DEF Clamp
<1> HIDE DEF n
<1>2. /\ SubSeq(list, 1, n) \in Seq(T) /\ Len(SubSeq(list, 1, n)) = n
      /\ \A i \in 1..n : SubSeq(list, 1, n)[i] = list[i]
  BY <1>1
<1> QED BY <1>1, <1>2 DEF FirstOf, n

-----------------------------------------------------------------------------
\* What was shown stays shown.
LEMMA ShownStays ==
  ASSUME NEW list, NEW more, Extends(more, list), NEW s, ShownSymbol(list, s)
  PROVE  ShownSymbol(more, s)
BY DEF ShownSymbol, Extends

\* A fold over the symbols is sound and leaves none of them out.
LEMMA SymbolsFold ==
  ASSUME Project, NEW seq \in Seq([symbol : project.symbols, priority : Int])
  PROVE  LET start == [items |-> <<>>, matched |-> {}, order |-> <<>>, covered |-> {}, whole |-> {}]
             end == FoldLeft(TakeSymbol, start, seq)
         IN  SymbolsSound(end) /\ \A i \in DOMAIN seq : ShownSymbol(end.items, seq[i].symbol)
<1> DEFINE start == [items |-> <<>>, matched |-> {}, order |-> <<>>, covered |-> {}, whole |-> {}]
           end == FoldLeft(TakeSymbol, start, seq)
           T == [symbol : project.symbols, priority : Int]
           n == Len(seq)
<1>1. n \in Nat /\ DOMAIN seq = 1..n /\ seq \in Seq(T)
  OBVIOUS
<1>2. SymbolsSound(start)
  <2>1. IsAcc(start)
    BY DEF IsAcc
  <2>2. DOMAIN start.items = {} /\ start.items \in Seq({}) /\ start.order \in Seq({})
    OBVIOUS
  <2>3. start.matched = {} /\ start.covered = {} /\ start.whole = {}
    OBVIOUS
  <2> HIDE DEF start
  <2> QED BY <2>1, <2>2, <2>3 DEF SymbolsSound, ProperList, IsList, Clear, Covering
<1> HIDE DEF start, T
<1>3. PICK acc : Symbols!Runs(start, seq, acc) /\ Symbols!FoldLeft(TakeSymbol, start, seq) = acc[n]
  BY <1>1, Symbols!FoldRuns
<1>4. end = acc[n]
  BY <1>3 DEF Symbols!FoldLeft, FoldLeft, Symbols!MapThenFoldSet, MapThenFoldSet, Symbols!Max, Max
<1>5. acc[0] = start /\ \A i \in 0..n : i < n => acc[i + 1] = TakeSymbol(acc[i], seq[i + 1])
  BY <1>3 DEF Symbols!Runs
<1> DEFINE Done(i) == SymbolsSound(acc[i]) /\ \A k \in 1..i : ShownSymbol(acc[i].items, seq[k].symbol)
           S == {i \in 0..n : Done(i)}
<1>6. 0 \in S
  BY <1>1, <1>2, <1>5
<1>7. ASSUME NEW i \in 0..n, i < n, i \in S PROVE i + 1 \in S
  <2>1. i + 1 \in 1..n /\ i + 1 \in 0..n
    BY <1>1, <1>7
  <2>2. seq[i + 1] \in T
    BY <1>1, <2>1
  <2>3. /\ seq[i + 1].symbol \in project.symbols /\ seq[i + 1].priority \in Int
        /\ seq[i + 1] = [symbol |-> seq[i + 1].symbol, priority |-> seq[i + 1].priority]
    BY <2>2 DEF T
  <2>4. acc[i + 1] = TakeSymbol(acc[i], [symbol |-> seq[i + 1].symbol, priority |-> seq[i + 1].priority])
    BY <1>5, <1>7, <2>3
  <2>5. /\ SymbolsSound(acc[i + 1]) /\ Extends(acc[i + 1].items, acc[i].items)
        /\ ShownSymbol(acc[i + 1].items, seq[i + 1].symbol)
    BY <1>7, <2>3, <2>4, TakeSymbolKeeps
  <2>6. ASSUME NEW k \in 1..(i + 1) PROVE ShownSymbol(acc[i + 1].items, seq[k].symbol)
    <3>1. k \in 1..i \/ k = i + 1
      BY <1>7
    <3>2. CASE k \in 1..i
      BY <1>7, <2>5, <3>2, ShownStays
    <3> QED BY <2>5, <3>1, <3>2
  <2> QED BY <2>1, <2>5, <2>6
<1> HIDE DEF S
<1>8. n \in 0..n /\ \A i \in 0..n : i \in S
  <2>1. \A i \in 0..n : i < n /\ i \in S => i + 1 \in S
    BY <1>7
  <2>2. n \in Nat
    BY <1>1
  <2> HIDE DEF n
  <2>3. \A i \in 0..n : i \in S
    BY <1>6, <2>1, <2>2, Symbols!UpTo
  <2> QED BY <2>2, <2>3
<1>9. Done(n)
  BY <1>8 DEF S
<1> QED BY <1>1, <1>4, <1>9 DEF start

Dependencies == INSTANCE FoldFacts WITH Op <- AddDependency
ByPlace == INSTANCE FoldFacts WITH Op <- Sooner

AllShown(list) == \A s \in Pooled \cup Joined : ShownSymbol(list, s)

\* All sources but the index of lines and the backends know an item by file.
FoundByName(list, m, spans) ==
  /\ ProperList(list) /\ Clear(list) /\ Covering(list, spans)
  /\ \A i \in DOMAIN list : list[i].source \in {"Symbol", "File", "Dependency"} /\ list[i].file \in m

\* A function on 1..n is a list of n.
LEMMA FunctionIsList ==
  ASSUME NEW T, NEW n \in Nat, NEW g \in [1..n -> T]
  PROVE  g \in Seq(T) /\ Len(g) = n /\ DOMAIN g = 1..n
OBVIOUS

\* The symbols of a ranking, the best ones.
LEMMA SymbolsStage ==
  ASSUME Project, NEW rank, DOMAIN rank = Pooled \cup Joined,
         \A s \in Pooled \cup Joined : rank[s] \in Int /\ s \in project.symbols,
         NEW ranking \in Rankings(rank), NEW best, best = FirstOf(ranking, MaxSymbols)
  PROVE  LET start == [items |-> <<>>, matched |-> {}, order |-> <<>>, covered |-> {}, whole |-> {}]
             end == FoldLeft(TakeSymbol, start, [i \in DOMAIN best |-> [symbol |-> best[i], priority |-> rank[best[i]]]])
         IN  SymbolsSound(end) /\ (Len(ranking) <= MaxSymbols => AllShown(end.items))
<1> DEFINE S == Pooled \cup Joined
           start == [items |-> <<>>, matched |-> {}, order |-> <<>>, covered |-> {}, whole |-> {}]
           seq == [i \in DOMAIN best |-> [symbol |-> best[i], priority |-> rank[best[i]]]]
           end == FoldLeft(TakeSymbol, start, seq)
<1>1. \A s \in S : rank[s] \in Int /\ s \in project.symbols
  OBVIOUS
<1> HIDE DEF S
<1>2. DOMAIN rank = S /\ IsFiniteSet(S)
  <2>1. S \in SUBSET project.symbols /\ IsFiniteSet(project.symbols)
    BY <1>1, ProjectFacts
  <2> QED BY <2>1, FS_Subset DEF S
<1>3. /\ ranking \in Seq(S)
      /\ \A x \in S : \E i \in 1..Len(ranking) : ranking[i] = x
  <2>1. IsFiniteSet(DOMAIN rank)
    BY <1>2
  <2>2. Orders(ranking, DOMAIN rank)
    BY <2>1, RankingIs
  <2> QED BY <1>2, <2>2 DEF Orders
<1>4. MaxSymbols \in Nat
  BY CapsAreNumbers
<1>5. /\ best \in Seq(S) /\ Len(best) \in 0..Len(ranking) /\ \A i \in 1..Len(best) : best[i] = ranking[i]
      /\ Len(ranking) <= MaxSymbols => Len(best) = Len(ranking)
  BY <1>3, <1>4, FirstOfIs
<1>6. DOMAIN best = 1..Len(best) /\ Len(best) \in Nat /\ \A i \in 1..Len(best) : best[i] \in S
  BY <1>5
<1>7. seq \in Seq([symbol : project.symbols, priority : Int]) /\ DOMAIN seq = 1..Len(best)
      /\ \A i \in DOMAIN seq : seq[i].symbol = best[i]
  <2> DEFINE Match(i) == [symbol |-> best[i], priority |-> rank[best[i]]]
             T == [symbol : project.symbols, priority : Int]
  <2>1. seq = [i \in 1..Len(best) |-> Match(i)]
    BY <1>6
  <2>2. \A i \in 1..Len(best) : Match(i) \in T /\ Match(i).symbol = best[i]
    BY <1>1, <1>6
  <2> HIDE DEF seq, Match, T
  <2>3. seq \in [1..Len(best) -> T]
    BY <2>1, <2>2
  <2>4. \A i \in 1..Len(best) : seq[i].symbol = best[i]
    BY <2>1, <2>2
  <2> USE DEF T
  <2> HIDE DEF seq
  <2> QED BY <1>6, <2>3, <2>4, FunctionIsList
<1>8. SymbolsSound(end) /\ \A i \in DOMAIN seq : ShownSymbol(end.items, seq[i].symbol)
  <2> HIDE DEF seq
  <2> QED BY <1>7, SymbolsFold
<1> HIDE DEF end, seq
<1>9. ASSUME Len(ranking) <= MaxSymbols, NEW s \in S PROVE ShownSymbol(end.items, s)
  <2>1. PICK i \in 1..Len(ranking) : ranking[i] = s
    BY <1>3
  <2>2. i \in DOMAIN seq /\ seq[i].symbol = s
    BY <1>5, <1>7, <1>9, <2>1
  <2> QED BY <1>8, <2>2
<1> QED BY <1>8, <1>9 DEF end, seq, start, S, AllShown

\* An item that shows nothing.
LEMMA AddsNothing ==
  ASSUME NEW list, ProperList(list), Clear(list), NEW spans, Covering(list, spans),
         NEW item, Proper(item), item.first = 1, item.last = 0
  PROVE  Adds(list, item, AddItem(list, item), spans)
<1> DEFINE more == AddItem(list, item)
<1>1. Added(list, item, more)
  BY AddExtends
<1>2. Clear(more)
  <2>1. \A i \in DOMAIN list : IsItem(list[i])
    BY DEF ProperList, Proper
  <2>2. \A i \in DOMAIN list : Apart(list[i], item)
    BY <2>1, NothingIsApart
  <2> QED BY <2>2, AddClear
<1> HIDE DEF more
<1>3. Covering(more, spans)
  <2>1. Extends(more, list) /\ \A i \in DOMAIN more : (i \in DOMAIN list /\ more[i] = list[i]) \/ more[i] = item
    BY <1>1 DEF Added
  <2>2. ASSUME NEW r \in spans
        PROVE  r.first \in Int /\ r.last \in Int /\ \E i \in DOMAIN more : Reaches(more[i], r)
    BY <2>1, ExtendedReaches DEF Covering
  <2>3. ASSUME NEW i \in DOMAIN more, more[i].source \in {"Symbol", "File"}, ~more[i].cut, more[i].first <= more[i].last
        PROVE  \E r \in spans : Covers(r, more[i])
    <3>1. more[i] # item
      BY <2>3
    <3> QED BY <2>1, <2>3, <3>1 DEF Covering
  <2> QED BY <2>2, <2>3 DEF Covering
<1> QED BY <1>1, <1>2, <1>3 DEF Adds, more

-----------------------------------------------------------------------------
\* The edges, in the order of files and directives.
LEMMA EdgesAre ==
  ASSUME Project, NEW m, order \in Seq(m), m \subseteq project.allowed
  PROVE  Edges \in Seq({place \in Places : Passes(Included(place))})
<1> DEFINE P == {place \in Places : Passes(Included(place))}
           n == Len(order)
           To(i) == Len(project.includes[order[i]])
<1>1. n \in Nat /\ DOMAIN order = 1..n /\ \A i \in 1..n : To(i) \in Nat /\ DOMAIN project.includes[order[i]] = 1..To(i)
  <2>1. \A i \in 1..n : order[i] \in Files
    BY ProjectFacts
  <2>2. \A f \in Files : Len(project.includes[f]) \in Nat /\ DOMAIN project.includes[f] = 1..Len(project.includes[f])
    BY ProjectFacts
  <2> QED BY <2>1, <2>2
<1>2. IsFiniteSet(Places) /\ Places \subseteq Nat \X Nat
  <2> DEFINE Row(i) == {i} \X DOMAIN project.includes[order[i]]
             row == [i \in 1..n |-> Row(i)]
  <2>1. ASSUME NEW i \in 1..n PROVE IsFiniteSet(Row(i)) /\ Row(i) \subseteq Nat \X Nat
    <3>1. IsFiniteSet({i})
      BY FS_Singleton
    <3>0. i \in Nat
      BY <1>1
    <3>2. Row(i) = {i} \X (1..To(i)) /\ 1 \in Int /\ To(i) \in Int
      BY <1>1
    <3> HIDE DEF Row, To
    <3>3. IsFiniteSet(1..To(i)) /\ \A k \in 1..To(i) : k \in Nat
      BY <3>2, FS_Interval
    <3>4. IsFiniteSet({i} \X (1..To(i)))
      BY <3>1, <3>3, FS_Product
    <3>5. {i} \X (1..To(i)) \subseteq Nat \X Nat
      BY <3>0, <3>3
    <3> QED BY <3>2, <3>4, <3>5
  <2>2. IsFiniteSet({row[i] : i \in 1..n})
    <3>1. IsFiniteSet(1..n) /\ DOMAIN row = 1..n
      BY <1>1, FS_Interval
    <3> HIDE DEF row
    <3> QED BY <3>1, ImageIsFinite
  <2>3. Places = UNION {row[i] : i \in 1..n}
    BY <1>1 DEF Places
  <2>4. \A r \in {row[i] : i \in 1..n} : IsFiniteSet(r) /\ r \subseteq Nat \X Nat
    BY <2>1
  <2> HIDE DEF row
  <2> QED BY <2>2, <2>3, <2>4, FS_UNION
<1>3. P \in SUBSET Places /\ IsFiniteSet(P)
  BY <1>2, FS_Subset
<1>4. /\ \A x \in P : ~Sooner(x, x)
      /\ \A x, y \in P : x # y => Sooner(x, y) \/ Sooner(y, x)
      /\ \A x, y, z \in P : Sooner(x, y) /\ Sooner(y, z) => Sooner(x, z)
  <2>1. \A x \in P : x[1] \in Nat /\ x[2] \in Nat /\ x = <<x[1], x[2]>>
    BY <1>2, <1>3
  <2> HIDE DEF P
  <2>2. \A x \in P : ~Sooner(x, x)
    BY <2>1 DEF Sooner
  <2>3. ASSUME NEW x \in P, NEW y \in P, x # y PROVE Sooner(x, y) \/ Sooner(y, x)
    <3>1. x[1] # y[1] \/ x[2] # y[2]
      BY <2>1, <2>3
    <3> QED BY <2>1, <3>1 DEF Sooner
  <2>4. \A x, y, z \in P : Sooner(x, y) /\ Sooner(y, z) => Sooner(x, z)
    BY <2>1 DEF Sooner
  <2> QED BY <2>2, <2>3, <2>4
<1> HIDE DEF P
<1>5. /\ ByPlace!Cardinality(P) \in Nat
      /\ ByPlace!Rank(P) \in [1..ByPlace!Cardinality(P) -> P]
  <2>1. ByPlace!IsFiniteSet(P)
    BY <1>3 DEF ByPlace!IsFiniteSet, IsFiniteSet
  <2> QED BY <1>4, <2>1, ByPlace!RankIsPermutation
<1>6. ByPlace!Rank(P) = Sorted(P, Sooner)
  BY DEF ByPlace!Rank, Sorted, ByPlace!Cardinality, Cardinality, ByPlace!IsFiniteSet, IsFiniteSet
<1>7. Edges = Sorted(P, Sooner)
  BY DEF Edges, P
<1> QED BY <1>5, <1>6, <1>7 DEF P

\* The edges keep what is there, and show nothing.
LEMMA DependenciesFold ==
  ASSUME Project, NEW m, order \in Seq(m), m \subseteq project.allowed,
         NEW list, NEW spans, FoundByName(list, m, spans),
         NEW seq \in Seq({place \in Places : Passes(Included(place))})
  PROVE  LET end == FoldLeft(AddDependency, list, seq)
         IN  FoundByName(end, m, spans) /\ Extends(end, list)
<1> DEFINE end == FoldLeft(AddDependency, list, seq)
           P == {place \in Places : Passes(Included(place))}
           n == Len(seq)
<1>1. n \in Nat /\ DOMAIN seq = 1..n /\ seq \in Seq(P) /\ \A i \in 1..n : seq[i] \in P
  OBVIOUS
<1>2. \A place \in P : order[place[1]] \in m /\ Passes(Included(place))
  <2>1. \A place \in Places : place[1] \in DOMAIN order
    BY DEF Places
  <2>2. \A i \in DOMAIN order : order[i] \in m
    OBVIOUS
  <2> QED BY <2>1, <2>2
<1> HIDE DEF P
<1>3. PICK acc : Dependencies!Runs(list, seq, acc) /\ Dependencies!FoldLeft(AddDependency, list, seq) = acc[n]
  BY <1>1, Dependencies!FoldRuns
<1>4. end = acc[n]
  BY <1>3 DEF Dependencies!FoldLeft, FoldLeft, Dependencies!MapThenFoldSet, MapThenFoldSet, Dependencies!Max, Max
<1>5. acc[0] = list /\ \A i \in 0..n : i < n => acc[i + 1] = AddDependency(acc[i], seq[i + 1])
  BY <1>3 DEF Dependencies!Runs
<1> DEFINE Done(i) == FoundByName(acc[i], m, spans) /\ Extends(acc[i], list)
           S == {i \in 0..n : Done(i)}
<1>6. 0 \in S
  BY <1>1, <1>5 DEF Extends
<1>7. ASSUME NEW i \in 0..n, i < n, i \in S PROVE i + 1 \in S
  <2>1. i + 1 \in 1..n /\ i + 1 \in 0..n
    BY <1>1, <1>7
  <2> DEFINE f == order[seq[i + 1][1]]
             g == Included(seq[i + 1])
             item == MakeDependencyItem(f, g)
             now == acc[i]
             next == acc[i + 1]
  <2>2. f \in m /\ Passes(f) /\ Passes(g)
    <3>1. seq[i + 1] \in P
      BY <1>1, <2>1
    <3> QED BY <1>2, <3>1 DEF Passes
  <2>3. next = AddItem(now, item)
    BY <1>5, <1>7 DEF AddDependency
  <2>4. FoundByName(now, m, spans) /\ Extends(now, list)
    BY <1>7
  <2> HIDE DEF f, g, now, next
  <2>5. Proper(item) /\ item.source = "Dependency" /\ item.file = f
    BY <2>2, DependencyIsProper
  <2> HIDE DEF item
  <2>6. item.first = 1 /\ item.last = 0
    BY <2>5 DEF Proper, IsDependency
  <2>7. ProperList(now) /\ Clear(now) /\ Covering(now, spans)
    BY <2>4 DEF FoundByName
  <2>8. Adds(now, item, next, spans)
    BY <2>3, <2>5, <2>6, <2>7, AddsNothing
  <2>9. FoundByName(next, m, spans)
    BY <2>2, <2>4, <2>5, <2>8 DEF FoundByName, Adds, Added
  <2>10. Extends(next, list)
    BY <2>4, <2>8 DEF Adds, Added, Extends
  <2> QED BY <2>1, <2>9, <2>10 DEF next
<1> HIDE DEF S
<1>8. n \in 0..n /\ \A i \in 0..n : i \in S
  <2>1. \A i \in 0..n : i < n /\ i \in S => i + 1 \in S
    BY <1>7
  <2>2. n \in Nat
    BY <1>1
  <2> HIDE DEF n
  <2>3. \A i \in 0..n : i \in S
    BY <1>6, <2>1, <2>2, Symbols!UpTo
  <2> QED BY <2>2, <2>3
<1>9. Done(n)
  BY <1>8 DEF S
<1> QED BY <1>4, <1>9

FilesByName == INSTANCE FoldFacts WITH Op <- TakeFile

\* The rank of a file is a number.
LEMMA FileRankIsNumber ==
  ASSUME Project, NEW f \in Files
  PROVE  FileRank(f) \in Int
<1> DEFINE g == [t \in Tokens |-> FilePathScore(f, t)]
           T == {g[t] : t \in Tokens}
           S == {0} \cup {FilePathScore(f, t) : t \in Tokens}
<1>1. \A t \in Tokens : FilePathScore(f, t) \in Nat
  BY ProjectsAreProjects DEF Project, Tokens, FilePathScore, Files
<1>2. T = {FilePathScore(f, t) : t \in Tokens} /\ S = T \cup {0} /\ S \subseteq Int /\ S # {}
  BY <1>1
<1>3. IsFiniteSet(T)
  <2>1. DOMAIN g = Tokens /\ IsFiniteSet(Tokens)
    BY ProjectFacts
  <2> HIDE DEF g
  <2> QED BY <2>1, ImageIsFinite
<1> HIDE DEF T, S
<1>4. IsFiniteSet(S)
  BY <1>2, <1>3, FS_AddElement
<1>5. Max(S) \in Int
  BY <1>2, <1>4, GreatestIsNumber
<1>6. BestPathScore(f) = Max(S)
  BY DEF BestPathScore, S
<1>7. BestPathScore(f) + FileAffinity(f) \in Int
  BY <1>5, <1>6, WeightsAreNumbers
<1> QED BY <1>7, WeightsAreNumbers DEF FileRank

\* What becomes of the results with one more file.
TakesFile(acc, f, next) ==
  \/ /\ next.items = AddItem(acc.items, WholeFile(f, FileRank(f)))
     /\ next.covered = acc.covered \cup {Span(f, 1, project.lines[f])}
  \/ next.items = AddItem(acc.items, FileName(f, FileRank(f))) /\ next.covered = acc.covered

\* TakeFile is one of its cases.
LEMMA TakeFileIs ==
  ASSUME NEW acc, NEW f
  PROVE  TakesFile(acc, f, TakeFile(acc, f))
<1> DEFINE inline == /\ acc.inlined < kMaxWholeFiles /\ BestPathScore(f) >= 45
                     /\ f \in project.small \ project.tests
                     /\ HasContent(f)
<1>1. CASE inline
  <2>1. /\ TakeFile(acc, f).covered = acc.covered \cup {Span(f, 1, project.lines[f])}
        /\ TakeFile(acc, f).items = AddItem(acc.items, WholeFile(f, FileRank(f)))
    BY <1>1 DEF TakeFile, WholeFile, MakeFileItem
  <2> QED BY <2>1 DEF TakesFile
<1>2. CASE ~inline
  <2>1. /\ TakeFile(acc, f).covered = acc.covered
        /\ TakeFile(acc, f).items = AddItem(acc.items, FileName(f, FileRank(f)))
    BY <1>2 DEF TakeFile, FileName, MakeFileItem
  <2> QED BY <2>1 DEF TakesFile
<1> QED BY <1>1, <1>2

\* Files taken one after the other keep what is said of the list.
LEMMA FilesFold ==
  ASSUME Project, NEW m, NEW list, NEW spans, FoundByName(list, m, spans), m \subseteq Files,
         NEW seq \in Seq(Files), \A i \in 1..Len(seq) : Passes(seq[i]) /\ seq[i] \notin m,
         \A i, j \in 1..Len(seq) : seq[i] = seq[j] => i = j
  PROVE  LET end == FoldLeft(TakeFile, [inlined |-> 0, covered |-> spans, items |-> list], seq)
         IN  FoundByName(end.items, Files, end.covered) /\ Extends(end.items, list)
<1> DEFINE start == [inlined |-> 0, covered |-> spans, items |-> list]
           end == FoldLeft(TakeFile, start, seq)
           n == Len(seq)
           Known(i) == m \cup {seq[k] : k \in 1..i}
<1>1. n \in Nat /\ DOMAIN seq = 1..n /\ \A i \in 1..n : seq[i] \in Files
  OBVIOUS
<1>2. start.covered = spans /\ start.items = list
  OBVIOUS
<1> HIDE DEF start
<1>3. PICK acc : FilesByName!Runs(start, seq, acc) /\ FilesByName!FoldLeft(TakeFile, start, seq) = acc[n]
  BY FilesByName!FoldRuns
<1>4. end = acc[n]
  BY <1>3 DEF FilesByName!FoldLeft, FoldLeft, FilesByName!MapThenFoldSet, MapThenFoldSet, FilesByName!Max, Max
<1>5. acc[0] = start /\ \A i \in 0..n : i < n => acc[i + 1] = TakeFile(acc[i], seq[i + 1])
  BY <1>3 DEF FilesByName!Runs
<1> DEFINE Done(i) == FoundByName(acc[i].items, Known(i), acc[i].covered) /\ Extends(acc[i].items, list)
           S == {i \in 0..n : Done(i)}
<1>6. 0 \in S
  <2>1. Known(0) = m
    OBVIOUS
  <2> HIDE DEF Known
  <2> QED BY <1>1, <1>2, <1>5, <2>1 DEF Extends
<1>7. ASSUME NEW i \in 0..n, i < n, i \in S PROVE i + 1 \in S
  <2>1. i + 1 \in 1..n /\ i + 1 \in 0..n
    BY <1>1, <1>7
  <2> DEFINE f == seq[i + 1]
             p == FileRank(f)
             now == acc[i]
             next == acc[i + 1]
  <2>2. f \in Files /\ Passes(f) /\ p \in Int
    BY <1>1, <2>1, FileRankIsNumber
  <2>3. Known(i + 1) = Known(i) \cup {f} /\ f \notin Known(i)
    <3>1. \A k \in 1..i : k \in 1..n /\ k # i + 1
      BY <1>1, <1>7
    <3>2. f \notin Known(i)
      BY <2>1, <3>1
    <3>3. \A k \in 1..(i + 1) : k \in 1..i \/ k = i + 1
      BY <1>7
    <3>4. \A k \in 1..i : k \in 1..(i + 1)
      BY <1>7
    <3>5. i + 1 \in 1..(i + 1)
      BY <1>7
    <3> QED BY <3>2, <3>3, <3>4, <3>5
  <2>4. TakesFile(now, f, next)
    BY <1>5, <1>7, TakeFileIs
  <2> HIDE DEF Known
  <2>5. FoundByName(now.items, Known(i), now.covered) /\ Extends(now.items, list)
    BY <1>7
  <2> HIDE DEF f, p, now, next
  <2>6. ProperList(now.items) /\ Clear(now.items) /\ Covering(now.items, now.covered)
        /\ \A k \in DOMAIN now.items : now.items[k].source \in {"Symbol", "File", "Dependency"} /\ now.items[k].file \in Known(i)
    BY <2>5 DEF FoundByName
  <2>7. \E item : Adds(now.items, item, next.items, next.covered) /\ item.source = "File" /\ item.file = f
    <3>1. CASE /\ next.items = AddItem(now.items, WholeFile(f, p))
               /\ next.covered = now.covered \cup {Span(f, 1, project.lines[f])}
      <4> DEFINE item == WholeFile(f, p)
      <4> HIDE DEF item
      <4>1. \A k \in DOMAIN now.items : now.items[k].file # f
        BY <2>3, <2>6
      <4>2. AddsFile(now.items, f, item, next.items, now.covered)
        BY <2>2, <2>6, <3>1, <4>1, WholeFileKeeps DEF item
      <4> QED BY <3>1, <4>2 DEF AddsFile
    <3>2. CASE next.items = AddItem(now.items, FileName(f, p)) /\ next.covered = now.covered
      <4> DEFINE item == FileName(f, p)
      <4>1. Proper(item) /\ item.source = "File" /\ item.file = f /\ item.first = 1 /\ item.last = 0
        BY <2>2, FileNameIs
      <4> HIDE DEF item
      <4>2. Adds(now.items, item, next.items, next.covered)
        BY <2>6, <3>2, <4>1, AddsNothing DEF item
      <4> QED BY <4>1, <4>2
    <3> QED BY <2>4, <3>1, <3>2 DEF TakesFile, p
  <2>8. PICK item : Adds(now.items, item, next.items, next.covered) /\ item.source = "File" /\ item.file = f
    BY <2>7
  <2>9. FoundByName(next.items, Known(i + 1), next.covered)
    BY <2>3, <2>6, <2>8 DEF FoundByName, Adds, Added
  <2>10. Extends(next.items, list)
    BY <2>5, <2>8 DEF Adds, Added, Extends
  <2> QED BY <2>1, <2>9, <2>10 DEF next
<1> HIDE DEF S
<1>8. n \in 0..n /\ \A i \in 0..n : i \in S
  <2>1. \A i \in 0..n : i < n /\ i \in S => i + 1 \in S
    BY <1>7
  <2>2. n \in Nat
    BY <1>1
  <2> HIDE DEF n
  <2>3. \A i \in 0..n : i \in S
    BY <1>6, <2>1, <2>2, Symbols!UpTo
  <2> QED BY <2>2, <2>3
<1>9. Done(n) /\ Known(n) \subseteq Files
  <2>1. Known(n) \subseteq Files
    BY <1>1
  <2> QED BY <1>8, <2>1 DEF S
<1> HIDE DEF Known
<1> QED BY <1>4, <1>9 DEF FoundByName, start

-----------------------------------------------------------------------------
(* Lines with a hit, and their groups. *)

HitsAbove == INSTANCE FoldFacts WITH Op <- Above

Heads(kept) == {h \in kept : ~Joins(kept, h)}
GroupOf(kept, h) ==
  {g \in kept : /\ g.file = h.file /\ g.line >= h.line
                /\ \A o \in Heads(kept) : o.file # h.file \/ o.line <= h.line \/ o.line > g.line}

\* The hits of a line are one.
LEMMA LinesAre ==
  ASSUME Project
  PROVE  /\ IsFiniteSet(Lines)
         /\ \A h \in Lines : /\ h.file \in Files /\ h.line \in Nat /\ h.rank \in Int /\ project.lines[h.file] \in Nat
                             /\ 1 <= h.line /\ h.line <= project.lines[h.file]
         /\ \A g, h \in Lines : g.file = h.file /\ g.line = h.line => g = h
<1> DEFINE Top == {g \in project.hits : /\ g.file \in project.scanned
                                       /\ \A o \in project.hits : o.file = g.file /\ o.line = g.line => HitRank(o) <= HitRank(g)}
           Line(h) == [file |-> h.file, line |-> h.line, rank |-> HitRank(h)]
           at == [h \in Top |-> Line(h)]
<1>1. Lines = {Line(h) : h \in Top} /\ Lines = {at[h] : h \in Top}
  BY DEF Lines
<1>2. \A h \in project.hits : /\ h.file \in Files /\ h.line \in 1..project.lines[h.file] /\ HitRank(h) \in Int
                              /\ project.lines[h.file] \in Nat
  <2>1. \A h \in project.hits : h.file \in Files /\ h.line \in 1..project.lines[h.file] /\ h.score \in Nat
    BY ProjectsAreProjects DEF Project, Files
  <2> QED BY <2>1, ProjectFacts DEF HitRank
<1>3. IsFiniteSet(Lines)
  <2>1. Top \in SUBSET project.hits /\ DOMAIN at = Top
    OBVIOUS
  <2> HIDE DEF Top, at
  <2>2. IsFiniteSet(Top)
    BY <2>1, ProjectFacts, FS_Subset
  <2> QED BY <1>1, <2>1, <2>2, ImageIsFinite
<1>4. ASSUME NEW x \in Top, NEW y \in Top, x.file = y.file, x.line = y.line PROVE HitRank(x) = HitRank(y)
  <2>1. HitRank(x) <= HitRank(y) /\ HitRank(y) <= HitRank(x) /\ HitRank(x) \in Int /\ HitRank(y) \in Int
    BY <1>2, <1>4
  <2> QED BY <2>1
<1>5. Top \subseteq project.hits
  OBVIOUS
<1> HIDE DEF Top
<1>6. \A h \in Lines : /\ h.file \in Files /\ h.line \in Nat /\ h.rank \in Int /\ project.lines[h.file] \in Nat
                       /\ 1 <= h.line /\ h.line <= project.lines[h.file]
  <2> SUFFICES ASSUME NEW x \in Top
               PROVE  /\ Line(x).file \in Files /\ Line(x).line \in Nat /\ Line(x).rank \in Int
                      /\ project.lines[Line(x).file] \in Nat
                      /\ 1 <= Line(x).line /\ Line(x).line <= project.lines[Line(x).file]
    BY <1>1
  <2> QED BY <1>2, <1>5
<1>7. \A g, h \in Lines : g.file = h.file /\ g.line = h.line => g = h
  <2> SUFFICES ASSUME NEW x \in Top, NEW y \in Top, Line(x).file = Line(y).file, Line(x).line = Line(y).line
               PROVE  Line(x) = Line(y)
    BY <1>1
  <2> QED BY <1>4
<1> QED BY <1>3, <1>6, <1>7

\* What the arithmetic of the groups needs to know of the hits that are kept.
Kept(kept) ==
  /\ IsFiniteSet(kept)
  /\ \A h \in kept : /\ h.file \in Files /\ h.line \in Nat /\ h.rank \in Int /\ project.lines[h.file] \in Nat
                     /\ 1 <= h.line /\ h.line <= project.lines[h.file]
  /\ \A g, h \in kept : g.file = h.file /\ g.line = h.line => g = h

\* A head follows its file's earlier groups by more than two windows.
LEMMA HeadsAreFar ==
  ASSUME NEW kept, Kept(kept), NEW h \in Heads(kept), NEW o \in Heads(kept), h.file = o.file, h.line < o.line,
         NEW g \in GroupOf(kept, h)
  PROVE  g.line + kWindow < o.line - kWindow
<1>1. g \in kept /\ g.file = h.file /\ g.line \in Nat /\ o.line \in Nat /\ h.line \in Nat /\ o \in kept
  BY DEF GroupOf, Kept, Heads
<1>2. o.file # h.file \/ o.line <= h.line \/ o.line > g.line
  BY DEF GroupOf
<1>3. g.line < o.line
  BY <1>1, <1>2
<1>4. ~(o.line - kWindow <= g.line + kWindow)
  BY <1>1, <1>3 DEF Heads, Joins
<1> QED BY <1>1, <1>4 DEF kWindow

\* Among some hits of a finite set one is the last, and one the first.
LEMMA LastHit ==
  ASSUME NEW kept, Kept(kept), NEW S \in SUBSET kept, S # {}
  PROVE  /\ \E g \in S : \A o \in S : o.line <= g.line
         /\ \E g \in S : \A o \in S : g.line <= o.line
<1> DEFINE at == [g \in S |-> g.line]
           T == {at[g] : g \in S}
<1>1. IsFiniteSet(S) /\ DOMAIN at = S
  BY FS_Subset DEF Kept
<1>2. T # {} /\ T \subseteq Int /\ T \in SUBSET Nat
  BY DEF Kept
<1>3. IsFiniteSet(T)
  <2> HIDE DEF at
  <2> QED BY <1>1, ImageIsFinite
<1>4. \A g \in S : at[g] = g.line
  OBVIOUS
<1>5. PICK x \in T : \A y \in T : y <= x
  <2> HIDE DEF T
  <2> QED BY <1>2, <1>3, GreatestIsNumber
<1>6. PICK z \in T : \A y \in T : z <= y
  <2> HIDE DEF T
  <2> QED BY <1>2, Symbols!LeastExists
<1> HIDE DEF at
<1> QED BY <1>4, <1>5, <1>6

\* Every hit is in the group of a head.
LEMMA HitsAreGrouped ==
  ASSUME NEW kept, Kept(kept), NEW g \in kept
  PROVE  \E h \in Heads(kept) : g \in GroupOf(kept, h)
<1> DEFINE S == {o \in kept : o.file = g.file /\ o.line <= g.line}
           H == {o \in Heads(kept) : o.file = g.file /\ o.line <= g.line}
<1>1. \A o \in kept : o.line \in Nat
  BY DEF Kept
<1>2. S \in SUBSET kept /\ S # {} /\ H \in SUBSET kept
  BY <1>1 DEF Heads
<1>3. PICK f \in S : \A o \in S : f.line <= o.line
  <2> HIDE DEF S
  <2> QED BY <1>2, LastHit
<1>4. f \in H
  <2>1. ~Joins(kept, f)
    <3> SUFFICES ASSUME NEW o \in kept, o.file = f.file, o.line < f.line PROVE FALSE
      BY DEF Joins
    <3>1. o \in S
      BY <1>1, <1>3
    <3> QED BY <1>1, <1>3, <3>1
  <2> QED BY <1>3, <2>1 DEF Heads
<1>5. PICK h \in H : \A o \in H : o.line <= h.line
  <2> HIDE DEF H
  <2> QED BY <1>2, <1>4, LastHit
<1>6. \A o \in Heads(kept) : o.file # h.file \/ o.line <= h.line \/ o.line > g.line
  <2> SUFFICES ASSUME NEW o \in Heads(kept), o.file = h.file, ~(o.line > g.line) PROVE o.line <= h.line
    OBVIOUS
  <2>1. o \in H
    <3>1. o \in kept
      BY DEF Heads
    <3> QED BY <1>1, <1>5, <3>1
  <2> QED BY <1>5, <2>1
<1>7. g \in GroupOf(kept, h)
  BY <1>1, <1>2, <1>5, <1>6 DEF GroupOf
<1> QED BY <1>5, <1>7

\* No line of a group's window is farther than a window from a hit of it.
LEMMA WindowIsNear ==
  ASSUME NEW kept, Kept(kept), NEW h \in Heads(kept), NEW last \in GroupOf(kept, h),
         NEW x \in Int, h.line - kWindow <= x, x <= last.line + kWindow
  PROVE  \E g \in GroupOf(kept, h) : g.line - kWindow <= x /\ x <= g.line + kWindow
<1> DEFINE G == GroupOf(kept, h)
           S == {g \in G : g.line <= x + kWindow}
           L == {g \in G : g.line > x + kWindow}
<1>1. G \subseteq kept /\ \A g \in G : g.line \in Nat /\ g.file = h.file /\ h.line <= g.line
  BY DEF GroupOf, Kept
<1>2. h \in G
  <2>1. h \in kept /\ h.line \in Nat /\ \A o \in Heads(kept) : o.line \in Nat
    BY DEF Heads, Kept
  <2> QED BY <2>1 DEF GroupOf
<1>3. S \in SUBSET kept /\ L \in SUBSET kept
  BY <1>1
<1>4. h \in S
  BY <1>1, <1>2 DEF kWindow
<1>5. PICK g \in S : \A o \in S : o.line <= g.line
  <2> HIDE DEF S
  <2> QED BY <1>3, <1>4, LastHit
<1>6. CASE x <= g.line + kWindow
  BY <1>1, <1>5, <1>6 DEF kWindow
<1>7. CASE ~(x <= g.line + kWindow)
  <2>1. last \in G /\ last.line \in Nat /\ g.line \in Nat /\ h.line \in Nat
    BY <1>1, <1>2, <1>5
  <2>2. last \notin S
    <3>1. g.line + kWindow < x /\ x <= last.line + kWindow
      BY <1>7, <2>1 DEF kWindow
    <3>2. ~(last.line <= g.line)
      BY <2>1, <3>1 DEF kWindow
    <3> QED BY <1>5, <3>2
  <2>3. last \in L
    BY <2>1, <2>2 DEF kWindow
  <2>4. PICK f \in L : \A o \in L : f.line <= o.line
    <3> HIDE DEF L
    <3> QED BY <1>3, <2>3, LastHit
  <2>5. f \in kept /\ f.line \in Nat /\ f.file = h.file /\ h.line < f.line /\ f \in G
    <3>1. f \in G /\ f.line > x + kWindow
      OBVIOUS
    <3> QED BY <1>1, <2>1, <3>1 DEF kWindow
  <2>6. f \notin Heads(kept)
    BY <2>1, <2>5 DEF GroupOf
  <2>7. PICK k \in kept : k.file = f.file /\ k.line < f.line /\ f.line - kWindow <= k.line + kWindow
    BY <2>5, <2>6 DEF Heads, Joins
  <2>8. k.line \in Nat /\ k.line > g.line /\ k.line >= h.line
    <3>1. k.line \in Nat
      BY DEF Kept
    <3>2. f.line > x + kWindow /\ g.line + kWindow < x
      BY <1>7, <2>1 DEF kWindow
    <3>3. k.line > g.line
      BY <2>1, <2>5, <2>7, <3>1, <3>2 DEF kWindow
    <3>4. g.line >= h.line
      BY <1>1, <1>5
    <3> QED BY <2>1, <3>1, <3>3, <3>4
  <2>9. k \in G
    <3>1. \A o \in Heads(kept) : o.line \in Nat /\ (o.file # h.file \/ o.line <= h.line \/ o.line > f.line)
      BY <2>5 DEF GroupOf, Heads, Kept
    <3>2. \A o \in Heads(kept) : o.file # h.file \/ o.line <= h.line \/ o.line > k.line
      BY <2>5, <2>7, <2>8, <3>1
    <3> QED BY <2>5, <2>7, <2>8, <3>2 DEF GroupOf
  <2>10. k \in S \/ k \in L
    BY <2>8, <2>9 DEF kWindow
  <2>11. ~(k.line <= g.line) /\ ~(f.line <= k.line)
    BY <2>1, <2>5, <2>7, <2>8
  <2> QED BY <1>5, <2>4, <2>10, <2>11
<1> QED BY <1>6, <1>7

GroupFor(kept, h) == [head |-> h, hits |-> GroupOf(kept, h)]

\* PlaceOf finds the file it is the place of.
LEMMA PlacesAre ==
  ASSUME Project, NEW f \in Files
  PROVE  PlaceOf(f) \in Nat /\ project.path[PlaceOf(f)] = f
<1>1. project.path \in Seq(Files)
  BY ProjectFacts
<1>2. \E i \in DOMAIN project.path : project.path[i] = f
  BY <1>1 DEF Files, ToSet
<1>3. PlaceOf(f) \in DOMAIN project.path /\ project.path[PlaceOf(f)] = f
  BY <1>2 DEF PlaceOf
<1> QED BY <1>1, <1>3

\* The groups are those of the heads, each once.
LEMMA GroupsAre ==
  ASSUME Project, NEW kept, Kept(kept)
  PROVE  /\ Groups(kept) \in Seq({GroupFor(kept, h) : h \in Heads(kept)})
         /\ \A h \in Heads(kept) : \E i \in 1..Len(Groups(kept)) : Groups(kept)[i] = GroupFor(kept, h)
<1> DEFINE H == Heads(kept)
           n == Cardinality(H)
           sorted == Sorted(H, Above)
           groups == Groups(kept)
<1>1. H \in SUBSET kept /\ IsFiniteSet(H)
  <2>1. H \in SUBSET kept
    BY DEF Heads
  <2> QED BY <2>1, FS_Subset DEF Kept
<1>2. /\ \A x \in H : ~Above(x, x)
      /\ \A x, y \in H : x # y => Above(x, y) \/ Above(y, x)
      /\ \A x, y, z \in H : Above(x, y) /\ Above(y, z) => Above(x, z)
  <2>1. \A x \in H : x.line \in Nat /\ x.file \in Files /\ PlaceOf(x.file) \in Nat /\ project.path[PlaceOf(x.file)] = x.file
    BY <1>1, PlacesAre DEF Kept
  <2>2. \A x, y \in H : x.file = y.file /\ x.line = y.line => x = y
    BY <1>1 DEF Kept
  <2> HIDE DEF H
  <2>3. \A x \in H : ~Above(x, x)
    BY <2>1 DEF Above
  <2>4. ASSUME NEW x \in H, NEW y \in H, x # y PROVE Above(x, y) \/ Above(y, x)
    <3>1. CASE x.file = y.file
      BY <2>1, <2>2, <2>4, <3>1 DEF Above
    <3>2. CASE x.file # y.file
      <4>1. PlaceOf(x.file) # PlaceOf(y.file)
        BY <2>1, <3>2
      <4> QED BY <2>1, <3>2, <4>1 DEF Above
    <3> QED BY <3>1, <3>2
  <2>5. ASSUME NEW x \in H, NEW y \in H, NEW z \in H, Above(x, y), Above(y, z) PROVE Above(x, z)
    <3> DEFINE a == PlaceOf(x.file)
               b == PlaceOf(y.file)
               c == PlaceOf(z.file)
    <3>1. /\ a \in Nat /\ b \in Nat /\ c \in Nat /\ x.line \in Nat /\ y.line \in Nat /\ z.line \in Nat
          /\ (x.file = y.file => a = b) /\ (y.file = z.file => b = c) /\ (a = c => x.file = z.file)
      BY <2>1
    <3>2. /\ (x.file = y.file /\ x.line < y.line) \/ a < b
          /\ (y.file = z.file /\ y.line < z.line) \/ b < c
      BY <2>5 DEF Above
    <3> HIDE DEF a, b, c
    <3>3. (x.file = z.file /\ x.line < z.line) \/ a < c
      BY <3>1, <3>2
    <3>4. a < c => x.file # z.file
      <4>1. x.file = z.file => a = c
        BY DEF a, c
      <4> QED BY <3>1, <4>1
    <3> QED BY <3>3, <3>4 DEF Above, a, c
  <2> QED BY <2>3, <2>4, <2>5
<1> HIDE DEF H
<1>3. /\ HitsAbove!Cardinality(H) \in Nat
      /\ HitsAbove!Rank(H) \in [1..HitsAbove!Cardinality(H) -> H]
      /\ \A x \in H : \E i \in 1..HitsAbove!Cardinality(H) : HitsAbove!Rank(H)[i] = x
  <2>1. HitsAbove!IsFiniteSet(H)
    BY <1>1 DEF HitsAbove!IsFiniteSet, IsFiniteSet
  <2> QED BY <1>2, <2>1, HitsAbove!RankIsPermutation
<1>4. HitsAbove!Rank(H) = sorted /\ HitsAbove!Cardinality(H) = n
  BY DEF HitsAbove!Rank, Sorted, HitsAbove!Cardinality, Cardinality, HitsAbove!IsFiniteSet, IsFiniteSet
<1>5. n \in Nat /\ sorted \in [1..n -> H] /\ \A x \in H : \E i \in 1..n : sorted[i] = x
  BY <1>3, <1>4
<1>6. groups = [i \in DOMAIN sorted |-> GroupFor(kept, sorted[i])]
  BY DEF Groups, GroupFor, Heads, GroupOf, H
<1> HIDE DEF n, sorted, groups
<1> DEFINE T == {GroupFor(kept, h) : h \in H}
<1>7. \A h \in H : GroupFor(kept, h) \in T
  OBVIOUS
<1> HIDE DEF T
<1>8. groups \in [1..n -> T] /\ \A i \in 1..n : groups[i] = GroupFor(kept, sorted[i])
  BY <1>5, <1>6, <1>7
<1>9. groups \in Seq(T) /\ Len(groups) = n
  BY <1>5, <1>8, FunctionIsList
<1> QED BY <1>5, <1>8, <1>9 DEF H, T, groups

-----------------------------------------------------------------------------
(* The window around a group of hits. *)

\* No farther from the group than a window.
IsNear(item, kept, h) ==
  /\ item.first <= item.last /\ h.line - kWindow <= item.first
  /\ \E last \in GroupOf(kept, h) : item.last <= last.line + kWindow

ShowsAll(item, kept, h) == \A g \in GroupOf(kept, h) : item.first <= g.line /\ g.line <= item.last

IsWindow(item, kept, h) ==
  /\ IsItem(item) /\ item.source = "Custom" /\ item.file = h.file /\ item.id = <<"keyword", h.file, h.line>>
  /\ item.whole \/ IsNear(item, kept, h)
  /\ HasContent(h.file) => item.cut \/ ShowsAll(item, kept, h)

\* The numbers of a group.
LEMMA GroupNumbers ==
  ASSUME Project, NEW kept, Kept(kept), NEW h \in Heads(kept)
  PROVE  /\ h \in GroupOf(kept, h)
         /\ \A g \in GroupOf(kept, h) : g \in kept /\ g.file = h.file /\ h.line <= g.line
         /\ Max({g.rank : g \in GroupOf(kept, h)}) \in Int
         /\ \E last \in GroupOf(kept, h) :
              /\ Max({g.line : g \in GroupOf(kept, h)}) = last.line
              /\ \A g \in GroupOf(kept, h) : g.line <= last.line
<1> DEFINE G == GroupOf(kept, h)
           ranks == [g \in G |-> g.rank]
           lines == [g \in G |-> g.line]
<1>1. G \in SUBSET kept /\ IsFiniteSet(G) /\ \A g \in G : g.line \in Nat /\ g.rank \in Int /\ g.file = h.file /\ h.line <= g.line
  <2>1. G \in SUBSET kept
    BY DEF GroupOf
  <2>2. IsFiniteSet(G)
    BY <2>1, FS_Subset DEF Kept
  <2> QED BY <2>1, <2>2 DEF GroupOf, Kept
<1>2. h \in G
  <2>1. h \in kept /\ h.line \in Nat /\ \A o \in Heads(kept) : o.line \in Nat
    BY DEF Heads, Kept
  <2> QED BY <2>1 DEF GroupOf
<1> HIDE DEF G
<1>3. {ranks[g] : g \in G} = {g.rank : g \in G} /\ {lines[g] : g \in G} = {g.line : g \in G}
  OBVIOUS
<1>4. DOMAIN ranks = G /\ DOMAIN lines = G
  OBVIOUS
<1> DEFINE R == {g.rank : g \in G}
           L == {g.line : g \in G}
<1>5. IsFiniteSet(R) /\ IsFiniteSet(L)
  <2> HIDE DEF ranks, lines
  <2>1. IsFiniteSet({ranks[g] : g \in G}) /\ IsFiniteSet({lines[g] : g \in G})
    BY <1>1, <1>4, ImageIsFinite
  <2> QED BY <1>3, <2>1
<1>6. R # {} /\ L # {} /\ R \subseteq Int /\ L \subseteq Int
  BY <1>1, <1>2
<1>7. \A g \in G : g.line \in L
  OBVIOUS
<1>8. \A n \in L : \E g \in G : g.line = n
  OBVIOUS
<1> HIDE DEF R, L
<1>9. Max(R) \in Int /\ Max(L) \in L /\ \A n \in L : n <= Max(L)
  BY <1>5, <1>6, GreatestIsNumber
<1>10. PICK last \in G : last.line = Max(L)
  BY <1>8, <1>9
<1>11. \A g \in G : g.line <= last.line
  BY <1>7, <1>9, <1>10
<1> QED BY <1>1, <1>2, <1>9, <1>10, <1>11 DEF G, R, L

\* How much a group of hits is worth.
GroupPriority(h, rank) == Biased(Max({0, KeywordPriority(rank) + FileAffinity(h.file) - TestPenalty(h.file)}), h.file)

\* The priority of a group is a number.
LEMMA GroupPriorityIsNumber ==
  ASSUME Project, NEW h, NEW rank \in Int
  PROVE  GroupPriority(h, rank) \in Int
<1> DEFINE n == KeywordPriority(rank) + FileAffinity(h.file) - TestPenalty(h.file)
           S == {0, n}
<1>1. n \in Int
  <2>1. KeywordPriority(rank) \in Int
    BY DEF KeywordPriority, Clamp
  <2>2. FileAffinity(h.file) \in Int /\ TestPenalty(h.file) \in Int
    BY WeightsAreNumbers
  <2> QED BY <2>1, <2>2
<1> HIDE DEF n
<1>2. S # {} /\ S \subseteq Int /\ IsFiniteSet(S)
  <2>1. IsFiniteSet({0})
    BY FS_Singleton
  <2>2. S = {0} \cup {n}
    OBVIOUS
  <2> HIDE DEF S
  <2>3. IsFiniteSet(S)
    BY <2>1, <2>2, FS_AddElement
  <2> QED BY <1>1, <2>2, <2>3
<1> HIDE DEF S
<1>3. Max(S) \in Int
  BY <1>2, GreatestIsNumber
<1> QED BY <1>3, WeightsAreNumbers DEF GroupPriority, S, n

\* An item that shows a group's lines, from a window before its first hit to
\* a window after its last one.
LEMMA KeywordIs ==
  ASSUME Project, NEW kept, Kept(kept), NEW h \in Heads(kept), NEW list
  PROVE  IsWindow(KeywordItem(list, GroupFor(kept, h)), kept, h)
<1> DEFINE group == GroupFor(kept, h)
           f == h.file
           rank == Max({g.rank : g \in GroupOf(kept, h)})
           priority == GroupPriority(h, rank)
           best == Max({priority} \cup {list[i].priority : i \in DOMAIN list})
           item == Shows(<<"keyword", f, h.line>>, "Custom", "Summary", f, h.line, h.line, priority)
           made == KeywordItem(list, group)
           lines == project.lines[f]
<1>1. group.head = h /\ group.hits = GroupOf(kept, h)
  BY DEF GroupFor
<1>2. made = IF ~HasContent(f) THEN [item EXCEPT !.level = "Reference", !.tokens = 10]
             ELSE IF priority >= best - kCutoff /\ WholeFileFor(f)
             THEN [SliceLines([item EXCEPT !.level = "Raw"], f, 1, lines, lines) EXCEPT !.whole = TRUE]
             ELSE SliceLines(item, f, Max({1, h.line - kWindow}), WindowLast(group), 120)
  <2> HIDE DEF group
  <2> QED BY <1>1 DEF KeywordItem, GroupPriority
<1>3. priority \in Int
  <2> HIDE DEF rank
  <2>1. rank \in Int
    BY GroupNumbers DEF rank
  <2> QED BY <2>1, GroupPriorityIsNumber
<1>4. h \in kept /\ h.line \in Nat \ {0} /\ f \in Files /\ lines \in Nat /\ h.line <= lines
  <2>1. h \in kept
    BY DEF Heads
  <2>2. h.line \in Nat /\ 1 <= h.line
    BY <2>1 DEF Kept
  <2> QED BY <2>1, <2>2 DEF Kept
<1> DEFINE tall == priority >= best - kCutoff
<1> HIDE DEF priority, best, tall
<1>5. /\ IsItem(item) /\ item.id = <<"keyword", f, h.line>> /\ item.source = "Custom" /\ item.level = "Summary"
      /\ item.file = f /\ item.first = h.line /\ item.last = h.line /\ ~item.whole /\ ~item.cut
  <2>1. "Custom" \in Sources /\ "Summary" \in Levels /\ h.line \in Int
    BY <1>4 DEF Sources, Levels
  <2> QED BY <1>3, <1>4, <2>1, ShowsIs
<1> HIDE DEF item, made
<1>6. h \in GroupOf(kept, h) /\ \A g \in GroupOf(kept, h) : g \in kept /\ g.file = f /\ h.line <= g.line
  BY GroupNumbers
<1>7. \A g \in GroupOf(kept, h) : g.line \in Nat /\ 1 <= g.line /\ g.line <= lines
  BY <1>6 DEF Kept
<1> HIDE DEF lines
<1>8. CASE ~HasContent(f)
  <2>1. made = [item EXCEPT !.level = "Reference", !.tokens = 10]
    BY <1>2, <1>8
  <2> DEFINE g == [item EXCEPT !.level = "Reference"]
  <2>a. /\ IsItem(g) /\ g.id = item.id /\ g.source = item.source /\ g.file = item.file
        /\ g.first = item.first /\ g.last = item.last
    <3>1. "Reference" \in Levels
      BY DEF Levels
    <3> QED BY <1>5, <3>1 DEF IsItem
  <2>b. made = [g EXCEPT !.tokens = 10]
    BY <1>5, <2>1 DEF IsItem
  <2> HIDE DEF g
  <2>c. /\ IsItem(made) /\ made.id = g.id /\ made.source = g.source /\ made.file = g.file
        /\ made.first = g.first /\ made.last = g.last
    BY <2>a, <2>b DEF IsItem
  <2>2. /\ IsItem(made) /\ made.id = <<"keyword", f, h.line>> /\ made.source = "Custom" /\ made.file = f
        /\ made.first = h.line /\ made.last = h.line
    BY <1>5, <2>a, <2>c
  <2>3. h.line - kWindow <= h.line /\ h.line <= h.line + kWindow /\ h.line <= h.line
    BY <1>4 DEF kWindow
  <2>4. IsNear(made, kept, h)
    BY <1>6, <2>2, <2>3 DEF IsNear
  <2> QED BY <1>8, <2>2, <2>4 DEF IsWindow, made
<1>9. CASE HasContent(f) /\ tall /\ WholeFileFor(f)
  <2> DEFINE raw == [item EXCEPT !.level = "Raw"]
             one == 1
             slice == SliceLines(raw, f, one, lines, lines)
  <2>1. made = [slice EXCEPT !.whole = TRUE]
    BY <1>2, <1>9 DEF tall
  <2>2. IsItem(raw) /\ raw.id = item.id /\ raw.source = "Custom"
    BY <1>5 DEF IsItem, Levels
  <2> HIDE DEF raw
  <2>3. one \in Nat \ {0} /\ lines \in Int /\ lines \in Nat /\ project.lines[f] \in Nat
    BY <1>4 DEF lines
  <2> HIDE DEF one
  <2>4. /\ IsItem(slice) /\ slice.id = raw.id /\ slice.source = raw.source /\ slice.file = f /\ slice.first = one
        /\ slice.last = Clamp(Clamp(lines, 0, project.lines[f]), 0, one + lines - 1)
    <3>1. SliceOf(slice, raw, f, one, lines, lines)
      BY <2>2, <2>3, SliceIs
    <3> QED BY <3>1 DEF SliceOf
  <2> HIDE DEF slice
  <2>5. slice.first = 1 /\ slice.last = lines
    BY <1>4, <2>4 DEF Clamp, lines, one
  <2>6. /\ IsItem(made) /\ made.id = <<"keyword", f, h.line>> /\ made.source = "Custom" /\ made.file = f /\ made.whole
        /\ made.first = 1 /\ made.last = lines
    BY <1>5, <2>1, <2>2, <2>4, <2>5 DEF IsItem
  <2>7. ShowsAll(made, kept, h)
    BY <1>7, <2>6 DEF ShowsAll
  <2> QED BY <2>6, <2>7 DEF IsWindow, made
<1>10. CASE HasContent(f) /\ ~(tall /\ WholeFileFor(f))
  <2> DEFINE first == Max({1, h.line - kWindow})
             end == WindowLast(group)
  <2>1. made = SliceLines(item, f, first, end, 120)
    BY <1>2, <1>10 DEF tall
  <2>2. PICK last \in GroupOf(kept, h) : /\ Max({g.line : g \in GroupOf(kept, h)}) = last.line
                                         /\ \A g \in GroupOf(kept, h) : g.line <= last.line
    BY GroupNumbers
  <2>3. end = last.line + kWindow /\ end \in Nat /\ last.line \in Nat
    <3>1. end = last.line + kWindow
      BY <1>1, <2>2 DEF WindowLast
    <3> QED BY <1>7, <3>1 DEF kWindow
  <2>4. first \in Nat \ {0} /\ h.line - kWindow <= first /\ first <= h.line
    <3> DEFINE n == h.line - kWindow
               S == {1, n}
    <3>1. n \in Int /\ n <= h.line /\ 1 <= h.line
      BY <1>4 DEF kWindow
    <3> HIDE DEF n
    <3>2. S # {} /\ S \subseteq Int /\ IsFiniteSet(S)
      <4>1. IsFiniteSet({1})
        BY FS_Singleton
      <4>2. S = {1} \cup {n}
        OBVIOUS
      <4> HIDE DEF S
      <4>3. IsFiniteSet(S)
        BY <4>1, <4>2, FS_AddElement
      <4> QED BY <3>1, <4>2, <4>3
    <3>3. Max(S) \in Int /\ Max(S) \in S /\ \A x \in S : x <= Max(S)
      <4> HIDE DEF S
      <4> QED BY <3>2, GreatestIsNumber
    <3>4. first = Max(S)
      BY DEF n
    <3> HIDE DEF first
    <3>5. first \in Int /\ (first = 1 \/ first = n) /\ 1 <= first /\ n <= first
      BY <3>3, <3>4
    <3>6. first <= h.line
      BY <3>1, <3>5
    <3> QED BY <3>5, <3>6 DEF n
  <2> HIDE DEF first, end
  <2> DEFINE to == Clamp(end, 0, lines)
             high == first + 120 - 1
  <2>5. project.lines[f] \in Nat /\ end \in Int /\ 120 \in Nat
    BY <1>4, <2>3 DEF lines
  <2>6. /\ IsItem(made) /\ made.id = item.id /\ made.source = item.source /\ made.file = f /\ made.first = first
        /\ made.cut = (to > high) /\ made.last = Clamp(to, 0, high)
    <3>1. SliceOf(made, item, f, first, end, 120)
      BY <1>5, <2>1, <2>4, <2>5, SliceIs
    <3> QED BY <3>1 DEF SliceOf, lines
  <2>7. to \in Int /\ high \in Int /\ 0 <= to /\ to <= end /\ (to = end \/ to = lines) /\ 0 <= high
    BY <1>4, <2>3, <2>4 DEF Clamp
  <2> HIDE DEF to, high
  <2>8. made.last <= end /\ (~(to > high) => made.last = to) /\ made.last \in Int
    BY <2>3, <2>6, <2>7 DEF Clamp
  <2>b. first <= made.last
    <3>1. first <= to /\ first <= high
      <4>1. h.line <= last.line
        BY <1>6, <2>2
      <4>2. first <= high
        BY <2>4 DEF high
      <4> QED BY <1>4, <2>3, <2>4, <2>7, <4>1, <4>2 DEF kWindow
    <3> QED BY <2>4, <2>6, <2>7, <3>1 DEF Clamp
  <2>9. IsNear(made, kept, h)
    BY <2>2, <2>3, <2>4, <2>6, <2>8, <2>b DEF IsNear
  <2>10. ~made.cut => ShowsAll(made, kept, h)
    <3>1. ASSUME ~made.cut, NEW g \in GroupOf(kept, h) PROVE made.first <= g.line /\ g.line <= made.last
      <4>1. made.last = to /\ made.first = first
        BY <2>6, <2>8, <3>1
      <4>2. g.line \in Nat /\ g.line <= lines /\ g.line <= last.line /\ h.line <= g.line
        BY <1>6, <1>7, <2>2
      <4>3. first <= g.line
        BY <1>4, <2>4, <4>2
      <4>4. g.line <= to
        BY <1>4, <2>3, <2>7, <4>2 DEF kWindow
      <4> QED BY <4>1, <4>3, <4>4
    <3> QED BY <3>1 DEF ShowsAll
  <2> QED BY <1>5, <2>6, <2>9, <2>10 DEF IsWindow, made
<1> QED BY <1>8, <1>9, <1>10

Keywords == INSTANCE FoldFacts WITH Op <- TakeGroup

\* Windows around different groups are apart.
LEMMA WindowsAreApart ==
  ASSUME NEW kept, Kept(kept), NEW h \in Heads(kept), NEW o \in Heads(kept), NEW one, IsWindow(one, kept, h),
         NEW other, IsWindow(other, kept, o), one.id # other.id
  PROVE  Apart(one, other)
<1>1. /\ IsItem(one) /\ IsItem(other) /\ one.source = "Custom" /\ other.source = "Custom"
      /\ one.file = h.file /\ other.file = o.file
      /\ one.id = <<"keyword", h.file, h.line>> /\ other.id = <<"keyword", o.file, o.line>>
  BY DEF IsWindow
<1>2. CASE one.whole \/ other.whole
  BY <1>1, <1>2 DEF Apart
<1>3. CASE ~one.whole /\ ~other.whole /\ h.file = o.file
  <2>1. PICK x \in GroupOf(kept, h) : one.last <= x.line + kWindow /\ h.line - kWindow <= one.first
    BY <1>3 DEF IsWindow, IsNear
  <2>2. PICK y \in GroupOf(kept, o) : other.last <= y.line + kWindow /\ o.line - kWindow <= other.first
    BY <1>3 DEF IsWindow, IsNear
  <2>3. x.line \in Nat /\ y.line \in Nat /\ h.line \in Nat /\ o.line \in Nat
    BY DEF GroupOf, Heads, Kept
  <2>4. one.first \in Int /\ one.last \in Int /\ other.first \in Int /\ other.last \in Int
    BY <1>1 DEF IsItem
  <2>5. h.line # o.line
    BY <1>1, <1>3
  <2>6. h.line < o.line => x.line + kWindow < o.line - kWindow
    BY <1>3, HeadsAreFar
  <2>7. o.line < h.line => y.line + kWindow < h.line - kWindow
    BY <1>3, HeadsAreFar
  <2>8. ~Overlap(one, other)
    BY <2>1, <2>2, <2>3, <2>4, <2>5, <2>6, <2>7 DEF Overlap, kWindow
  <2> QED BY <2>8 DEF Apart
<1>4. CASE h.file # o.file
  BY <1>1, <1>4 DEF Apart, Overlap
<1> QED BY <1>2, <1>3, <1>4

\* What is shown of a file, in full.
LEMMA FullItemIs ==
  ASSUME Project, NEW item, Proper(item), item.source \in {"Symbol", "File"}, ~item.cut, item.file \in Files
  PROVE  item.first <= item.last \/ (item.first = 1 /\ item.last = 0)
<1>1. CASE item.source = "Symbol"
  <2>1. PICK s \in project.symbols : IsSymbolOf(item, s)
    BY <1>1 DEF Proper, IsSymbol
  <2>2. CASE HasBody(s)
    <3>1. /\ s.first \in Nat /\ s.last \in Nat /\ project.lines[s.file] \in Nat
          /\ s.last >= s.first /\ s.first <= project.lines[s.file]
      BY <2>2, ProjectsAreProjects DEF Project, HasBody
    <3>2. item.first = s.first /\ item.last = Clamp(s.last, 0, project.lines[s.file])
      BY <2>1, <2>2 DEF IsSymbolOf
    <3> QED BY <3>1, <3>2 DEF Clamp
  <2>3. CASE ~HasBody(s)
    BY <2>1, <2>3 DEF IsSymbolOf
  <2> QED BY <2>2, <2>3
<1>2. CASE item.source = "File"
  <2>1. \/ item.first = 1 /\ item.last = IF item.whole THEN project.lines[item.file] ELSE 0
        \/ item.first <= item.last
    BY <1>2 DEF Proper, IsFile
  <2>2. project.lines[item.file] \in Nat
    BY ProjectFacts
  <2> QED BY <2>1, <2>2
<1> QED BY <1>1, <1>2

\* Hits that are not visible are apart from what is shown.
LEMMA WindowIsNew ==
  ASSUME Project, NEW list, FoundByName(list, Files, covered), NEW kept, Kept(kept),
         \A g \in kept : ~AlreadyVisible(g),
         NEW h \in Heads(kept), NEW item, IsWindow(item, kept, h), NEW i \in DOMAIN list
  PROVE  Apart(list[i], item)
<1> DEFINE one == list[i]
<1>1. /\ Proper(one) /\ one.source \in {"Symbol", "File", "Dependency"} /\ one.file \in Files
      /\ Covering(list, covered) /\ IsItem(item) /\ item.source = "Custom" /\ item.file = h.file
  BY DEF FoundByName, ProperList, IsWindow
<1>2. CASE item.whole /\ one.source # "File"
  BY <1>1, <1>2 DEF Apart
<1>3. CASE one.first = 1 /\ one.last = 0
  BY <1>1, <1>3, NothingIsApart
<1>4. CASE one.source = "Symbol" /\ one.cut
  BY <1>4 DEF Apart
<1>5. CASE ~item.whole /\ one.source \in {"Symbol", "File"} /\ ~one.cut /\ one.first <= one.last
  <2>1. PICK r \in covered : Covers(r, one) /\ r.first \in Int /\ r.last \in Int
    BY <1>1, <1>5 DEF Covering
  <2>2. SUFFICES ASSUME Overlap(one, item) PROVE FALSE
    BY DEF Apart
  <2>3. /\ one.first \in Int /\ one.last \in Int /\ item.first \in Int /\ item.last \in Int
        /\ r.first <= one.first /\ one.last <= r.last /\ r.file = h.file
        /\ one.first <= item.last /\ item.first <= one.last
    BY <1>1, <2>1, <2>2 DEF Proper, IsItem, Covers, Overlap
  <2>4. PICK last \in GroupOf(kept, h) : /\ h.line - kWindow <= item.first /\ item.last <= last.line + kWindow
                                        /\ item.first <= item.last
    BY <1>5 DEF IsWindow, IsNear
  <2>5. last.line \in Nat /\ h.line \in Nat /\ h.line <= last.line
    BY DEF GroupOf, Heads, Kept
  <2> DEFINE x == IF one.first <= item.first THEN item.first
                  ELSE one.first
  <2>6. /\ x \in Int /\ h.line - kWindow <= x /\ x <= last.line + kWindow
        /\ one.first <= x /\ x <= one.last
    BY <1>5, <2>3, <2>4, <2>5 DEF kWindow
  <2> HIDE DEF x
  <2>7. PICK g \in GroupOf(kept, h) : g.line - kWindow <= x /\ x <= g.line + kWindow
    BY <2>6, WindowIsNear
  <2>8. g \in kept /\ g.file = h.file /\ g.line \in Nat
    BY DEF GroupOf, Kept
  <2>9. g.line + kWindow >= r.first /\ g.line - kWindow <= r.last
    BY <2>1, <2>3, <2>6, <2>7, <2>8 DEF kWindow
  <2>10. AlreadyVisible(g)
    BY <2>3, <2>8, <2>9 DEF AlreadyVisible
  <2> QED BY <2>8, <2>10
<1>6. CASE one.source = "File" /\ ~one.cut /\ one.first <= one.last
  <2>1. PICK r \in covered : Covers(r, one)
    BY <1>1, <1>6 DEF Covering
  <2>2. SUFFICES ASSUME Overlap(one, item) PROVE FALSE
    BY DEF Apart
  <2>3. r.file = h.file /\ r.first = 1 /\ r.last = project.lines[h.file]
    BY <1>1, <1>6, <2>1, <2>2 DEF Covers, Overlap
  <2>4. h \in kept /\ h.line \in Nat /\ project.lines[h.file] \in Nat /\ 1 <= h.line /\ h.line <= project.lines[h.file]
    BY DEF Heads, Kept
  <2>5. AlreadyVisible(h)
    BY <2>3, <2>4 DEF AlreadyVisible, kWindow
  <2> QED BY <2>4, <2>5
<1>7. one.source \in {"Symbol", "File"} /\ ~one.cut => one.first <= one.last \/ (one.first = 1 /\ one.last = 0)
  BY <1>1, FullItemIs
<1>8. /\ one.source = "File" => ~one.cut
      /\ one.source = "Dependency" => one.first = 1 /\ one.last = 0
  BY <1>1 DEF Proper, IsFile, IsDependency
<1> HIDE DEF one
<1> QED BY <1>1, <1>2, <1>3, <1>4, <1>5, <1>6, <1>7, <1>8 DEF one

\* What the fold over the groups has when it has seen those of D.
WindowsSound(list, first, kept, D) ==
  /\ ProperList(list) /\ Clear(list) /\ Extends(list, first)
  /\ \A i \in DOMAIN list : \/ i \in DOMAIN first /\ list[i] = first[i]
                            \/ \E h \in Heads(kept) : IsWindow(list[i], kept, h)
  /\ \A h \in D : \E i \in DOMAIN list : IsWindow(list[i], kept, h)

\* One more group.
LEMMA TakeGroupKeeps ==
  ASSUME Project, NEW first, FoundByName(first, Files, covered), NEW kept, Kept(kept),
         \A g \in kept : Passes(g.file) /\ ~AlreadyVisible(g),
         NEW D, NEW list, WindowsSound(list, first, kept, D), NEW h \in Heads(kept)
  PROVE  WindowsSound(TakeGroup(list, GroupFor(kept, h)), first, kept, D \cup {h})
<1> DEFINE item == KeywordItem(list, GroupFor(kept, h))
           more == TakeGroup(list, GroupFor(kept, h))
<1>1. more = AddItem(list, item)
  BY DEF TakeGroup
<1>2. IsWindow(item, kept, h)
  BY KeywordIs
<1> HIDE DEF more, item
<1>3. h \in kept /\ Passes(h.file)
  BY DEF Heads
<1>4. Proper(item) /\ item.id = <<"keyword", h.file, h.line>>
  <2>1. IsItem(item) /\ item.source = "Custom" /\ item.file = h.file /\ item.id = <<"keyword", h.file, h.line>>
    BY <1>2 DEF IsWindow
  <2>2. IsKeyword(item)
    BY <1>3, <2>1 DEF IsKeyword
  <2> QED BY <2>1, <2>2 DEF Proper
<1>5. /\ ProperList(list) /\ Clear(list) /\ Extends(list, first)
      /\ \A i \in DOMAIN list : \/ i \in DOMAIN first /\ list[i] = first[i]
                                \/ \E o \in Heads(kept) : IsWindow(list[i], kept, o)
      /\ \A o \in D : \E i \in DOMAIN list : IsWindow(list[i], kept, o)
  BY DEF WindowsSound
<1>6. Added(list, item, more)
  BY <1>1, <1>4, <1>5, AddExtends
<1>7. /\ ProperList(more) /\ Extends(more, list)
      /\ \E i \in DOMAIN more : more[i].id = item.id
      /\ \A i \in DOMAIN more : (i \in DOMAIN list /\ more[i] = list[i]) \/ more[i] = item
  BY <1>6 DEF Added
<1>8. \A i \in DOMAIN first : first[i].id # item.id
  <2> SUFFICES ASSUME NEW i \in DOMAIN first PROVE first[i].id # item.id
    OBVIOUS
  <2>1. Proper(first[i]) /\ first[i].source \in {"Symbol", "File", "Dependency"}
    BY DEF FoundByName, ProperList
  <2>2. \/ \E s \in project.symbols : first[i].id = <<"symbol", s.file, s.name>>
        \/ first[i].id = <<"file", first[i].file>>
        \/ \E g : first[i].id = <<"dependency", first[i].file, g>>
    BY <2>1 DEF Proper, IsSymbol, IsSymbolOf, IsFile, IsDependency
  <2> QED BY <1>4, <2>2
<1>9. ASSUME NEW i \in DOMAIN list, list[i].id = item.id PROVE IsWindow(list[i], kept, h)
  <2>1. PICK o \in Heads(kept) : IsWindow(list[i], kept, o)
    BY <1>5, <1>8, <1>9
  <2>2. o.file = h.file /\ o.line = h.line
    BY <1>4, <1>9, <2>1 DEF IsWindow
  <2>3. o = h
    BY <2>2 DEF Heads, Kept
  <2> QED BY <2>1, <2>3
<1>10. Clear(more)
  <2>1. CASE \E i \in DOMAIN list : list[i].id = item.id
    <3>1. more = list
      BY <1>1, <2>1 DEF AddItem
    <3> QED BY <1>5, <3>1
  <2>2. CASE \A i \in DOMAIN list : list[i].id # item.id
    <3>1. ASSUME NEW i \in DOMAIN list PROVE Apart(list[i], item)
      <4>1. CASE i \in DOMAIN first /\ list[i] = first[i]
        <5>1. Apart(first[i], item)
          BY <1>2, <4>1, WindowIsNew
        <5> QED BY <4>1, <5>1
      <4>2. CASE \E o \in Heads(kept) : IsWindow(list[i], kept, o)
        BY <1>2, <2>2, <4>2, WindowsAreApart
      <4> QED BY <1>5, <4>1, <4>2
    <3> QED BY <1>1, <1>5, <3>1, AddClear
  <2> QED BY <2>1, <2>2
<1>11. Extends(more, first)
  BY <1>5, <1>7 DEF Extends
<1>12. \A i \in DOMAIN more : \/ i \in DOMAIN first /\ more[i] = first[i]
                              \/ \E o \in Heads(kept) : IsWindow(more[i], kept, o)
  BY <1>2, <1>5, <1>7
<1>13. ASSUME NEW o \in D \cup {h} PROVE \E i \in DOMAIN more : IsWindow(more[i], kept, o)
  <2>1. CASE o \in D
    BY <1>5, <1>7, <2>1 DEF Extends
  <2>2. CASE o = h
    BY <1>2, <1>7, <1>9, <2>2
  <2> QED BY <1>13, <2>1, <2>2
<1>14. WindowsSound(more, first, kept, D \cup {h})
  BY <1>7, <1>10, <1>11, <1>12, <1>13 DEF WindowsSound
<1> QED BY <1>14 DEF more

\* All groups.
LEMMA KeywordsFold ==
  ASSUME Project, NEW first, FoundByName(first, Files, covered), NEW kept, Kept(kept),
         \A g \in kept : Passes(g.file) /\ ~AlreadyVisible(g)
  PROVE  WindowsSound(FoldLeft(TakeGroup, first, Groups(kept)), first, kept, Heads(kept))
<1> DEFINE seq == Groups(kept)
           end == FoldLeft(TakeGroup, first, seq)
           n == Len(seq)
           T == {GroupFor(kept, h) : h \in Heads(kept)}
           Seen(i) == {seq[k].head : k \in 1..i}
<1>0. \A h \in Heads(kept) : GroupFor(kept, h).head = h
  BY DEF GroupFor
<1>1. seq \in Seq(T) /\ \A h \in Heads(kept) : \E i \in 1..n : seq[i] = GroupFor(kept, h)
  BY GroupsAre
<1> HIDE DEF seq
<1>a. \A t \in T : \E h \in Heads(kept) : t = GroupFor(kept, h)
  OBVIOUS
<1> HIDE DEF T
<1>2. n \in Nat /\ DOMAIN seq = 1..n /\ \A i \in 1..n : seq[i] \in T
  BY <1>1
<1>3. PICK acc : Keywords!Runs(first, seq, acc) /\ Keywords!FoldLeft(TakeGroup, first, seq) = acc[n]
  BY <1>1, Keywords!FoldRuns
<1>4. end = acc[n]
  BY <1>3 DEF Keywords!FoldLeft, FoldLeft, Keywords!MapThenFoldSet, MapThenFoldSet, Keywords!Max, Max
<1>5. acc[0] = first /\ \A i \in 0..n : i < n => acc[i + 1] = TakeGroup(acc[i], seq[i + 1])
  BY <1>3 DEF Keywords!Runs
<1> DEFINE Done(i) == WindowsSound(acc[i], first, kept, Seen(i))
           S == {i \in 0..n : Done(i)}
<1>6. 0 \in S
  <2>1. Seen(0) = {}
    OBVIOUS
  <2> HIDE DEF Seen
  <2>2. WindowsSound(first, first, kept, {})
    BY DEF WindowsSound, FoundByName, Extends
  <2> QED BY <1>2, <1>5, <2>1, <2>2
<1>7. ASSUME NEW i \in 0..n, i < n, i \in S PROVE i + 1 \in S
  <2>1. i + 1 \in 1..n /\ i + 1 \in 0..n
    BY <1>2, <1>7
  <2>2. PICK h \in Heads(kept) : seq[i + 1] = GroupFor(kept, h)
    BY <1>2, <1>a, <2>1
  <2>3. Seen(i + 1) = Seen(i) \cup {h}
    <3>1. seq[i + 1].head = h
      BY <1>0, <2>2
    <3>3. \A k \in 1..(i + 1) : k \in 1..i \/ k = i + 1
      BY <1>7
    <3>4. i + 1 \in 1..(i + 1) /\ \A k \in 1..i : k \in 1..(i + 1)
      BY <1>7
    <3> QED BY <3>1, <3>3, <3>4
  <2> HIDE DEF Seen
  <2>4. acc[i + 1] = TakeGroup(acc[i], GroupFor(kept, h))
    BY <1>5, <1>7, <2>2
  <2>5. WindowsSound(acc[i], first, kept, Seen(i))
    BY <1>7
  <2>6. WindowsSound(acc[i + 1], first, kept, Seen(i) \cup {h})
    BY <2>4, <2>5, TakeGroupKeeps
  <2> QED BY <2>1, <2>3, <2>6
<1> HIDE DEF S
<1>8. n \in 0..n /\ \A i \in 0..n : i \in S
  <2>1. \A i \in 0..n : i < n /\ i \in S => i + 1 \in S
    BY <1>7
  <2>2. n \in Nat
    BY <1>2
  <2> HIDE DEF n
  <2>3. \A i \in 0..n : i \in S
    BY <1>6, <2>1, <2>2, Symbols!UpTo
  <2> QED BY <2>2, <2>3
<1>9. Done(n)
  BY <1>8 DEF S
<1>10. Heads(kept) \subseteq Seen(n)
  BY <1>0, <1>1
<1> HIDE DEF Seen
<1>11. WindowsSound(acc[n], first, kept, Heads(kept))
  BY <1>9, <1>10 DEF WindowsSound
<1> QED BY <1>4, <1>11 DEF seq

-----------------------------------------------------------------------------
\* Every line with a hit that may be sent is shown or near what is.
KeywordsShown(list) ==
  \A h \in Lines : Passes(h.file) /\ HasContent(h.file) =>
    \E i \in DOMAIN list : ShowsLine(list[i], h.file, h.line) \/ (list[i].file = h.file /\ list[i].cut)

\* The stage of the lines.
LEMMA KeywordsStage ==
  ASSUME Project, FoundByName(items, Files, covered), NEW top \in Best(MaxKeywords)
  PROVE  LET kept == {h \in top : Passes(h.file) /\ ~AlreadyVisible(h)}
             end == FoldLeft(TakeGroup, items, Groups(kept))
         IN  /\ ProperList(end) /\ Clear(end) /\ Extends(end, items)
             /\ Cardinality(Lines) <= MaxKeywords => KeywordsShown(end)
<1> DEFINE kept == {h \in top : Passes(h.file) /\ ~AlreadyVisible(h)}
           end == FoldLeft(TakeGroup, items, Groups(kept))
<1>1. top \in SUBSET Lines /\ Cardinality(top) = Clamp(Cardinality(Lines), 0, MaxKeywords)
  BY DEF Best, kSubset
<1>2. kept \subseteq Lines /\ \A g \in kept : Passes(g.file) /\ ~AlreadyVisible(g)
  BY <1>1
<1>3. \A g \in top : Passes(g.file) => g \in kept \/ AlreadyVisible(g)
  OBVIOUS
<1> HIDE DEF kept
<1>4. Kept(kept)
  <2>1. IsFiniteSet(kept)
    BY <1>2, LinesAre, FS_Subset
  <2> QED BY <1>2, <2>1, LinesAre DEF Kept
<1>5. WindowsSound(end, items, kept, Heads(kept))
  BY <1>2, <1>4, KeywordsFold
<1> HIDE DEF end
<1>6. ASSUME Cardinality(Lines) <= MaxKeywords PROVE top = Lines
  <2>1. IsFiniteSet(Lines) /\ Cardinality(Lines) \in Nat /\ MaxKeywords \in Nat
    BY LinesAre, FS_CardinalityType, CapsAreNumbers
  <2>2. Cardinality(top) = Cardinality(Lines)
    BY <1>1, <1>6, <2>1 DEF Clamp
  <2> QED BY <1>1, <2>1, <2>2, FS_Subset
<1>7. ASSUME Cardinality(Lines) <= MaxKeywords, NEW h \in Lines, Passes(h.file), HasContent(h.file)
      PROVE  \E i \in DOMAIN end : ShowsLine(end[i], h.file, h.line) \/ (end[i].file = h.file /\ end[i].cut)
  <2>1. CASE h \in kept
    <3>1. PICK o \in Heads(kept) : h \in GroupOf(kept, o)
      BY <1>4, <2>1, HitsAreGrouped
    <3>2. PICK i \in DOMAIN end : IsWindow(end[i], kept, o)
      BY <1>5 DEF WindowsSound
    <3>3. end[i].file = h.file /\ end[i].source = "Custom" /\ IsItem(end[i])
      BY <3>1, <3>2 DEF IsWindow, GroupOf
    <3>4. end[i].cut \/ (end[i].first <= h.line /\ h.line <= end[i].last)
      BY <1>7, <3>1, <3>2, <3>3 DEF IsWindow, ShowsAll
    <3>5. h.line \in Nat /\ end[i].first \in Int /\ end[i].last \in Int
      BY <3>3, LinesAre DEF IsItem
    <3>6. h.line + 0 = h.line /\ end[i].last + 0 = end[i].last
      BY <3>5
    <3> QED BY <3>3, <3>4, <3>5, <3>6 DEF ShowsLine
  <2>2. CASE AlreadyVisible(h)
    <3>1. PICK r \in covered : r.file = h.file /\ h.line + kWindow >= r.first /\ h.line - kWindow <= r.last
      BY <2>2 DEF AlreadyVisible
    <3>2. r.first \in Int /\ r.last \in Int /\ \E i \in DOMAIN items : Reaches(items[i], r)
      BY DEF FoundByName, Covering
    <3>3. PICK i \in DOMAIN items : Reaches(items[i], r)
      BY <3>2
    <3> DEFINE item == items[i]
    <3>4. /\ item.source # "Custom" /\ item.file = h.file /\ item.first <= r.first
          /\ r.last <= item.last \/ project.lines[h.file] <= item.last
      BY <3>1, <3>3 DEF Reaches
    <3>5. item.first \in Int /\ item.last \in Int /\ h.line \in Nat /\ h.line <= project.lines[h.file]
          /\ project.lines[h.file] \in Nat
      BY LinesAre DEF FoundByName, ProperList, Proper, IsItem
    <3> HIDE DEF item
    <3>6. item.first <= h.line + kWindow /\ h.line <= item.last + kWindow
      BY <3>1, <3>2, <3>4, <3>5 DEF kWindow
    <3>7. ShowsLine(item, h.file, h.line)
      BY <3>4, <3>6 DEF ShowsLine
    <3>8. i \in DOMAIN end /\ end[i] = item
      BY <1>5 DEF WindowsSound, Extends, item
    <3> QED BY <3>7, <3>8
  <2> QED BY <1>3, <1>6, <1>7, <2>1, <2>2
<1>8. ProperList(end) /\ Clear(end) /\ Extends(end, items)
  BY <1>5 DEF WindowsSound
<1>9. Cardinality(Lines) <= MaxKeywords => KeywordsShown(end)
  BY <1>7 DEF KeywordsShown
<1> QED BY <1>8, <1>9 DEF end, kept

-----------------------------------------------------------------------------
(* What the backends offer, and what is too weak. *)

Offers == INSTANCE FoldFacts WITH Op <- TakeOffer
Strong == INSTANCE FoldFacts WITH Op <- KeepStrong

\* The item of an offer: a file's, of some of its lines, or one that shows none.
LEMMA OfferIsProper ==
  ASSUME Project, NEW o \in ToSet(project.offered), o.name \in Files => Passes(o.name)
  PROVE  LET full == OfferedItem(o)
         IN  /\ Proper(full) /\ full.offered /\ full.id = OfferedId(o) /\ full.file = o.name /\ full.source = o.source
             /\ full.source # "File" => full.first = 1 /\ full.last = 0
<1> DEFINE p == Min({o.priority, 10})
           level == IF o.whole THEN "Raw" ELSE "Summary"
           none == Shows(OfferedId(o), o.source, "Raw", o.name, 1, 0, p)
           some == Shows(OfferedId(o), o.source, level, o.name, o.first, o.last, p)
           lines == [some EXCEPT !.whole = o.whole]
           item == IF o.source # "File" THEN none ELSE lines
           full == OfferedItem(o)
<1>1. o.source \in {"GitDiff", "Custom", "File"} /\ o.priority \in Int /\ o.chars \in Nat
  BY ProjectsAreProjects DEF Project
<1>2. ASSUME o.source = "File"
      PROVE  /\ o.name \in Files /\ o.whole \in BOOLEAN /\ o.first \in Nat \ {0}
             /\ o.last \in Int /\ o.first <= o.last
  <2>1. /\ o.name \in Files /\ o.whole \in BOOLEAN /\ o.first \in Nat \ {0}
        /\ o.last \in o.first..project.lines[o.name]
    BY <1>2, ProjectsAreProjects DEF Project, Files
  <2>2. project.lines[o.name] \in Nat
    BY <2>1, ProjectFacts
  <2> QED BY <2>1, <2>2
<1>3. p \in Int
  <2>1. \E x \in {o.priority, 10} : \A y \in {o.priority, 10} : x <= y
    BY <1>1
  <2>2. p \in {o.priority, 10}
    BY <2>1 DEF Min
  <2> HIDE DEF p
  <2> QED BY <1>1, <2>2
<1>4. Ceil4(o.chars) \in Int /\ o.chars \in Int
  BY <1>1, Ceil4Is
<1>5. full = [item EXCEPT !.offered = TRUE, !.chars = o.chars, !.tokens = Ceil4(o.chars)]
  BY DEF OfferedItem
<1> HIDE DEF p, full
<1>6. CASE o.source # "File"
  <2>1. /\ IsItem(none) /\ none.id = OfferedId(o) /\ none.source = o.source /\ none.file = o.name
        /\ none.first = 1 /\ none.last = 0 /\ ~none.whole /\ ~none.cut
    <3>1. o.source \in Sources /\ "Raw" \in Levels /\ 1 \in Nat \ {0} /\ 0 \in Int
      BY <1>1 DEF Sources, Levels
    <3> QED BY <1>3, <3>1, ShowsIs
  <2>2. full = [none EXCEPT !.offered = TRUE, !.chars = o.chars, !.tokens = Ceil4(o.chars)]
    BY <1>5, <1>6
  <2> HIDE DEF none
  <2>3. /\ IsItem(full) /\ full.id = OfferedId(o) /\ full.source = o.source /\ full.file = o.name
        /\ full.first = 1 /\ full.last = 0 /\ ~full.whole /\ full.offered
    <3>1. none \in [id : {none.id}, source : Sources, level : Levels, file : {none.file}, first : Nat \ {0}, last : Int,
                    whole : BOOLEAN, cut : BOOLEAN, offered : BOOLEAN, priority : Int, chars : Int, tokens : Int]
      BY <2>1 DEF IsItem
    <3>2. full = [id |-> none.id, source |-> none.source, level |-> none.level, file |-> none.file,
                  first |-> none.first, last |-> none.last, whole |-> none.whole, cut |-> none.cut, offered |-> TRUE,
                  priority |-> none.priority, chars |-> o.chars, tokens |-> Ceil4(o.chars)]
      BY <2>2, <3>1
    <3> QED BY <1>4, <2>1, <3>1, <3>2 DEF IsItem
  <2>4. IsOffer(full)
    BY <1>6, <2>3 DEF IsOffer, OfferedId
  <2> QED BY <1>1, <1>6, <2>3, <2>4 DEF Proper, full
<1>7. CASE o.source = "File"
  <2>1. /\ IsItem(some) /\ some.id = OfferedId(o) /\ some.source = o.source /\ some.file = o.name
        /\ some.first = o.first /\ some.last = o.last /\ ~some.cut
    <3>1. o.source \in Sources /\ level \in Levels
      BY <1>7 DEF Sources, Levels
    <3> HIDE DEF level
    <3> QED BY <1>2, <1>3, <1>7, <3>1, ShowsIs
  <2>2. full = [lines EXCEPT !.offered = TRUE, !.chars = o.chars, !.tokens = Ceil4(o.chars)]
    BY <1>5, <1>7
  <2> HIDE DEF some
  <2>3. /\ IsItem(full) /\ full.id = OfferedId(o) /\ full.source = o.source /\ full.file = o.name
        /\ full.first = o.first /\ full.last = o.last /\ ~full.cut /\ full.offered
    <3>1. some \in [id : {some.id}, source : Sources, level : Levels, file : {some.file}, first : Nat \ {0}, last : Int,
                    whole : BOOLEAN, cut : BOOLEAN, offered : BOOLEAN, priority : Int, chars : Int, tokens : Int]
      BY <2>1 DEF IsItem
    <3>2. full = [id |-> some.id, source |-> some.source, level |-> some.level, file |-> some.file,
                  first |-> some.first, last |-> some.last, whole |-> o.whole, cut |-> some.cut, offered |-> TRUE,
                  priority |-> some.priority, chars |-> o.chars, tokens |-> Ceil4(o.chars)]
      BY <2>2, <3>1
    <3> QED BY <1>2, <1>4, <1>7, <2>1, <3>1, <3>2 DEF IsItem
  <2>4. IsFile(full)
    BY <1>2, <1>7, <2>3 DEF IsFile, OfferedId
  <2> QED BY <1>7, <2>3, <2>4 DEF Proper, full
<1> QED BY <1>6, <1>7

\* One more offer: a file that an item is about already is not sent again.
LEMMA TakeOfferKeeps ==
  ASSUME Project, NEW list, ProperList(list), Clear(list), NEW o \in ToSet(project.offered)
  PROVE  ProperList(TakeOffer(list, o)) /\ Clear(TakeOffer(list, o))
<1> DEFINE full == OfferedItem(o)
<1>1. TakeOffer(list, o) = IF o.name \in Files /\ ~Passes(o.name) THEN list ELSE AddItem(list, full)
  BY DEF TakeOffer, Files
<1>2. CASE o.name \in Files /\ ~Passes(o.name)
  BY <1>1, <1>2
<1>3. CASE o.name \in Files => Passes(o.name)
  <2>1. /\ Proper(full) /\ full.offered /\ full.id = OfferedId(o) /\ full.file = o.name /\ full.source = o.source
        /\ full.source # "File" => full.first = 1 /\ full.last = 0
    BY <1>3, OfferIsProper
  <2> HIDE DEF full
  <2>2. ProperList(AddItem(list, full))
    BY <2>1, AddProper
  <2>3. \A i \in DOMAIN list : Proper(list[i]) /\ IsItem(list[i])
    BY DEF ProperList, Proper
  <2>4. Clear(AddItem(list, full))
    <3>1. CASE \E i \in DOMAIN list : list[i].id = full.id
      BY <3>1 DEF AddItem
    <3>2. CASE \A i \in DOMAIN list : list[i].id # full.id
      <4>1. ASSUME NEW i \in DOMAIN list PROVE Apart(list[i], full)
        <5>1. CASE full.source # "File"
          BY <2>1, <2>3, <5>1, NothingIsApart
        <5>2. CASE list[i].source # "File"
          BY <2>1, <5>2 DEF Apart
        <5>3. CASE full.source = "File" /\ list[i].source = "File"
          <6>1. list[i].id = <<"file", list[i].file>>
            BY <2>3, <5>3 DEF Proper, IsFile
          <6>2. full.id = <<"file", full.file>>
            BY <2>1, <5>3 DEF OfferedId
          <6>3. list[i].file # full.file
            BY <3>2, <6>1, <6>2
          <6> QED BY <6>3 DEF Apart, Overlap
        <5> QED BY <5>1, <5>2, <5>3
      <4> QED BY <4>1, AddClear
    <3> QED BY <3>1, <3>2
  <2>5. TakeOffer(list, o) = AddItem(list, full)
    BY <1>1, <1>3
  <2> QED BY <2>2, <2>4, <2>5
<1> QED BY <1>2, <1>3

\* All offers.
LEMMA OffersFold ==
  ASSUME Project, NEW list, ProperList(list), Clear(list)
  PROVE  LET end == FoldLeft(TakeOffer, list, project.offered) IN ProperList(end) /\ Clear(end)
<1> DEFINE seq == project.offered
           end == FoldLeft(TakeOffer, list, seq)
           n == Len(seq)
           T == ToSet(project.offered)
<1>1. seq \in Seq(T)
  BY ProjectsAreProjects DEF Project
<1> HIDE DEF seq, T
<1>2. n \in Nat /\ DOMAIN seq = 1..n /\ \A i \in 1..n : seq[i] \in T
  BY <1>1
<1>3. PICK acc : Offers!Runs(list, seq, acc) /\ Offers!FoldLeft(TakeOffer, list, seq) = acc[n]
  BY <1>1, Offers!FoldRuns
<1>4. end = acc[n]
  BY <1>3 DEF Offers!FoldLeft, FoldLeft, Offers!MapThenFoldSet, MapThenFoldSet, Offers!Max, Max
<1>5. acc[0] = list /\ \A i \in 0..n : i < n => acc[i + 1] = TakeOffer(acc[i], seq[i + 1])
  BY <1>3 DEF Offers!Runs
<1> DEFINE S == {i \in 0..n : ProperList(acc[i]) /\ Clear(acc[i])}
<1>6. 0 \in S
  BY <1>2, <1>5
<1>7. ASSUME NEW i \in 0..n, i < n, i \in S PROVE i + 1 \in S
  <2>1. i + 1 \in 1..n /\ i + 1 \in 0..n
    BY <1>2, <1>7
  <2>2. seq[i + 1] \in T /\ acc[i + 1] = TakeOffer(acc[i], seq[i + 1])
    BY <1>2, <1>5, <1>7, <2>1
  <2>3. ProperList(acc[i + 1]) /\ Clear(acc[i + 1])
    BY <1>7, <2>2, TakeOfferKeeps DEF T
  <2> QED BY <2>1, <2>3
<1> HIDE DEF S
<1>8. n \in 0..n /\ \A i \in 0..n : i \in S
  <2>1. \A i \in 0..n : i < n /\ i \in S => i + 1 \in S
    BY <1>7
  <2>2. n \in Nat
    BY <1>2
  <2> HIDE DEF n
  <2>3. \A i \in 0..n : i \in S
    BY <1>6, <2>1, <2>2, Symbols!UpTo
  <2> QED BY <2>2, <2>3
<1> QED BY <1>4, <1>8 DEF S, seq

-----------------------------------------------------------------------------
IsCut(acc) == acc \in [kept : {acc.kept}, sites : {acc.sites}]

\* KeepStrong keeps the item or leaves it.
LEMMA KeepStrongIs ==
  ASSUME NEW acc, IsCut(acc), NEW item
  PROVE  LET next == KeepStrong(acc, item)
         IN  IsCut(next) /\ (next.kept = acc.kept \/ next.kept = Append(acc.kept, item))
<1> DEFINE kept == [acc EXCEPT !.kept = Append(@, item)]
<1>1. IsCut(kept) /\ kept.kept = Append(acc.kept, item)
  BY DEF IsCut
<1>2. \/ KeepStrong(acc, item) = kept
      \/ KeepStrong(acc, item) = acc
      \/ KeepStrong(acc, item) = [kept EXCEPT !.sites = @ + 1]
      \/ KeepStrong(acc, item) = [acc EXCEPT !.sites = @ + 1]
  BY DEF KeepStrong
<1> HIDE DEF kept
<1>3. /\ IsCut([kept EXCEPT !.sites = @ + 1]) /\ [kept EXCEPT !.sites = @ + 1].kept = kept.kept
      /\ IsCut([acc EXCEPT !.sites = @ + 1]) /\ [acc EXCEPT !.sites = @ + 1].kept = acc.kept
  BY <1>1 DEF IsCut
<1> QED BY <1>1, <1>2, <1>3

\* What is kept of a list without a line twice has none twice.
LEMMA CutWeakKeeps ==
  ASSUME ProperList(items), Clear(items)
  PROVE  ProperList(CutWeak) /\ Clear(CutWeak)
<1> DEFINE start == [kept |-> <<>>, sites |-> 0]
           end == FoldLeft(KeepStrong, start, items)
           n == Len(items)
<1>1. PICK T : items \in Seq(T)
  BY DEF ProperList, IsList
<1>2. n \in Nat /\ DOMAIN items = 1..n
  BY <1>1
<1>3. PICK acc : Strong!Runs(start, items, acc) /\ Strong!FoldLeft(KeepStrong, start, items) = acc[n]
  BY <1>1, Strong!FoldRuns
<1>4. end = acc[n]
  BY <1>3 DEF Strong!FoldLeft, FoldLeft, Strong!MapThenFoldSet, MapThenFoldSet, Strong!Max, Max
<1>5. acc[0] = start /\ \A i \in 0..n : i < n => acc[i + 1] = KeepStrong(acc[i], items[i + 1])
  BY <1>3 DEF Strong!Runs
<1> DEFINE Part(list, i) == /\ IsList(list) /\ Clear(list)
                            /\ \A k \in DOMAIN list : \E j \in 1..i : list[k] = items[j]
           S == {i \in 0..n : IsCut(acc[i]) /\ Part(acc[i].kept, i)}
<1>6. 0 \in S
  <2>1. IsCut(start) /\ start.kept = <<>> /\ <<>> \in Seq({}) /\ DOMAIN <<>> = {}
    BY DEF IsCut
  <2> HIDE DEF start
  <2>2. Part(<<>>, 0)
    BY <2>1 DEF IsList, Clear
  <2> HIDE DEF Part
  <2> QED BY <1>2, <1>5, <2>1, <2>2
<1>7. ASSUME NEW i \in 0..n, i < n, i \in S PROVE i + 1 \in S
  <2>1. i + 1 \in 1..n /\ i + 1 \in 0..n /\ i + 1 \in 1..(i + 1) /\ \A j \in 1..i : j \in 1..(i + 1) /\ j \in 1..n /\ j < i + 1
    BY <1>2, <1>7
  <2> DEFINE list == acc[i].kept
             item == items[i + 1]
             more == Append(list, item)
  <2>2. /\ IsCut(acc[i + 1]) /\ (acc[i + 1].kept = list \/ acc[i + 1].kept = more)
    <3>1. acc[i + 1] = KeepStrong(acc[i], item) /\ IsCut(acc[i])
      BY <1>5, <1>7
    <3> QED BY <3>1, KeepStrongIs
  <2>3. IsList(list) /\ Clear(list) /\ \A k \in DOMAIN list : \E j \in 1..i : list[k] = items[j]
    BY <1>7
  <2> HIDE DEF list
  <2>4. Part(list, i + 1)
    BY <2>1, <2>3
  <2>5. Part(more, i + 1)
    <3>1. /\ IsList(more) /\ Len(list) \in Nat /\ DOMAIN list = 1..Len(list) /\ DOMAIN more = 1..(Len(list) + 1)
          /\ \A k \in DOMAIN list : more[k] = list[k]
          /\ more[Len(list) + 1] = item
      BY <2>3, AppendList
    <3> HIDE DEF more, item
    <3>2. \A k \in DOMAIN list : Apart(list[k], item)
      <4> SUFFICES ASSUME NEW k \in DOMAIN list PROVE Apart(list[k], item)
        OBVIOUS
      <4>1. PICK j \in 1..i : list[k] = items[j]
        BY <2>3
      <4> QED BY <1>2, <2>1, <4>1 DEF Clear, item
    <3>3. ASSUME NEW k \in DOMAIN more, NEW l \in DOMAIN more, k < l PROVE Apart(more[k], more[l])
      <4>1. k \in DOMAIN list /\ (l \in DOMAIN list \/ l = Len(list) + 1)
        BY <3>1, <3>3
      <4> QED BY <2>3, <3>1, <3>2, <3>3, <4>1 DEF Clear
    <3>4. ASSUME NEW k \in DOMAIN more PROVE \E j \in 1..(i + 1) : more[k] = items[j]
      <4>1. k \in DOMAIN list \/ k = Len(list) + 1
        BY <3>1, <3>4
      <4> QED BY <2>1, <2>3, <3>1, <4>1 DEF item
    <3> QED BY <3>1, <3>3, <3>4 DEF Clear
  <2> HIDE DEF Part
  <2> QED BY <2>1, <2>2, <2>4, <2>5
<1> HIDE DEF S
<1>8. n \in 0..n /\ \A i \in 0..n : i \in S
  <2>1. \A i \in 0..n : i < n /\ i \in S => i + 1 \in S
    BY <1>7
  <2>2. n \in Nat
    BY <1>2
  <2> HIDE DEF n
  <2>3. \A i \in 0..n : i \in S
    BY <1>6, <2>1, <2>2, Symbols!UpTo
  <2> QED BY <2>2, <2>3
<1>9. Part(acc[n].kept, n)
  BY <1>8 DEF S
<1>10. CutWeak = acc[n].kept
  BY <1>4 DEF CutWeak
<1>11. ProperList(acc[n].kept)
  BY <1>2, <1>9 DEF ProperList
<1> QED BY <1>9, <1>10, <1>11

-----------------------------------------------------------------------------
(* The budget. *)

Costs == INSTANCE FoldFacts WITH Op <- AddCost
Charges == INSTANCE FoldFacts WITH Op <- Charge

Better(i, j) == items[i].priority > items[j].priority \/ (items[i].priority = items[j].priority /\ i < j)
ByRank == INSTANCE FoldFacts WITH Op <- Better

\* The cost of an item is a number.
LEMMA CostIsNumber ==
  ASSUME NEW item, IsItem(item)
  PROVE  ResponseItemCost(item) \in Int
<1> DEFINE level == [Raw |-> 3, Symbol |-> 6, Summary |-> 7, Reference |-> 9][item.level]
<1>1. level \in Int
  <2>1. item.level \in {"Raw", "Symbol", "Summary", "Reference"}
    BY DEF IsItem, Levels
  <2> QED BY <2>1
<1>2. ResponseItemCost(item) = Ceil4(item.chars + 110 + level)
  BY DEF ResponseItemCost
<1> HIDE DEF level
<1>3. item.chars + 110 + level \in Int
  BY <1>1 DEF IsItem
<1> QED BY <1>2, <1>3, Ceil4Is

\* What is shortened remains the same item.
LEMMA CompressIs ==
  ASSUME NEW item, IsItem(item), NEW target \in Int
  PROVE  IsItem(Compress(item, target)) /\ Compress(item, target).id = item.id
<1> DEFINE room == 4 * target - 36
           D == {d \in 1..9 : item.chars - room >= 10^d}
           chars == room + 26 + (1 + Cardinality(D))
           some == [item EXCEPT !.level = "Summary", !.chars = chars]
           less == [item EXCEPT !.level = "Summary", !.chars = chars, !.tokens = Ceil4(chars)]
<1>1. chars \in Int
  <2> DEFINE nine == 9
             R == 1..nine
  <2>0. 1 \in Int /\ nine \in Int
    OBVIOUS
  <2> HIDE DEF nine
  <2>a. IsFiniteSet(R)
    BY <2>0, FS_Interval
  <2> USE DEF nine
  <2> DEFINE B(d) == item.chars - room >= 10^d
  <2>b. D = {d \in R : B(d)}
    OBVIOUS
  <2> HIDE DEF R, B
  <2>c. {d \in R : B(d)} \in SUBSET R
    OBVIOUS
  <2>1. D \in SUBSET R /\ IsFiniteSet(R)
    <3> HIDE DEF D
    <3> QED BY <2>a, <2>b, <2>c
  <2> HIDE DEF D
  <2>2. Cardinality(D) \in Nat
    BY <2>1, FS_Subset, FS_CardinalityType
  <2> QED BY <2>2
<1>2. Compress(item, target) = item \/ Compress(item, target) = less
  BY DEF Compress
<1> HIDE DEF chars
<1>3. Ceil4(chars) \in Int /\ "Summary" \in Levels
  BY <1>1, Ceil4Is DEF Levels
<1>4. IsItem(some) /\ some.id = item.id
  BY <1>1, <1>3 DEF IsItem
<1>5. less = [some EXCEPT !.tokens = Ceil4(chars)]
  BY DEF IsItem
<1> HIDE DEF some, less
<1>6. IsItem(less) /\ less.id = item.id
  BY <1>3, <1>4, <1>5 DEF IsItem
<1> QED BY <1>2, <1>6

\* The cost of one item more.
LEMMA CostAppend ==
  ASSUME NEW list, IsList(list), NEW item
  PROVE  FoldLeft(AddCost, 0, Append(list, item)) = FoldLeft(AddCost, 0, list) + ResponseItemCost(item)
<1>1. PICK S : list \in Seq(S)
  BY DEF IsList
<1> DEFINE T == S \cup {item}
<1>2. list \in Seq(T) /\ item \in T
  BY <1>1
<1> HIDE DEF T
<1>3. Costs!FoldLeft(AddCost, 0, Append(list, item)) = AddCost(Costs!FoldLeft(AddCost, 0, list), item)
  BY <1>2, Costs!FoldAppend
<1>4. /\ Costs!FoldLeft(AddCost, 0, list) = FoldLeft(AddCost, 0, list)
      /\ Costs!FoldLeft(AddCost, 0, Append(list, item)) = FoldLeft(AddCost, 0, Append(list, item))
  BY DEF Costs!FoldLeft, FoldLeft, Costs!MapThenFoldSet, MapThenFoldSet, Costs!Max, Max
<1> QED BY <1>3, <1>4 DEF AddCost

Listed(sel, id) == \E list \in {sel.included, sel.excluded} : \E j \in DOMAIN list : list[j].id = id

Charged(sel, budget) ==
  /\ sel \in [included : {sel.included}, excluded : {sel.excluded}, used : Int, budget : {budget}]
  /\ IsList(sel.included) /\ IsList(sel.excluded)
  /\ FoldLeft(AddCost, 0, sel.included) = sel.used
  /\ sel.used <= budget

\* One more item.
LEMMA ChargeKeeps ==
  ASSUME NEW budget \in Nat, NEW sel, Charged(sel, budget), NEW item, IsItem(item)
  PROVE  /\ Charged(Charge(sel, item), budget) /\ Listed(Charge(sel, item), item.id)
         /\ \A id : Listed(sel, id) => Listed(Charge(sel, item), id)
<1> DEFINE cost == ResponseItemCost(item)
           remaining == sel.budget - sel.used
           target == remaining - (cost - item.tokens)
           compressed == Compress(item, target)
           less == ResponseItemCost(compressed)
           next == Charge(sel, item)
<1>1. next = IF cost <= remaining THEN Include(sel, item, cost)
             ELSE IF remaining > 0 /\ target > 0 /\ less <= remaining THEN Include(sel, compressed, less)
             ELSE [sel EXCEPT !.excluded = Append(@, item)]
  BY DEF Charge
<1>2. cost \in Int /\ item.tokens \in Int
  BY CostIsNumber DEF IsItem
<1>3. sel.used \in Int /\ sel.budget = budget /\ remaining \in Int
  BY DEF Charged
<1> HIDE DEF cost, remaining
<1>4. target \in Int
  BY <1>2, <1>3
<1> HIDE DEF target
<1>5. IsItem(compressed) /\ compressed.id = item.id
  BY <1>4, CompressIs
<1> HIDE DEF compressed
<1>6. less \in Int
  BY <1>5, CostIsNumber
<1> HIDE DEF next
<1>7. ASSUME NEW one, one.id = item.id, NEW price \in Int, price = ResponseItemCost(one), price <= remaining,
             next = Include(sel, one, price)
      PROVE  Charged(next, budget) /\ Listed(next, item.id) /\ \A id : Listed(sel, id) => Listed(next, id)
  <2>1. /\ next.included = Append(sel.included, one) /\ next.excluded = sel.excluded
        /\ next.used = sel.used + price /\ next.budget = budget
        /\ next \in [included : {next.included}, excluded : {next.excluded}, used : Int, budget : {budget}]
    <3>1. next = [sel EXCEPT !.included = Append(sel.included, one), !.used = sel.used + price]
      BY <1>7 DEF Include
    <3>2. sel \in [included : {sel.included}, excluded : {sel.excluded}, used : Int, budget : {budget}]
      BY DEF Charged
    <3>3. sel.used + price \in Int
      BY <1>3, <1>7
    <3> QED BY <3>1, <3>2, <3>3
  <2>2. /\ IsList(next.included) /\ Len(sel.included) \in Nat /\ DOMAIN sel.included = 1..Len(sel.included)
        /\ DOMAIN next.included = 1..(Len(sel.included) + 1)
        /\ \A i \in DOMAIN sel.included : next.included[i] = sel.included[i]
        /\ next.included[Len(sel.included) + 1] = one
    BY <2>1, AppendList DEF Charged
  <2>3. FoldLeft(AddCost, 0, next.included) = next.used
    BY <1>7, <2>1, CostAppend DEF Charged
  <2>4. next.used <= budget
    BY <1>3, <1>7, <2>1 DEF remaining
  <2>5. Charged(next, budget)
    BY <2>1, <2>2, <2>3, <2>4 DEF Charged
  <2>6. Len(sel.included) + 1 \in DOMAIN next.included /\ DOMAIN sel.included \subseteq DOMAIN next.included
    BY <2>2
  <2>7. Listed(next, item.id)
    BY <1>7, <2>2, <2>6 DEF Listed
  <2>8. ASSUME NEW id, Listed(sel, id) PROVE Listed(next, id)
    BY <2>1, <2>2, <2>6, <2>8 DEF Listed
  <2> QED BY <2>5, <2>7, <2>8
<1>8. CASE next = Include(sel, item, cost) /\ cost <= remaining
  <2>1. cost = ResponseItemCost(item)
    BY DEF cost
  <2> QED BY <1>2, <1>7, <1>8, <2>1 DEF next
<1>9. CASE next = Include(sel, compressed, less) /\ less <= remaining
  <2>1. less = ResponseItemCost(compressed)
    OBVIOUS
  <2> QED BY <1>5, <1>6, <1>7, <1>9, <2>1 DEF next
<1>10. CASE next = [sel EXCEPT !.excluded = Append(@, item)]
  <2>1. /\ next.excluded = Append(sel.excluded, item) /\ next.included = sel.included
        /\ next.used = sel.used
        /\ next \in [included : {next.included}, excluded : {next.excluded}, used : Int, budget : {budget}]
    BY <1>10 DEF Charged
  <2>2. /\ IsList(next.excluded) /\ Len(sel.excluded) \in Nat /\ DOMAIN sel.excluded = 1..Len(sel.excluded)
        /\ DOMAIN next.excluded = 1..(Len(sel.excluded) + 1)
        /\ \A i \in DOMAIN sel.excluded : next.excluded[i] = sel.excluded[i]
        /\ next.excluded[Len(sel.excluded) + 1] = item
    BY <2>1, AppendList DEF Charged
  <2>5. Charged(next, budget)
    BY <2>1, <2>2 DEF Charged
  <2>6. Len(sel.excluded) + 1 \in DOMAIN next.excluded /\ DOMAIN sel.excluded \subseteq DOMAIN next.excluded
    BY <2>2
  <2>7. Listed(next, item.id)
    BY <2>2, <2>6 DEF Listed
  <2>8. ASSUME NEW id, Listed(sel, id) PROVE Listed(next, id)
    BY <2>1, <2>2, <2>6, <2>8 DEF Listed
  <2> QED BY <2>5, <2>7, <2>8 DEF next
<1> QED BY <1>1, <1>8, <1>9, <1>10 DEF next

\* The items by their priority, each once.
LEMMA ByPriorityIs ==
  ASSUME ProperList(items)
  PROVE  /\ ByPriority(items) \in Seq({items[i] : i \in DOMAIN items})
         /\ \A i \in DOMAIN items : \E k \in 1..Len(ByPriority(items)) : ByPriority(items)[k] = items[i]
<1> DEFINE D == DOMAIN items
           n == Cardinality(D)
           places == Sorted(D, Better)
           seq == ByPriority(items)
           T == {items[i] : i \in D}
<1>1. IsFiniteSet(D) /\ \A i \in D : i \in Nat /\ items[i].priority \in Int
  <2>1. PICK S : items \in Seq(S)
    BY DEF ProperList, IsList
  <2>2. D = 1..Len(items) /\ 1 \in Int /\ Len(items) \in Int
    BY <2>1
  <2>3. \A i \in D : items[i].priority \in Int
    BY DEF ProperList, Proper, IsItem
  <2> HIDE DEF D
  <2>4. IsFiniteSet(D)
    BY <2>2, FS_Interval
  <2>5. \A i \in D : i \in Nat
    BY <2>2
  <2> QED BY <2>3, <2>4, <2>5
<1>2. \A i \in D : items[i] \in T
  OBVIOUS
<1> HIDE DEF D
<1>3. /\ \A x \in D : ~Better(x, x)
      /\ \A x, y \in D : x # y => Better(x, y) \/ Better(y, x)
      /\ \A x, y, z \in D : Better(x, y) /\ Better(y, z) => Better(x, z)
  BY <1>1 DEF Better
<1>4. /\ ByRank!Cardinality(D) \in Nat
      /\ ByRank!Rank(D) \in [1..ByRank!Cardinality(D) -> D]
      /\ \A x \in D : \E i \in 1..ByRank!Cardinality(D) : ByRank!Rank(D)[i] = x
  <2>1. ByRank!IsFiniteSet(D)
    BY <1>1 DEF ByRank!IsFiniteSet, IsFiniteSet
  <2> QED BY <1>3, <2>1, ByRank!RankIsPermutation
<1>5. ByRank!Rank(D) = places /\ ByRank!Cardinality(D) = n
  BY DEF ByRank!Rank, Sorted, ByRank!Cardinality, Cardinality, ByRank!IsFiniteSet, IsFiniteSet
<1>6. n \in Nat /\ places \in [1..n -> D] /\ \A x \in D : \E i \in 1..n : places[i] = x
  BY <1>4, <1>5
<1>7. seq = [k \in DOMAIN places |-> items[places[k]]]
  BY DEF ByPriority, Sorted, Better, D
<1> HIDE DEF n, places, seq, T
<1>8. seq \in [1..n -> T] /\ \A k \in 1..n : seq[k] = items[places[k]]
  BY <1>2, <1>6, <1>7
<1>9. seq \in Seq(T) /\ Len(seq) = n
  BY <1>6, <1>8, FunctionIsList
<1>10. \A i \in D : \E k \in 1..n : seq[k] = items[i]
  BY <1>6, <1>8
<1> QED BY <1>9, <1>10 DEF seq, T, D

\* The selection is within the budget and lists every item.
LEMMA ChargesFold ==
  ASSUME ProperList(items), NEW budget \in Nat
  PROVE  LET sel == FoldLeft(Charge, [included |-> <<>>, excluded |-> <<>>, used |-> 0, budget |-> budget], ByPriority(items))
         IN  Charged(sel, budget) /\ \A i \in DOMAIN items : Listed(sel, items[i].id)
<1> DEFINE start == [included |-> <<>>, excluded |-> <<>>, used |-> 0, budget |-> budget]
           seq == ByPriority(items)
           end == FoldLeft(Charge, start, seq)
           n == Len(seq)
           T == {items[i] : i \in DOMAIN items}
<1>1. seq \in Seq(T) /\ \A i \in DOMAIN items : \E k \in 1..n : seq[k] = items[i]
  BY ByPriorityIs
<1> HIDE DEF seq
<1>2. \A t \in T : IsItem(t)
  BY DEF ProperList, Proper
<1> HIDE DEF T
<1>3. n \in Nat /\ \A i \in 1..n : seq[i] \in T
  BY <1>1
<1>4. Charged(start, budget)
  <2>1. Costs!FoldLeft(AddCost, 0, <<>>) = 0
    BY Costs!FoldNothing
  <2>2. FoldLeft(AddCost, 0, <<>>) = 0
    BY <2>1 DEF Costs!FoldLeft, FoldLeft, Costs!MapThenFoldSet, MapThenFoldSet, Costs!Max, Max
  <2>3. <<>> \in Seq({}) /\ 0 <= budget
    OBVIOUS
  <2>4. /\ start.included = <<>> /\ start.excluded = <<>> /\ start.used = 0
        /\ start \in [included : {start.included}, excluded : {start.excluded}, used : Int, budget : {budget}]
    OBVIOUS
  <2> HIDE DEF start
  <2> QED BY <2>2, <2>3, <2>4 DEF Charged, IsList
<1> HIDE DEF start
<1>5. PICK acc : Charges!Runs(start, seq, acc) /\ Charges!FoldLeft(Charge, start, seq) = acc[n]
  BY <1>1, Charges!FoldRuns
<1>6. end = acc[n]
  BY <1>5 DEF Charges!FoldLeft, FoldLeft, Charges!MapThenFoldSet, MapThenFoldSet, Charges!Max, Max
<1>7. acc[0] = start /\ \A i \in 0..n : i < n => acc[i + 1] = Charge(acc[i], seq[i + 1])
  BY <1>5 DEF Charges!Runs
<1> DEFINE S == {i \in 0..n : Charged(acc[i], budget) /\ \A k \in 1..i : Listed(acc[i], seq[k].id)}
<1>8. 0 \in S
  BY <1>3, <1>4, <1>7
<1>9. ASSUME NEW i \in 0..n, i < n, i \in S PROVE i + 1 \in S
  <2>1. i + 1 \in 1..n /\ i + 1 \in 0..n /\ \A k \in 1..(i + 1) : k \in 1..i \/ k = i + 1
    BY <1>3, <1>9
  <2>2. IsItem(seq[i + 1]) /\ acc[i + 1] = Charge(acc[i], seq[i + 1])
    BY <1>2, <1>3, <1>7, <1>9, <2>1
  <2>3. Charged(acc[i], budget) /\ \A k \in 1..i : Listed(acc[i], seq[k].id)
    BY <1>9
  <2>4. /\ Charged(acc[i + 1], budget) /\ Listed(acc[i + 1], seq[i + 1].id)
        /\ \A id : Listed(acc[i], id) => Listed(acc[i + 1], id)
    BY <2>2, <2>3, ChargeKeeps
  <2> QED BY <2>1, <2>3, <2>4
<1> HIDE DEF S
<1>10. n \in 0..n /\ \A i \in 0..n : i \in S
  <2>1. \A i \in 0..n : i < n /\ i \in S => i + 1 \in S
    BY <1>9
  <2>2. n \in Nat
    BY <1>3
  <2> HIDE DEF n
  <2>3. \A i \in 0..n : i \in S
    BY <1>8, <2>1, <2>2, Symbols!UpTo
  <2> QED BY <2>2, <2>3
<1>11. Charged(acc[n], budget) /\ \A k \in 1..n : Listed(acc[n], seq[k].id)
  BY <1>10 DEF S
<1> QED BY <1>1, <1>6, <1>11 DEF start, seq

-----------------------------------------------------------------------------
(* A step leaves the project, and so what is said of it. *)

\* A step that leaves the project leaves what is said of a list.
LEMMA SameProject ==
  ASSUME project' = project
  PROVE  /\ Files' = Files /\ Lines' = Lines /\ project.allowed' = project.allowed /\ (Project' <=> Project)
         /\ \A f : Passes(f)' <=> Passes(f)
         /\ \A list : ProperList(list)' <=> ProperList(list)
         /\ \A list, m, spans : FoundByName(list, m, spans)' <=> FoundByName(list, m, spans)
         /\ \A list : AllShown(list)' <=> AllShown(list)
         /\ \A list : KeywordsShown(list)' <=> KeywordsShown(list)
<1>1. Files' = Files
  BY DEF Files
<1>2. Lines' = Lines
  BY DEF Lines, HitRank
<1>3. Pooled' = Pooled
  BY DEF Pooled, Tokens
<1>4. Joined' = Joined
  BY <1>3 DEF Joined, BringersOf, TypesOf
<1>5. /\ \A f : Passes(f)' <=> Passes(f)
      /\ \A f : HasContent(f)' <=> HasContent(f)
      /\ \A f : WholeFileFor(f)' <=> WholeFileFor(f)
  BY DEF Passes, HasContent, WholeFileFor
<1>6. \A s : HasBody(s)' <=> HasBody(s)
  BY <1>5 DEF HasBody
<1>7. \A item, s : IsSymbolOf(item, s)' <=> IsSymbolOf(item, s)
  BY <1>5, <1>6 DEF IsSymbolOf, LinesOf, Clamp
<1>8. \A item : IsSymbol(item)' <=> IsSymbol(item)
  BY <1>7 DEF IsSymbol
<1>9. \A item : IsFile(item)' <=> IsFile(item)
  BY <1>5 DEF IsFile
<1>10. \A item : IsDependency(item)' <=> IsDependency(item)
  BY <1>5 DEF IsDependency
<1>11. \A item : IsKeyword(item)' <=> IsKeyword(item)
  BY <1>5 DEF IsKeyword
<1>12. \A item : Proper(item)' <=> Proper(item)
  BY <1>8, <1>9, <1>10, <1>11 DEF Proper, IsItem, IsOffer
<1>13. \A list : ProperList(list)' <=> ProperList(list)
  BY <1>12 DEF ProperList, IsList
<1>14. \A list, m, spans : FoundByName(list, m, spans)' <=> FoundByName(list, m, spans)
  BY <1>13 DEF FoundByName, Covering, Covers, Reaches
<1>15. \A list, s : ShownSymbol(list, s)' <=> ShownSymbol(list, s)
  BY <1>5 DEF ShownSymbol
<1>16. \A list : AllShown(list)' <=> AllShown(list)
  BY <1>3, <1>4, <1>15 DEF AllShown
<1>17. \A list : KeywordsShown(list)' <=> KeywordsShown(list)
  BY <1>2, <1>5 DEF KeywordsShown
<1>18. project.allowed' = project.allowed /\ (Project' <=> Project)
  BY DEF Project
<1> QED BY <1>1, <1>2, <1>5, <1>13, <1>14, <1>16, <1>17, <1>18

\* What holds before each source is asked.
FoundSoFar ==
  /\ stage \in {"dependencies", "files"} =>
       matched \subseteq project.allowed /\ order \in Seq(matched) /\ FoundByName(items, matched, covered)
  /\ stage = "keywords" => FoundByName(items, Files, covered)
  /\ stage \in {"dependencies", "files", "keywords", "backends"} /\ "symbol" \notin truncated => AllShown(items)
  /\ stage = "backends" /\ "keyword" \notin truncated => KeywordsShown(items)

\* What every step keeps.
PipelineInv ==
  /\ Project /\ ProperList(items) /\ Clear(items)
  /\ FoundSoFar
  /\ BudgetIsKept

\* It is enough for what the response promises.
LEMMA InvIsEnough ==
  ASSUME PipelineInv
  PROVE  ResponseIsSound
<1>1. InScope
  <2> SUFFICES ASSUME NEW i \in DOMAIN items
               PROVE  /\ items[i].source \in {"Symbol", "File", "Dependency"} => Passes(items[i].file)
                      /\ items[i].id[1] = "keyword" => Passes(items[i].file)
                      /\ items[i].source = "Dependency" => Passes(items[i].id[3])
    BY DEF InScope
  <2> DEFINE item == items[i]
  <2>1. Proper(item) /\ item.source \in {"Symbol", "File", "Dependency", "Custom", "GitDiff"}
    BY DEF PipelineInv, ProperList, Proper, IsItem, Sources
  <2> HIDE DEF item
  <2>2. CASE item.source = "Symbol"
    BY <2>1, <2>2 DEF Proper, IsSymbol, IsSymbolOf, item
  <2>3. CASE item.source = "File"
    BY <2>1, <2>3 DEF Proper, IsFile, item
  <2>4. CASE item.source = "Dependency"
    BY <2>1, <2>4 DEF Proper, IsDependency, item
  <2>5. CASE item.source \in {"Custom", "GitDiff"}
    <3>1. IsOffer(item) => item.id[1] = "backend"
      BY DEF IsOffer
    <3>2. IsKeyword(item) => Passes(item.file)
      BY DEF IsKeyword
    <3> QED BY <2>1, <2>5, <3>1, <3>2 DEF Proper, item
  <2> QED BY <2>1, <2>2, <2>3, <2>4, <2>5
<1>2. NoLineTwice
  BY DEF PipelineInv, Clear, Apart, NoLineTwice
<1>3. NothingVanishes
  BY DEF PipelineInv, FoundSoFar, AllShown, ShownSymbol, KeywordsShown, NothingVanishes
<1> QED BY <1>1, <1>2, <1>3 DEF PipelineInv, ResponseIsSound

-----------------------------------------------------------------------------
(* Every source keeps it. *)

\* The symbols keep the invariant: see SymbolsFold.
LEMMA SymbolsKeep ==
  ASSUME PipelineInv, RetrieveSymbols
  PROVE  PipelineInv'
<1>1. Project /\ project' = project /\ stage' = "dependencies"
  BY DEF PipelineInv, RetrieveSymbols
<1>2. PICK bringer \in [Joined -> Pooled] :
        /\ \A s \in Joined : bringer[s] \in BringersOf(s)
        /\ LET rank == [s \in Pooled \cup Joined |-> SymbolRank(s, Entry(s, bringer))]
           IN  \E ranking \in Rankings(rank) :
                 LET start == [items |-> <<>>, matched |-> {}, order |-> <<>>, covered |-> {}, whole |-> {}]
                     best == FirstOf(ranking, MaxSymbols)
                     end == FoldLeft(TakeSymbol, start,
                                     [i \in DOMAIN best |-> [symbol |-> best[i], priority |-> rank[best[i]]]])
                 IN  /\ items' = end.items
                     /\ matched' = end.matched
                     /\ order' = end.order
                     /\ covered' = end.covered
                     /\ truncated' = IF Len(ranking) > MaxSymbols THEN {"symbol"} ELSE {}
  BY DEF RetrieveSymbols
<1> DEFINE rank == [s \in Pooled \cup Joined |-> SymbolRank(s, Entry(s, bringer))]
           start == [items |-> <<>>, matched |-> {}, order |-> <<>>, covered |-> {}, whole |-> {}]
           End(best) == FoldLeft(TakeSymbol, start, [i \in DOMAIN best |-> [symbol |-> best[i], priority |-> rank[best[i]]]])
<1>3. PICK ranking \in Rankings(rank) :
        /\ items' = End(FirstOf(ranking, MaxSymbols)).items
        /\ matched' = End(FirstOf(ranking, MaxSymbols)).matched
        /\ order' = End(FirstOf(ranking, MaxSymbols)).order
        /\ covered' = End(FirstOf(ranking, MaxSymbols)).covered
        /\ truncated' = IF Len(ranking) > MaxSymbols THEN {"symbol"} ELSE {}
  BY <1>2
<1>4. DOMAIN rank = Pooled \cup Joined /\ \A s \in Pooled \cup Joined : rank[s] \in Int /\ s \in project.symbols
  BY <1>1, <1>2, RanksAreNumbers
<1> HIDE DEF rank
<1> DEFINE end == End(FirstOf(ranking, MaxSymbols))
<1>5. SymbolsSound(end) /\ (Len(ranking) <= MaxSymbols => AllShown(end.items))
  BY <1>1, <1>4, SymbolsStage
<1> HIDE DEF End
<1>6. items' = end.items /\ matched' = end.matched /\ order' = end.order /\ covered' = end.covered
  BY <1>3
<1> HIDE DEF end
<1>7. ProperList(items') /\ Clear(items') /\ matched' \subseteq project.allowed /\ order' \in Seq(matched')
      /\ FoundByName(items', matched', covered')
  <2>1. \A i \in DOMAIN end.items : end.items[i].source \in {"Symbol", "File"} /\ end.items[i].file \in end.matched
    BY <1>5 DEF SymbolsSound
  <2> QED BY <1>5, <1>6, <2>1 DEF SymbolsSound, FoundByName
<1>8. "symbol" \notin truncated' => AllShown(items')
  <2>1. ~(Len(ranking) > MaxSymbols) => Len(ranking) <= MaxSymbols
    <3>1. Len(ranking) \in Nat /\ MaxSymbols \in Nat
      <4>1. IsFiniteSet(DOMAIN rank)
        <5>1. DOMAIN rank \in SUBSET project.symbols /\ IsFiniteSet(project.symbols)
          BY <1>1, <1>4, ProjectFacts
        <5> QED BY <5>1, FS_Subset
      <4>2. ranking \in Seq(DOMAIN rank)
        BY <4>1, RankingIs DEF Orders
      <4> QED BY <4>2, CapsAreNumbers
    <3> QED BY <3>1
  <2> QED BY <1>3, <1>5, <1>6, <2>1
<1>9. FoundSoFar'
  BY <1>1, <1>7, <1>8, SameProject DEF FoundSoFar
<1>10. Project' /\ ProperList(items)' /\ Clear(items)'
  <2>1. Clear(items)'
    BY <1>7 DEF Clear
  <2> QED BY <1>1, <1>7, <2>1, SameProject
<1>11. BudgetIsKept'
  BY <1>1 DEF BudgetIsKept
<1> QED BY <1>9, <1>10, <1>11 DEF PipelineInv

\* What remains of the invariant after a step that neither starts nor ends.
LEMMA KeepsBudget ==
  ASSUME stage' # "answered"
  PROVE  BudgetIsKept'
BY DEF BudgetIsKept

\* The dependencies keep the invariant: see DependenciesFold.
LEMMA DependenciesKeep ==
  ASSUME PipelineInv, RetrieveDependencies
  PROVE  PipelineInv'
<1> DEFINE best == FirstOf(Edges, MaxEdges)
           end == FoldLeft(AddDependency, items, best)
<1>1. /\ Project /\ project' = project /\ stage = "dependencies" /\ stage' = "files"
      /\ matched' = matched /\ order' = order /\ covered' = covered /\ truncated' = truncated
      /\ items' = end
  BY DEF PipelineInv, RetrieveDependencies
<1>2. matched \subseteq project.allowed /\ order \in Seq(matched) /\ FoundByName(items, matched, covered)
      /\ ("symbol" \notin truncated => AllShown(items))
  BY <1>1 DEF PipelineInv, FoundSoFar
<1>3. best \in Seq({place \in Places : Passes(Included(place))})
  <2> DEFINE T == {place \in Places : Passes(Included(place))}
  <2>1. Edges \in Seq(T) /\ MaxEdges \in Nat
    BY <1>1, <1>2, EdgesAre, CapsAreNumbers
  <2> HIDE DEF T
  <2> QED BY <2>1, FirstOfIs DEF T
<1> HIDE DEF best
<1>4. FoundByName(end, matched, covered) /\ Extends(end, items)
  BY <1>1, <1>2, <1>3, DependenciesFold
<1> HIDE DEF end
<1>5. "symbol" \notin truncated => AllShown(end)
  BY <1>2, <1>4, ShownStays DEF AllShown
<1>6. FoundSoFar'
  BY <1>1, <1>2, <1>4, <1>5, SameProject DEF FoundSoFar
<1>7. Project' /\ ProperList(items)' /\ Clear(items)'
  <2>1. ProperList(items') /\ Clear(items')
    BY <1>1, <1>4 DEF FoundByName
  <2>2. Clear(items)'
    BY <2>1 DEF Clear
  <2> QED BY <1>1, <2>1, <2>2, SameProject
<1> QED BY <1>1, <1>6, <1>7, KeepsBudget DEF PipelineInv

\* The files keep the invariant: see FilesFold.
LEMMA FilesKeep ==
  ASSUME PipelineInv, RetrieveFiles
  PROVE  PipelineInv'
<1> DEFINE D == {g \in project.scanned \ matched : Passes(g) /\ BestPathScore(g) > 0}
           rank == [f \in D |-> FileRank(f)]
           End(best) == FoldLeft(TakeFile, [inlined |-> 0, covered |-> covered, items |-> items], best)
<1>1. /\ Project /\ project' = project /\ stage = "files" /\ stage' = "keywords"
  BY DEF PipelineInv, RetrieveFiles
<1>2. PICK ranking \in Rankings(rank) :
        /\ items' = End(FirstOf(ranking, MaxFiles)).items
        /\ covered' = End(FirstOf(ranking, MaxFiles)).covered
        /\ truncated' = IF Len(ranking) > MaxFiles THEN truncated \cup {"file"} ELSE truncated
  BY DEF RetrieveFiles
<1>3. /\ matched \subseteq project.allowed /\ FoundByName(items, matched, covered)
      /\ "symbol" \notin truncated => AllShown(items)
  BY <1>1 DEF PipelineInv, FoundSoFar
<1>4. matched \subseteq Files
  BY <1>1, <1>3, ProjectFacts
<1>5. DOMAIN rank = D /\ D \subseteq Files /\ IsFiniteSet(D) /\ \A f \in D : Passes(f) /\ f \notin matched
  <2>1. D \subseteq Files
    BY <1>1, ProjectFacts
  <2>2. D \in SUBSET Files /\ IsFiniteSet(Files)
    BY <1>1, <2>1, ProjectFacts
  <2>3. IsFiniteSet(D)
    BY <2>2, FS_Subset
  <2> QED BY <2>1, <2>3
<1> HIDE DEF D, rank
<1>6. Orders(ranking, D)
  BY <1>5, RankingIs
<1> DEFINE best == FirstOf(ranking, MaxFiles)
<1>7. /\ best \in Seq(D) /\ Len(best) \in 0..Len(ranking) /\ \A i \in 1..Len(best) : best[i] = ranking[i]
      /\ ranking \in Seq(D)
  BY <1>6, FirstOfIs, CapsAreNumbers DEF Orders
<1>8. /\ best \in Seq(Files) /\ \A i \in 1..Len(best) : Passes(best[i]) /\ best[i] \notin matched
      /\ \A i, j \in 1..Len(best) : best[i] = best[j] => i = j
  <2> HIDE DEF best
  <2>1. Len(best) \in Nat /\ Len(ranking) \in Nat /\ \A i \in 1..Len(best) : i \in 1..Len(ranking) /\ best[i] \in D
    BY <1>7
  <2>2. best \in Seq(Files)
    BY <1>5, <1>7
  <2> QED BY <1>5, <1>6, <1>7, <2>1, <2>2 DEF Orders
<1> HIDE DEF best
<1> DEFINE end == End(best)
<1>9. FoundByName(end.items, Files, end.covered) /\ Extends(end.items, items)
  BY <1>1, <1>3, <1>4, <1>8, FilesFold
<1>10. items' = end.items /\ covered' = end.covered /\ ("symbol" \notin truncated' => "symbol" \notin truncated)
  BY <1>2 DEF best
<1> HIDE DEF end
<1>11. "symbol" \notin truncated => AllShown(end.items)
  BY <1>3, <1>9, ShownStays DEF AllShown
<1>12. FoundByName(items', Files, covered') /\ ("symbol" \notin truncated' => AllShown(items'))
  BY <1>9, <1>10, <1>11
<1>13. FoundSoFar'
  BY <1>1, <1>12, SameProject DEF FoundSoFar
<1>14. Project' /\ ProperList(items)' /\ Clear(items)'
  <2>1. ProperList(items') /\ Clear(items')
    BY <1>12 DEF FoundByName
  <2>2. Clear(items)'
    BY <2>1 DEF Clear
  <2> QED BY <1>1, <2>1, <2>2, SameProject
<1> QED BY <1>1, <1>13, <1>14, KeepsBudget DEF PipelineInv

\* The keyword hits keep the invariant: see KeywordsStage.
LEMMA KeywordsKeep ==
  ASSUME PipelineInv, RetrieveKeywords
  PROVE  PipelineInv'
<1> DEFINE KeptOf(top) == {h \in top : Passes(h.file) /\ ~AlreadyVisible(h)}
           End(top) == FoldLeft(TakeGroup, items, Groups(KeptOf(top)))
<1>1. /\ Project /\ project' = project /\ stage = "keywords" /\ stage' = "backends"
      /\ truncated' = IF Cardinality(Lines) > MaxKeywords THEN truncated \cup {"keyword"} ELSE truncated
  BY DEF PipelineInv, RetrieveKeywords
<1>2. PICK top \in Best(MaxKeywords) : items' = End(top)
  BY DEF RetrieveKeywords
<1>3. FoundByName(items, Files, covered) /\ ("symbol" \notin truncated => AllShown(items))
  BY <1>1 DEF PipelineInv, FoundSoFar
<1> DEFINE end == End(top)
<1>4. /\ ProperList(end) /\ Clear(end) /\ Extends(end, items)
      /\ Cardinality(Lines) <= MaxKeywords => KeywordsShown(end)
  BY <1>1, <1>3, KeywordsStage
<1>5. items' = end
  BY <1>2
<1> HIDE DEF end, End, KeptOf
<1>6. "symbol" \notin truncated => AllShown(end)
  BY <1>3, <1>4, ShownStays DEF AllShown
<1>7. "keyword" \notin truncated' => KeywordsShown(end)
  <2>1. Cardinality(Lines) \in Nat /\ MaxKeywords \in Nat
    BY <1>1, LinesAre, FS_CardinalityType, CapsAreNumbers
  <2>2. "keyword" \notin truncated' => ~(Cardinality(Lines) > MaxKeywords)
    BY <1>1
  <2>3. ~(Cardinality(Lines) > MaxKeywords) => Cardinality(Lines) <= MaxKeywords
    BY <2>1
  <2> QED BY <1>4, <2>2, <2>3
<1>8. "symbol" \notin truncated' => AllShown(end)
  BY <1>1, <1>6
<1>9. FoundSoFar'
  BY <1>1, <1>5, <1>7, <1>8, SameProject DEF FoundSoFar
<1>10. Project' /\ ProperList(items)' /\ Clear(items)'
  <2>1. Clear(items)'
    BY <1>4, <1>5 DEF Clear
  <2> QED BY <1>1, <1>4, <1>5, <2>1, SameProject
<1> QED BY <1>1, <1>9, <1>10, KeepsBudget DEF PipelineInv

\* The offers of the backends keep the invariant: see OffersFold.
LEMMA BackendsKeep ==
  ASSUME PipelineInv, RetrieveBackends
  PROVE  PipelineInv'
<1> DEFINE end == FoldLeft(TakeOffer, items, project.offered)
<1>1. Project /\ project' = project /\ stage' = "cutoff" /\ items' = end /\ ProperList(items) /\ Clear(items)
  BY DEF PipelineInv, RetrieveBackends
<1>2. ProperList(end) /\ Clear(end)
  BY <1>1, OffersFold
<1> HIDE DEF end
<1>3. FoundSoFar'
  BY <1>1 DEF FoundSoFar
<1>4. Project' /\ ProperList(items)' /\ Clear(items)'
  <2>1. Clear(items)'
    BY <1>1, <1>2 DEF Clear
  <2> QED BY <1>1, <1>2, <2>1, SameProject
<1> QED BY <1>1, <1>3, <1>4, KeepsBudget DEF PipelineInv

\* The relative cutoff keeps the invariant: see CutWeakKeeps.
LEMMA CutoffKeeps ==
  ASSUME PipelineInv, RelativeCutoff
  PROVE  PipelineInv'
<1>1. Project /\ project' = project /\ stage' = "select" /\ ProperList(items) /\ Clear(items)
  BY DEF PipelineInv, RelativeCutoff
<1>2. ProperList(items') /\ Clear(items')
  <2>1. items' = items \/ items' = CutWeak
    BY DEF RelativeCutoff
  <2> QED BY <1>1, <2>1, CutWeakKeeps
<1>3. FoundSoFar'
  BY <1>1 DEF FoundSoFar
<1>4. Project' /\ ProperList(items)' /\ Clear(items)'
  <2>1. Clear(items)'
    BY <1>2 DEF Clear
  <2> QED BY <1>1, <1>2, <2>1, SameProject
<1> QED BY <1>1, <1>3, <1>4, KeepsBudget DEF PipelineInv

\* The selection keeps the invariant: see ChargesFold.
LEMMA SelectKeeps ==
  ASSUME PipelineInv, SelectWithCompression
  PROVE  PipelineInv'
<1> DEFINE End(budget) == FoldLeft(Charge, [included |-> <<>>, excluded |-> <<>>, used |-> 0, budget |-> budget], ByPriority(items))
<1>1. Project /\ project' = project /\ items' = items /\ stage' = "answered" /\ ProperList(items) /\ Clear(items)
  BY DEF PipelineInv, SelectWithCompression, found
<1>2. PICK budget \in Budgets : selection' = End(budget)
  BY DEF SelectWithCompression
<1>3. budget \in Nat
  BY CapsAreNumbers
<1> DEFINE sel == End(budget)
<1>4. Charged(sel, budget) /\ \A i \in DOMAIN items : Listed(sel, items[i].id)
  BY <1>1, <1>3, ChargesFold
<1>5. selection' = sel
  BY <1>2
<1> HIDE DEF sel, End
<1>6. BudgetIsKept'
  <2>1. FoldLeft(AddCost, 0, sel.included) = sel.used /\ sel.used <= sel.budget
    BY <1>4 DEF Charged
  <2>2. \A i \in DOMAIN items : \E list \in {sel.included, sel.excluded} : \E j \in DOMAIN list : list[j].id = items[i].id
    BY <1>4 DEF Listed
  <2> QED BY <1>1, <1>5, <2>1, <2>2 DEF BudgetIsKept
<1>7. FoundSoFar'
  BY <1>1 DEF FoundSoFar
<1>8. Project' /\ ProperList(items)' /\ Clear(items)'
  <2>1. Clear(items)'
    BY <1>1 DEF Clear
  <2> QED BY <1>1, <2>1, SameProject
<1> QED BY <1>6, <1>7, <1>8 DEF PipelineInv

\* The invariant of the pipeline.
THEOREM PipelineInvariant == SpecPipeline => []PipelineInv
<1>1. InitPipeline => PipelineInv
  <2> SUFFICES ASSUME InitPipeline PROVE PipelineInv
    OBVIOUS
  <2>1. Project /\ stage = "symbols" /\ items = <<>> /\ <<>> \in Seq({}) /\ DOMAIN <<>> = {}
    BY DEF InitPipeline, Project
  <2>2. ProperList(items) /\ Clear(items)
    BY <2>1 DEF ProperList, IsList, Clear
  <2>3. FoundSoFar /\ BudgetIsKept
    BY <2>1 DEF FoundSoFar, BudgetIsKept
  <2> QED BY <2>1, <2>2, <2>3 DEF PipelineInv
<1>2. PipelineInv /\ [NextPipeline]_pipelineVars => PipelineInv'
  <2> SUFFICES ASSUME PipelineInv, [NextPipeline]_pipelineVars PROVE PipelineInv'
    OBVIOUS
  <2>1. CASE NextPipeline
    BY <2>1, SymbolsKeep, DependenciesKeep, FilesKeep, KeywordsKeep, BackendsKeep, CutoffKeeps, SelectKeeps DEF NextPipeline
  <2>2. CASE UNCHANGED pipelineVars
    <3>1. /\ project' = project /\ stage' = stage /\ items' = items /\ matched' = matched /\ order' = order
          /\ covered' = covered /\ truncated' = truncated /\ selection' = selection
      BY <2>2 DEF pipelineVars, found
    <3>2. FoundSoFar'
      BY <3>1, SameProject DEF FoundSoFar, PipelineInv
    <3>3. BudgetIsKept'
      BY <3>1 DEF BudgetIsKept, PipelineInv
    <3>4. Project' /\ ProperList(items)' /\ Clear(items)'
      <4>1. Clear(items)'
        BY <3>1 DEF Clear, PipelineInv
      <4> QED BY <3>1, <4>1, SameProject DEF PipelineInv
    <3> QED BY <3>2, <3>3, <3>4 DEF PipelineInv
  <2> QED BY <2>1, <2>2
<1> QED BY <1>1, <1>2, PTL DEF SpecPipeline

\* Every response stays in scope, shows no line twice, leaves nothing out
\* without saying so and keeps the budget.
THEOREM SoundResponses == SpecPipeline => []ResponseIsSound
<1>1. PipelineInv => ResponseIsSound
  BY InvIsEnough
<1> QED BY <1>1, PipelineInvariant, PTL
=============================================================================
