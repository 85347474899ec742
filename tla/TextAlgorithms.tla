---------------------------- MODULE TextAlgorithms ----------------------------
(***************************************************************************)
(* The small functions on text that the rest of the program relies on:     *)
(* how arguments become a command line, where text may be cut, what a diff *)
(* and git's listings say, which lines and identifiers a position means,   *)
(* how names are ranked and how the ids of context items are read back.    *)
(*                                                                         *)
(* A behaviour is one call: an algorithm is applied to an input.  Text is  *)
(* a sequence of characters; what makes no difference to an algorithm is   *)
(* one character for all.                                                  *)
(***************************************************************************)
EXTENDS Integers, FiniteSets, Sequences, SequencesExt

CONSTANTS
  Inputs,    \* Inputs[algorithm]: what it is applied to
  Nothing    \* std::nullopt

VARIABLES algorithm, input, result

textVars == <<algorithm, input, result>>

Last1(s) == s[Len(s)]
\* A call returns, once.
Returns(value) == result = Nothing /\ result' = value /\ UNCHANGED <<algorithm, input>>

Times(c, n) == [i \in 1..n |-> c]
From(s, i) == SubSeq(s, i, Len(s))
-----------------------------------------------------------------------------
(* The command line of a child process. *)

NeedsNoQuotes(arg) == arg # <<>> /\ ToSet(arg) \cap {" ", "\""} = {}

\* Backslashes are doubled where a quote follows them, a literal or the last.
QuoteArg(arg) ==
  LET step(acc, c) ==
        IF c = "\\" THEN [acc EXCEPT !.slashes = @ + 1]
        ELSE [text |-> acc.text \o Times("\\", IF c = "\"" THEN 2 * acc.slashes + 1 ELSE acc.slashes) \o <<c>>,
              slashes |-> 0]
      end == FoldLeft(step, [text |-> <<"\"">>, slashes |-> 0], arg)
  IN  IF NeedsNoQuotes(arg) THEN arg ELSE end.text \o Times("\\", 2 * end.slashes) \o <<"\"">>

BuildCommandLine(args) == FlattenSeq([i \in DOMAIN args |-> (IF i = 1 THEN <<>> ELSE <<" ">>) \o QuoteArg(args[i])])

\* How a program takes its command line apart.
CommandLineToArgv(line) ==
  LET step(acc, c) ==
        LET plain == acc.now \o Times("\\", acc.slashes)
            half  == acc.now \o Times("\\", acc.slashes \div 2)
        IN  CASE c = "\\" -> [acc EXCEPT !.slashes = @ + 1, !.begun = TRUE]
              [] c = "\"" /\ acc.slashes % 2 = 1 -> [acc EXCEPT !.now = half \o <<c>>, !.slashes = 0]
              [] c = "\"" /\ acc.slashes % 2 = 0 -> [acc EXCEPT !.now = half, !.slashes = 0, !.quoted = ~@, !.begun = TRUE]
              [] c = " " /\ ~acc.quoted ->
                   [args |-> IF acc.begun THEN Append(acc.args, plain) ELSE acc.args,
                    now |-> <<>>, slashes |-> 0, quoted |-> FALSE, begun |-> FALSE]
              [] OTHER -> [acc EXCEPT !.now = plain \o <<c>>, !.slashes = 0, !.begun = TRUE]
  IN  FoldLeft(step, [args |-> <<>>, now |-> <<>>, slashes |-> 0, quoted |-> FALSE, begun |-> FALSE], Append(line, " ")).args

RunQuote == algorithm = "quote" /\ Returns(BuildCommandLine(input))
QuotedIsRead == CommandLineToArgv(result) = input
-----------------------------------------------------------------------------
(* UTF-8: a byte is the first of 1, 2, 3 or 4, or a continuation, 0. *)

Utf8SafeTruncationLength(text, max) ==
  IF max >= Len(text) THEN Len(text)
  ELSE CHOOSE n \in 0..max : /\ n = 0 \/ text[n + 1] # 0
                             /\ \A m \in (n + 1)..max : text[m + 1] = 0

\* How many bytes the character at an index takes; malformed bytes are one each.
DecodedLength(text, i) ==
  LET n == text[i]
  IN  IF n > 1 /\ i + n - 1 <= Len(text) /\ \A k \in 1..(n - 1) : text[i + k] = 0 THEN n ELSE 1

Utf16UnitsFor(text, i) == IF DecodedLength(text, i) = 4 THEN 2 ELSE 1

\* Steps over characters while the test of <<bytes, units>> holds.
Advance(text, goes(_, _, _)) ==
  LET step(acc, i) ==
        IF acc.stopped \/ i # acc.bytes + 1 THEN acc
        ELSE IF ~goes(acc.bytes, acc.units, Utf16UnitsFor(text, i)) THEN [acc EXCEPT !.stopped = TRUE]
        ELSE [acc EXCEPT !.bytes = @ + DecodedLength(text, i), !.units = @ + Utf16UnitsFor(text, i)]
  IN  FoldLeft(step, [bytes |-> 0, units |-> 0, stopped |-> FALSE], [i \in DOMAIN text |-> i])

Utf16OffsetToUtf8Byte(text, offset) == Advance(text, LAMBDA bytes, units, next : units < offset /\ units + next <= offset).bytes
Utf8ByteToUtf16Offset(text, offset) == Advance(text, LAMBDA bytes, units, next : bytes < offset).units

\* input: [text, at]
RunUtf ==
  /\ algorithm = "utf"
  /\ Returns([cut |-> Utf8SafeTruncationLength(input.text, input.at),
             byte |-> Utf16OffsetToUtf8Byte(input.text, input.at),
             unit |-> Utf8ByteToUtf16Offset(input.text, input.at)])

WellFormed(text) == \A i \in DOMAIN text : text[i] = 0 <=> \E j \in 1..(i - 1) : j + DecodedLength(text, j) > i
Boundary(text, n) == n \in 0..Len(text) /\ (n = Len(text) \/ text[n + 1] # 0)

\* A cut is the last between two characters that fits; positions of UTF-16 and
\* of bytes go into each other and back, inside a surrogate pair down.
CutsAreBetween ==
  WellFormed(input.text) =>
    /\ Boundary(input.text, result.cut) /\ result.cut <= input.at
    /\ \A n \in 0..input.at : Boundary(input.text, n) => n <= result.cut
    /\ Boundary(input.text, result.byte)
    /\ Utf8ByteToUtf16Offset(input.text, result.byte) \in {input.at - 1, input.at} \/ result.byte = Len(input.text)
    /\ Boundary(input.text, input.at) => Utf16OffsetToUtf8Byte(input.text, result.unit) = input.at
-----------------------------------------------------------------------------
(* Ranges of lines: [start, end]. *)

\* As if ranges had to overlap to become one.
MergeOverlapping(ranges) ==
  LET valid == SelectSeq(ranges, LAMBDA r : r.start > 0 /\ r.end >= r.start)
      step(acc, r) == IF acc # <<>> /\ r.start <= Last1(acc).end
                      THEN [acc EXCEPT ![Len(acc)].end = Max({@, r.end})] ELSE Append(acc, r)
  IN  FoldLeft(step, <<>>, SortSeq(valid, LAMBDA a, b : a.start < b.start))

MergeLineRanges(ranges) ==
  LET valid == SelectSeq(ranges, LAMBDA r : r.start > 0 /\ r.end >= r.start)
      step(acc, r) == IF acc # <<>> /\ r.start - 1 <= Last1(acc).end
                      THEN [acc EXCEPT ![Len(acc)].end = Max({@, r.end})] ELSE Append(acc, r)
  IN  FoldLeft(step, <<>>, SortSeq(valid, LAMBDA a, b : a.start < b.start))

\* input: [lines, ranges]
BuildExcerpt(lines, ranges) ==
  IF lines = 0 THEN <<>>
  ELSE MergeLineRanges([i \in DOMAIN ranges |-> [start |-> Max({1, ranges[i].start}), end |-> Min({lines, ranges[i].end})]])

RunExcerpt == algorithm = "excerpt" /\ Returns(BuildExcerpt(input.lines, input.ranges))

Covers(ranges, n) == \E i \in DOMAIN ranges : n \in ranges[i].start..ranges[i].end

\* Every line asked for is in the excerpt, none twice and no other; blocks are
\* in order and do not touch.
ExcerptIsExact ==
  /\ \A n \in -1..(input.lines + 2) : Covers(result, n) <=> n \in 1..input.lines /\ Covers(input.ranges, n)
  /\ \A i \in 1..(Len(result) - 1) : result[i].end + 1 < result[i + 1].start
-----------------------------------------------------------------------------
(* A unified diff.  Lines are "+++ p", "+++ null", "@@" with a start, "other" *)
(* ("diff --git", "--- p") and of a body " ", "+", "-" and "\\".  A line of   *)
(* text that is added and begins with "++ " looks like a header of a file; of *)
(* such a line `start` is 1.                                                  *)

Line(kind, start) == [kind |-> kind, start |-> start]
Header(path) == Line("+++", path)
Looks(line) == IF line.kind = "+" /\ line.start = 1 THEN Header("q") ELSE line

RecordChangedLine(file, n) ==
  IF file # <<>> /\ Last1(file).end + 1 = n THEN [file EXCEPT ![Len(file)].end = n]
  ELSE Append(file, [start |-> n, end |-> n])

ParseUnifiedDiff(diff) ==
  LET change(acc) == [acc EXCEPT !.files = [@ EXCEPT ![acc.current] = RecordChangedLine(@, acc.cursor)]]
      step(acc, raw) ==
        LET line == Looks(raw)
        IN  CASE ~acc.in_hunk /\ line.kind = "+++" -> [acc EXCEPT !.current = line.start]
              [] acc.current # Nothing /\ line.kind = "@@" -> [acc EXCEPT !.cursor = line.start, !.in_hunk = TRUE]
              [] acc.in_hunk /\ acc.current # Nothing /\ line.kind \in {"+", "+++"} -> [change(acc) EXCEPT !.cursor = @ + 1]
              [] acc.in_hunk /\ acc.current # Nothing /\ line.kind = "-" -> change(acc)
              [] acc.in_hunk /\ acc.current # Nothing /\ line.kind = " " -> [acc EXCEPT !.cursor = @ + 1]
              [] acc.in_hunk /\ line.kind = "other" -> [acc EXCEPT !.in_hunk = FALSE]
              [] OTHER -> acc
  IN  FoldLeft(step, [files |-> [p \in {"p", "q"} |-> <<>>], current |-> Nothing, in_hunk |-> FALSE, cursor |-> 0],
               diff).files

\* What git prints of the changes to files: [path, start, body], of a file that
\* was deleted the path is Nothing.
Printed(change) ==
  <<Line("other", 0), Line("other", 0), Header(change.path), Line("@@", change.start)>> \o change.body

RunDiff == algorithm = "diff" /\ Returns(ParseUnifiedDiff(FlattenSeq([i \in DOMAIN input |-> Printed(input[i])])))

\* The line of the new file a line of a body is, or would come before.
NewLine(change, i) == change.start + Cardinality({j \in 1..(i - 1) : change.body[j].kind \in {"+", " "}})

\* The lines reported of a file are those that were added, and those before
\* which something was removed.
DiffIsExact ==
  \A p \in {"p", "q"} :
    {n \in 0..20 : Covers(result[p], n)} =
      UNION {{NewLine(input[k], i) : i \in {j \in DOMAIN input[k].body : input[k].body[j].kind \in {"+", "-"}}} :
               k \in {l \in DOMAIN input : input[l].path = p}}
-----------------------------------------------------------------------------
(* The identifier at a position of a line: <<start, end>>, the end excluded. *)
(* A character is a letter, "a" or "b", or a separator.                      *)

IsIdentifierChar(c) == c \in {"a", "b", "A"}

\* The last run of identifier characters that ends at or before an offset.
RunBefore(text, offset) ==
  LET inside == {i \in 1..offset : IsIdentifierChar(text[i])}
      end    == IF inside = {} THEN 0 ELSE Max(inside)
      start  == CHOOSE s \in 0..end :
                  /\ \A i \in (s + 1)..end : IsIdentifierChar(text[i])
                  /\ s = 0 \/ ~IsIdentifierChar(text[s])
  IN  <<start, end>>

TrailingIdentifier(text) == LET run == RunBefore(text, Len(text)) IN SubSeq(text, run[1] + 1, run[2])

IdentifierRangeAt(text, byte_offset) ==
  LET offset == Min({byte_offset, Len(text)})
      before == RunBefore(text, offset)
  IN  IF offset < Len(text) /\ IsIdentifierChar(text[offset + 1])
      THEN LET end == CHOOSE e \in (offset + 1)..Len(text) :
                        /\ \A i \in (offset + 1)..e : IsIdentifierChar(text[i])
                        /\ e = Len(text) \/ ~IsIdentifierChar(text[e + 1])
           IN  <<RunBefore(text, end)[1], end>>
      ELSE IF before[1] = before[2] THEN <<>> ELSE before

\* input: [text, at]
RunIdentifier == algorithm = "identifier" /\ Returns(IdentifierRangeAt(input.text, input.at))

\* A range is a whole identifier, and the nearest: the one the position is in
\* or at the end of, or the last before it.
IdentifierIsWhole ==
  LET whole == {r \in (0..Len(input.text)) \X (0..Len(input.text)) :
                  /\ r[1] < r[2]
                  /\ \A i \in (r[1] + 1)..r[2] : IsIdentifierChar(input.text[i])
                  /\ r[1] = 0 \/ ~IsIdentifierChar(input.text[r[1]])
                  /\ r[2] = Len(input.text) \/ ~IsIdentifierChar(input.text[r[2] + 1])}
      reached == {r \in whole : r[1] <= Min({input.at, Len(input.text) - 1})}
  IN  IF reached = {} THEN result = <<>> ELSE result \in reached /\ \A r \in reached : r[2] <= result[2]
-----------------------------------------------------------------------------
(* The ids of items of context, made in one place and taken apart in another. *)

IndexOf(text, i, pattern) == SubSeq(text, i, Min({Len(text), i + Len(pattern) - 1})) = pattern

MakeId(item) ==
  CASE item.kind = "symbol"     -> item.path \o <<":">> \o item.name
    [] item.kind = "dependency" -> item.path \o <<"-", ">">> \o item.name
    [] item.kind = "keyword"    -> <<"keyword:">> \o item.path \o <<":">> \o item.name
    [] item.kind = "commit"     -> <<"git/commit/">> \o item.name

SplitSymbolId(id) ==
  LET at == {i \in DOMAIN id : id[i] = ":" /\ (i = Len(id) \/ id[i + 1] # ":")}
  IN  IF at = {} THEN Nothing ELSE [path |-> SubSeq(id, 1, Min(at) - 1), name |-> From(id, Min(at) + 1)]

SplitDependencyId(id) ==
  LET at == {i \in DOMAIN id : IndexOf(id, i, <<"-", ">">>)}
  IN  IF at = {} THEN Nothing ELSE [path |-> SubSeq(id, 1, Min(at) - 1), name |-> From(id, Min(at) + 2)]

ParseKeywordId(id) ==
  LET at == {i \in DOMAIN id : id[i] = ":"}
      line == From(id, Max(at) + 1)
  IN  IF id[1] # "keyword:" \/ at = {} \/ line = <<>> \/ ~ToSet(line) \subseteq {"0", "1"} \/ ToSet(line) = {"0"}
      THEN Nothing ELSE [path |-> SubSeq(id, 2, Max(at) - 1), name |-> line]

ParseGitCommitId(id) ==
  IF id[1] = "git/commit/" /\ Len(id) - 1 \in 4..40 /\ ToSet(Tail(id)) \subseteq {"0", "1", "a"}
  THEN [path |-> <<>>, name |-> Tail(id)] ELSE Nothing

\* input: [kind, path, name]
RunId ==
  /\ algorithm = "id"
  /\ LET id == MakeId(input)
     IN  Returns(CASE input.kind = "symbol" -> SplitSymbolId(id) [] input.kind = "dependency" -> SplitDependencyId(id)
                  [] input.kind = "keyword" -> ParseKeywordId(id) [] input.kind = "commit" -> ParseGitCommitId(id))

\* SplitSymbolId() misreads the names that begin with "::", those of members
\* of a union that stands in no class.
IdIsRead ==
  (input.kind = "symbol" => input.name[1] # ":") => result = [path |-> input.path, name |-> input.name]
-----------------------------------------------------------------------------
(* git's listings of worktrees and of history.  A line is <<>> or <<key,    *)
(* value>>; a commit's line is a sequence with separators "US" in it.       *)

ParseWorktreeListOutput(lines) ==
  LET fresh == [path |-> Nothing, head |-> Nothing, branch |-> Nothing]
      flush(acc) == [entries |-> IF acc.has THEN Append(acc.entries, acc.current) ELSE acc.entries,
                     current |-> IF acc.has THEN fresh ELSE acc.current, has |-> FALSE]
      step(acc, line) ==
        CASE line = <<>> -> flush(acc)
          [] line # <<>> /\ line[1] = "worktree" -> [acc EXCEPT !.current.path = line[2], !.has = TRUE]
          [] line # <<>> /\ line[1] = "HEAD"     -> [acc EXCEPT !.current.head = line[2]]
          [] line # <<>> /\ line[1] = "branch"   -> [acc EXCEPT !.current.branch = line[2]]
          [] OTHER -> acc
  IN  flush(FoldLeft(step, [entries |-> <<>>, current |-> fresh, has |-> FALSE], lines)).entries

ListedWorktree(w) ==
  <<<<"worktree", w.path>>>> \o (IF w.head = Nothing THEN <<<<"bare", "">>>> ELSE <<<<"HEAD", w.head>>>>)
    \o (IF w.branch # Nothing THEN <<<<"branch", w.branch>>>> ELSE IF w.head = Nothing THEN <<>> ELSE <<<<"detached", "">>>>)
    \o <<<<>>>>

ParseHistoryOutput(lines) ==
  LET separators(line) == {i \in DOMAIN line : line[i] = "US"}
      second(line) == Min(separators(line) \ {Min(separators(line))})
      commit(line) == <<SubSeq(line, 1, Min(separators(line)) - 1),
                        SubSeq(line, Min(separators(line)) + 1, second(line) - 1), From(line, second(line) + 1)>>
      sound == SelectSeq(lines, LAMBDA line : Cardinality(separators(line)) >= 2)
  IN  [i \in DOMAIN sound |-> commit(sound[i])]

ListedCommit(c) == c[1] \o <<"US">> \o c[2] \o <<"US">> \o c[3]

\* input: the worktrees, or the commits
RunWorktrees == algorithm = "worktrees" /\ Returns(ParseWorktreeListOutput(FlattenSeq([i \in DOMAIN input |-> ListedWorktree(input[i])])))
RunHistory == algorithm = "history" /\ Returns(ParseHistoryOutput([i \in DOMAIN input |-> ListedCommit(input[i])]))
-----------------------------------------------------------------------------
(* Search.  "A" is the upper-case letter of "a".  A line is [text, encoding]: *)
(* its bytes, in which the search looks, and what they are read as.           *)

ToLower(text) == [i \in DOMAIN text |-> IF text[i] = "A" THEN "a" ELSE text[i]]

\* Where a needle is met, from left to right and without overlap.
FoundAt(text, needle) ==
  LET step(acc, i) == IF i >= acc.next /\ SubSeq(text, i, i + Len(needle) - 1) = needle
                      THEN [met |-> acc.met \cup {i}, next |-> i + Len(needle)] ELSE acc
  IN  FoldLeft(step, [met |-> {}, next |-> 1], [i \in 1..(Len(text) - Len(needle) + 1) |-> i]).met

HasWholeWord(text, needle) ==
  \E i \in FoundAt(text, needle) :
    /\ i = 1 \/ ~IsIdentifierChar(text[i - 1])
    /\ i + Len(needle) > Len(text) \/ ~IsIdentifierChar(text[i + Len(needle)])

\* The hits of one of several queries in the lines of a file.  What is neither
\* UTF-8 nor CP932 is no text.
ScanLinesForMatches(lines, queries, q) ==
  LET text(n) == ToLower(lines[n].text)
      needle == ToLower(queries[q])
      hit(n) == needle # <<>> /\ lines[n].encoding # "binary" /\ FoundAt(text(n), needle) # {}
      score(n) == 10 * Cardinality(FoundAt(text(n), needle)) + (IF HasWholeWord(text(n), needle) THEN 5 ELSE 0)
  IN  SelectSeq([n \in DOMAIN lines |-> [line |-> IF hit(n) THEN n ELSE 0, score |-> IF hit(n) THEN score(n) ELSE 0]],
                LAMBDA match : match.line # 0)

\* std::stable_sort by score, best first, and the first of them.
BestFirst(matches, max_results) ==
  LET before(i) == {j \in DOMAIN matches : matches[j].score > matches[i].score \/ (matches[j].score = matches[i].score /\ j < i)}
      at(k) == CHOOSE i \in DOMAIN matches : Cardinality(before(i)) = k - 1
  IN  [k \in 1..Min({max_results, Len(matches)}) |-> matches[at(k)]]

KeywordSearch(lines, queries, max_results) ==
  [q \in DOMAIN queries |-> BestFirst(ScanLinesForMatches(lines, queries, q), max_results)]

\* input: [lines, queries, max]
RunSearch == algorithm = "search" /\ Returns(KeywordSearch(input.lines, input.queries, input.max))

\* A query gets, among others, what it gets alone, and of the lines of text that
\* contain it, none that was left out has more of it than one that was not.
SearchedAsIfAlone ==
  \A q \in DOMAIN input.queries :
    LET found == {result[q][i].line : i \in DOMAIN result[q]}
        holds(n) == /\ input.lines[n].encoding # "binary" /\ input.queries[q] # <<>>
                    /\ \E i \in 1..Len(input.lines[n].text) : IndexOf(ToLower(input.lines[n].text), i, ToLower(input.queries[q]))
    IN  /\ result[q] = KeywordSearch(input.lines, <<input.queries[q]>>, input.max)[1]
        /\ found \subseteq {n \in DOMAIN input.lines : holds(n)}
        /\ Cardinality(found) = Min({input.max, Cardinality({n \in DOMAIN input.lines : holds(n)})})

ScoreSymbol(name, query) ==
  LET short == ToLower(TrailingIdentifier(name))
      lower == ToLower(query)
      full  == ToLower(name)
      tier  == IF lower \in {full, short} THEN 100
               ELSE IF IsPrefix(lower, full) \/ IsPrefix(lower, short) THEN 70
               ELSE IF \E i \in DOMAIN full : IndexOf(full, i, lower) THEN 40 ELSE 0
  IN  IF tier = 0 THEN 0 ELSE tier + (IF name = query THEN 5 ELSE 0)

SymbolSearch(names, query, max_results) ==
  LET scored == [i \in DOMAIN names |-> [name |-> names[i], score |-> ScoreSymbol(names[i], query)]]
  IN  IF query = <<>> THEN <<>> ELSE BestFirst(SelectSeq(scored, LAMBDA match : match.score # 0), max_results)

\* input: [names, query, max]
RunSymbolSearch == algorithm = "symbols" /\ Returns(SymbolSearch(input.names, input.query, input.max))

\* A symbol that is named just so is never behind one that is not.
ExactComesFirst ==
  \A i, j \in DOMAIN result : result[j].name = input.query /\ i < j => result[i].name = input.query
-----------------------------------------------------------------------------
InitText ==
  /\ algorithm \in DOMAIN Inputs
  /\ input \in Inputs[algorithm]
  /\ result = Nothing

NextText ==
  \/ RunQuote
  \/ RunUtf
  \/ RunExcerpt
  \/ RunDiff
  \/ RunIdentifier
  \/ RunId
  \/ RunWorktrees
  \/ RunHistory
  \/ RunSearch
  \/ RunSymbolSearch

SpecText == InitText /\ [][NextText]_textVars

Ran(name) == algorithm = name /\ result # Nothing

\* What one part of the program writes another reads as it was meant: the
\* arguments of a child process, the ids of items of context, git's listings
\* (ProcessRunner.cpp, McpServer.cpp, GitBackend.cpp).
WrittenIsRead ==
  /\ Ran("quote") => QuotedIsRead
  /\ Ran("id") => IdIsRead
  /\ algorithm \in {"worktrees", "history"} /\ result # Nothing => result = input

\* Positions and ranges mean the text they are about, however it is encoded and
\* wherever they lie: cuts between characters, the lines of an excerpt, the
\* lines a diff changes, the identifier under a cursor.
RangesAreExact ==
  /\ Ran("utf") => CutsAreBetween
  /\ Ran("excerpt") => ExcerptIsExact
  /\ Ran("diff") => DiffIsExact
  /\ Ran("identifier") => IdentifierIsWhole

\* What a search finds does not depend on what else is searched for, on the
\* lines around or on the limit, and an exact name is first.
SearchIsExact ==
  /\ Ran("search") => SearchedAsIfAlone
  /\ Ran("symbols") => ExactComesFirst

\* Every call of an algorithm gives what it should.
TextIsExact == WrittenIsRead /\ RangesAreExact /\ SearchIsExact
=============================================================================
