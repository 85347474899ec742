----------------------------- MODULE GitCommands -----------------------------
(***************************************************************************)
(* GitBackend: the commands and queries that threads of the server send to *)
(* a git repository, each of them one or two runs of git (ChildProcesses   *)
(* models a run), while the user edits files in its working trees.         *)
(*                                                                         *)
(* What git does is not this program's: the operators named Git... say as  *)
(* much of it as the backend relies on.  A run may fail instead at any     *)
(* time, as when another git holds the lock; it then changes nothing.      *)
(***************************************************************************)
EXTENDS Naturals, FiniteSets, Sequences, SequencesExt

CONSTANTS
  Threads,
  Paths,       \* where working trees may be; the backend's own is Root
  Root,
  Branches,    \* names of branches; Main exists at first
  Main,
  Tracked,     \* the files; their names may be given for a branch's by mistake
  NoContent,      \* no such file
  NotThere,    \* no working tree, no branch
  MaxSaves,    \* bound on the user's edits
  MaxCommits,  \* bound on commits
  MaxCalls     \* bound on commands and queries

ASSUME MainIsABranch == Main \in Branches /\ Root \in Paths /\ Branches \cap Tracked = {}
ASSUME GitValues ==
  /\ NoContent \notin Nat /\ NotThere \notin Nat
  /\ NotThere \notin [branch : Branches, index : [Tracked -> Nat \cup {NoContent}],
                      work : [Tracked -> Nat \cup {NoContent}]]
ASSUME GitBounds == MaxSaves \in Nat /\ MaxCommits \in Nat \ {0} /\ MaxCalls \in Nat

VARIABLES
  available,  \* GitBackend::available_
  trees,      \* of each path: NotThere or [branch, index, work]
  heads,      \* the last commit of each branch, or NotThere
  commits,    \* all commits, the parent of each and its files
  stashed,    \* <<file, content>> in a stash
  tags,
  calling,    \* the thread's call between the two runs of git.commit
  reply,      \* the last answer: an outcome and the files it is about
  saves,
  calls

gitVars == <<available, trees, heads, commits, stashed, tags, calling, reply, saves, calls>>

Idle == "idle"
OptionName == "-f"  \* any name that begins with '-'

LooksLikeGitOption(name) == name = OptionName

Exists(branch) == branch \in Branches /\ heads[branch] # NotThere
FilesOf(n) == commits[n].files
HeadOf(tree) == FilesOf(heads[tree.branch])
IsCheckedOut(branch) == \E p \in Paths : trees[p] # NotThere /\ trees[p].branch = branch
Differ(a, b) == {f \in Tracked : a[f] # b[f]}
Held(files) == {<<f, files[f]>> : f \in {g \in Tracked : files[g] # NoContent}}
-----------------------------------------------------------------------------
(* git, in the backend's own working tree. *)

GitAddAll == trees' = [trees EXCEPT ![Root].index = trees[Root].work]

GitCommit ==
  /\ Len(commits) < MaxCommits
  /\ trees[Root].index # HeadOf(trees[Root])
  /\ commits' = Append(commits, [parent |-> heads[trees[Root].branch], files |-> trees[Root].index])
  /\ heads' = [heads EXCEPT ![trees[Root].branch] = Len(commits')]

GitBranch(name) ==
  /\ name \in Branches /\ ~Exists(name)
  /\ heads' = [heads EXCEPT ![name] = heads[trees[Root].branch]]

\* Files that differ between the branches must be as the branch has them.
GitSwitch(name) ==
  LET tree == trees[Root]
      new  == FilesOf(heads[name])
      moved == Differ(HeadOf(tree), new)
  IN  /\ Exists(name) /\ ~IsCheckedOut(name)
      /\ \A f \in moved : tree.work[f] = HeadOf(tree)[f] /\ tree.index[f] = HeadOf(tree)[f]
      /\ trees' = [trees EXCEPT ![Root] =
           [branch |-> name, index |-> [f \in Tracked |-> IF f \in moved THEN new[f] ELSE tree.index[f]],
            work |-> [f \in Tracked |-> IF f \in moved THEN new[f] ELSE tree.work[f]]]]

\* A name that is no branch but a file's: the file is restored from the index.
GitRestore(name) ==
  /\ name \in Tracked /\ trees[Root].index[name] # NoContent
  /\ trees' = [trees EXCEPT ![Root].work[name] = trees[Root].index[name]]

GitForce == trees' = [trees EXCEPT ![Root].index = HeadOf(trees[Root]), ![Root].work = HeadOf(trees[Root])]

GitCheckout(name) == GitSwitch(name) \/ GitRestore(name) \/ (name = OptionName /\ GitForce)

\* What is tracked is set aside, what is not stays.
GitStash ==
  LET tree  == trees[Root]
      known == {f \in Tracked : tree.index[f] # NoContent \/ HeadOf(tree)[f] # NoContent}
      dirty == {f \in known : tree.work[f] # HeadOf(tree)[f] \/ tree.index[f] # HeadOf(tree)[f]}
  IN  /\ dirty # {}
      /\ stashed' = stashed \cup Held([f \in Tracked |-> IF f \in dirty THEN tree.work[f] ELSE NoContent])
      /\ trees' = [trees EXCEPT ![Root].index = HeadOf(tree),
                                ![Root].work = [f \in Tracked |-> IF f \in known THEN HeadOf(tree)[f] ELSE tree.work[f]]]

GitTag(name) == name \in Branches /\ name \notin tags /\ tags' = tags \cup {name}

GitWorktreeAdd(name, path) ==
  LET files == HeadOf(trees[Root])
  IN  /\ name \in Branches /\ ~Exists(name) /\ path \in Paths /\ trees[path] = NotThere
      /\ heads' = [heads EXCEPT ![name] = heads[trees[Root].branch]]
      /\ trees' = [trees EXCEPT ![path] = [branch |-> name, index |-> files, work |-> files]]

GitWorktreeRemove(path) ==
  /\ path \in Paths \ {Root} /\ trees[path] # NotThere
  /\ trees[path].work = HeadOf(trees[path]) /\ trees[path].index = HeadOf(trees[path])
  /\ trees' = [trees EXCEPT ![path] = NotThere]
-----------------------------------------------------------------------------
(* Dispatch(). *)

Answers(outcome, files) == reply' = [outcome |-> outcome, files |-> files]

\* A call of one run: refused, failed, or done.
OneRun(t, valid, git, same) ==
  /\ calling[t] = Idle /\ calls < MaxCalls
  /\ calls' = calls + 1
  /\ \/ available /\ valid /\ git /\ Answers("ok", {})
     \/ /\ Answers(IF available /\ valid THEN "failed" ELSE "invalid", {})
        /\ UNCHANGED <<trees, heads, commits, stashed, tags>>
  /\ same
  /\ UNCHANGED <<available, calling, saves>>

\* git add -A, then git commit; what the first one staged stays if the second fails.
CommitAdds(t) ==
  /\ calling[t] = Idle /\ calls < MaxCalls /\ available
  /\ calls' = calls + 1
  /\ \/ GitAddAll /\ calling' = [calling EXCEPT ![t] = "added"] /\ UNCHANGED reply
     \/ Answers("failed", {}) /\ UNCHANGED <<trees, calling>>
  /\ UNCHANGED <<available, heads, commits, stashed, tags, saves>>

CommitCommits(t) ==
  /\ calling[t] = "added"
  /\ calling' = [calling EXCEPT ![t] = Idle]
  /\ \/ GitCommit /\ Answers("ok", {})
     \/ Answers("failed", {}) /\ UNCHANGED <<heads, commits>>
  /\ UNCHANGED <<available, trees, stashed, tags, saves, calls>>

RefNames == Branches \cup Tracked \cup {OptionName}

DispatchBranch(t) ==
  \E name \in RefNames :
    OneRun(t, ~LooksLikeGitOption(name), GitBranch(name), UNCHANGED <<trees, commits, stashed, tags>>)

DispatchStash(t) == OneRun(t, TRUE, GitStash, UNCHANGED <<heads, commits, tags>>)

\* As if a name could be an option.
CheckoutAnything(t) ==
  \E name \in RefNames \ Tracked :
    OneRun(t, TRUE, GitCheckout(name), UNCHANGED <<heads, commits, stashed, tags>>)

DispatchCheckout(t) ==
  \E name \in RefNames :
    OneRun(t, ~LooksLikeGitOption(name), GitCheckout(name), UNCHANGED <<heads, commits, stashed, tags>>)

DispatchTag(t) ==
  \E name \in RefNames :
    OneRun(t, ~LooksLikeGitOption(name), GitTag(name), UNCHANGED <<trees, heads, commits, stashed>>)

DispatchWorktreeAdd(t) ==
  \E name \in RefNames, path \in Paths \cup {OptionName} :
    OneRun(t, ~LooksLikeGitOption(name) /\ ~LooksLikeGitOption(path), GitWorktreeAdd(name, path),
           UNCHANGED <<commits, stashed, tags>>)

DispatchWorktreeRemove(t) ==
  \E path \in Paths \cup {OptionName} :
    OneRun(t, ~LooksLikeGitOption(path), GitWorktreeRemove(path), UNCHANGED <<heads, commits, stashed, tags>>)
-----------------------------------------------------------------------------
(* Handle(): an answer is the files it is about. *)

\* The least set that holds the commit, and the parent of each that it holds.
HoldsParents(past) == \A k \in past : commits[k].parent \in past \cup {0}

Ancestors(n) == {m \in 1..n : \A past \in SUBSET (1..n) : n \in past /\ HoldsParents(past) => m \in past}

MergeBase(a, b) == Max(Ancestors(a) \cap Ancestors(b))

Diff(kind) ==
  LET tree == trees[Root]
  IN  CASE kind = "git.diff"        -> Differ(tree.index, tree.work)
        [] kind = "git.diff.staged" -> Differ(HeadOf(tree), tree.index)
        [] kind = "git.diff.head"   -> Differ(HeadOf(tree), tree.work)

\* As if the two ends were compared: base..HEAD.
DiffOfEnds(base) == Differ(FilesOf(heads[base]), HeadOf(trees[Root]))

\* base...HEAD: what changed since the branches parted.
DiffBranch(base) == Differ(FilesOf(MergeBase(heads[base], heads[trees[Root].branch])), HeadOf(trees[Root]))

Query(t, files) ==
  /\ calling[t] = Idle /\ calls < MaxCalls
  /\ calls' = calls + 1
  /\ \/ available /\ Answers("ok", files)
     \/ Answers("failed", {})
  /\ UNCHANGED <<available, trees, heads, commits, stashed, tags, calling, saves>>

Changed(n) == IF n = 1 THEN Tracked ELSE Differ(FilesOf(commits[n].parent), FilesOf(n))

\* git log, newest first, at most max.
Log(found, max) ==
  LET newest == SetToSortSeq(found, LAMBDA m, n : m > n)
  IN  SubSeq(newest, 1, Min({Len(newest), max}))

\* ProvideContext(): the commits whose message names the intent, then those
\* whose changes do, each once, two at most.
Provided(named, changed) ==
  LET once == FoldLeft(LAMBDA list, n : IF n \in ToSet(list) THEN list ELSE Append(list, n), <<>>,
                       Log(named, 5) \o Log(changed, 5))
  IN  ToSet(SubSeq(once, 1, Min({Len(once), 2})))

\* git.status lists what git.diff and git.diff.staged are about, git.show what
\* a commit changed, git.log.symbol the commits that changed something.
HandleQuery(t) ==
  LET all  == DOMAIN commits
      show == {Changed(n) : n \in all}
      logs == {UNION {Changed(n) : n \in ToSet(Log({m \in all : f \in Changed(m)}, 10))} : f \in Tracked}
      context == {UNION {Changed(n) : n \in Provided(named, {m \in all : f \in Changed(m)})} :
                    named \in SUBSET all, f \in Tracked}
      status == {Diff(kind) : kind \in {"git.diff", "git.diff.staged", "git.diff.head"}}
                  \cup {Diff("git.diff") \cup Diff("git.diff.staged")}
  IN  \E files \in show \cup logs \cup context \cup status
                     \cup {DiffBranch(base) : base \in {b \in Branches : Exists(b)}} :
        Query(t, files)
-----------------------------------------------------------------------------
(* The others. *)

\* Start(): git --version runs or, the first time or later, does not.
StartGit ==
  /\ available' \in BOOLEAN
  /\ UNCHANGED <<trees, heads, commits, stashed, tags, calling, reply, saves, calls>>

Save ==
  /\ saves < MaxSaves
  /\ saves' = saves + 1
  /\ \E p \in {q \in Paths : trees[q] # NotThere}, f \in Tracked : trees' = [trees EXCEPT ![p].work[f] = saves']
  /\ UNCHANGED <<available, heads, commits, stashed, tags, calling, reply, calls>>

InitGit ==
  LET files == [f \in Tracked |-> 0]
  IN  /\ available = FALSE
      /\ trees = [p \in Paths |-> IF p = Root THEN [branch |-> Main, index |-> files, work |-> files] ELSE NotThere]
      /\ heads = [b \in Branches |-> IF b = Main THEN 1 ELSE NotThere]
      /\ commits = <<[parent |-> 0, files |-> files]>>
      /\ stashed = {}
      /\ tags = {}
      /\ calling = [t \in Threads |-> Idle]
      /\ reply = [outcome |-> "none", files |-> {}]
      /\ saves = 0
      /\ calls = 0

GitStep ==
  \E t \in Threads :
    \/ CommitAdds(t) \/ CommitCommits(t)
    \/ DispatchBranch(t) \/ DispatchStash(t) \/ DispatchCheckout(t) \/ DispatchTag(t)
    \/ DispatchWorktreeAdd(t) \/ DispatchWorktreeRemove(t)
    \/ HandleQuery(t)

NextGit == GitStep \/ Save \/ StartGit

SpecGit == InitGit /\ [][NextGit]_gitVars
-----------------------------------------------------------------------------
WorkingFiles == UNION {Held(trees[p].work) : p \in {q \in Paths : trees[q] # NotThere}}
Kept == WorkingFiles \cup stashed \cup UNION {Held(FilesOf(n)) : n \in DOMAIN commits}

\* No step of the backend makes what is in a working tree irrecoverable,
\* whatever threads and the user do in between: a dirty tree is not removed, a
\* checkout or a stash drops nothing that is not kept elsewhere.  Exempt: what
\* the user saves over, and a checkout of a file (CheckoutKeepsWork).
NoWorkIsLost ==
  [][trees' # trees => \/ WorkingFiles \subseteq Kept'
                       \/ Save
                       \/ \E name \in Tracked : GitRestore(name)]_gitVars

\* git.checkout: "this Command can fail, but can't destroy work".
CheckoutKeepsWork == [][(\E t \in Threads : DispatchCheckout(t)) => WorkingFiles \subseteq Kept']_gitVars

\* git.diff.branch names what the current branch changed since it parted from
\* the base, and never what was changed on the base alone.
BranchDiffIsOwn ==
  \A base \in {b \in Branches : Exists(b)} :
    LET own == Ancestors(heads[trees[Root].branch]) \ Ancestors(heads[base])
    IN  /\ DiffBranch(base) \subseteq UNION {Changed(n) : n \in own}
        /\ \A f \in Tracked : Cardinality({n \in own : f \in Changed(n)}) = 1 => f \in DiffBranch(base)
=============================================================================
