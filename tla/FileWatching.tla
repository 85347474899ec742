---------------------------- MODULE FileWatching ----------------------------
(***************************************************************************)
(* FileWatcher (Core/Project) and the "FileChanged" handler that main.cpp  *)
(* subscribes for the code indexes: a background thread rescans the        *)
(* project, compares the content hashes with those of its last scan and    *)
(* publishes what differs; the handler reads each changed file again to    *)
(* update the indexes.  On Windows a rescan follows a notification of the  *)
(* operating system, elsewhere (or when the directory cannot be opened) a  *)
(* timer.  The six indexes are updated one after the other in the same     *)
(* handler, and stand as one variable.                                     *)
(***************************************************************************)
EXTENDS Naturals, FiniteSets

CONSTANTS
  Files,
  Contents,   \* what a file may hold
  Absent,     \* the file does not exist
  MaxEdits,   \* bound on the changes made to the disk
  Reverts     \* TRUE when a file may get a content back that it had before

ASSUME AbsentIsNoContent == Absent \notin Contents
ASSUME MaxEditsIsNatural == MaxEdits \in Nat
ASSUME RevertsIsBoolean == Reverts \in BOOLEAN

VARIABLES
  disk,              \* the content of each file
  past,              \* the contents each file has had
  edits,             \* how many changes were made to the disk
  known,             \* known_hashes_
  baseline,          \* baseline_established_
  native,            \* the directory could be opened for notifications
  armed,             \* ReadDirectoryChangesW: "never" issued, "reaped", "armed"
  pending,           \* the system has a notification for the watch
  baselinePending,   \* baseline_pending
  watcher,           \* where the watcher's thread is
  index,             \* the content of each file that the indexes reflect
  missed             \* files the indexes are knowingly behind on

watchVars == <<known, baseline, native, armed, pending, baselinePending, watcher>>
diskVars  == <<disk, past, edits>>
fileVars  == <<diskVars, watchVars, index, missed>>

State == Contents \cup {Absent}

\* What a scan returns that began when the disk was as in "seen": each file
\* is read at some moment of it.
ScanResults(seen) == {s \in [Files -> State] : \A f \in Files : s[f] \in {seen[f], disk[f]}}

-----------------------------------------------------------------------------
\* main.cpp has built the indexes, and creates the watcher.
InitFiles ==
  /\ disk \in [Files -> State]
  /\ past = [f \in Files |-> {disk[f]}]
  /\ edits = 0
  /\ known = [f \in Files |-> Absent]
  /\ baseline = FALSE
  /\ native = FALSE
  /\ armed = "never"
  /\ pending = FALSE
  /\ baselinePending = TRUE
  /\ watcher = [at |-> "start"]
  /\ index = disk
  /\ missed = {}

\* Somebody writes, creates or deletes a file.  Once the watch was armed for
\* the first time, the system buffers what happens between two reads.
Edit(f, c) ==
  /\ edits < MaxEdits /\ c # disk[f]
  /\ Reverts \/ c \notin past[f]
  /\ disk' = [disk EXCEPT ![f] = c]
  /\ past' = [past EXCEPT ![f] = @ \cup {c}]
  /\ edits' = edits + 1
  /\ pending' = (armed # "never")
  /\ UNCHANGED <<known, baseline, native, armed, baselinePending, watcher, index, missed>>

-----------------------------------------------------------------------------
(* The thread's loop.                                                      *)

Scanning(then) == [at |-> "scanning", seen |-> disk, then |-> then]

\* The thread starts, and opens the directory or fails to.
Start ==
  /\ watcher.at = "start"
  /\ \E opened \in BOOLEAN : native' = opened
  /\ watcher' = [at |-> "loop"]
  /\ UNCHANGED <<diskVars, known, baseline, armed, pending, baselinePending, index, missed>>

\* Mutant: the baseline is taken before the watch is armed.
ArmAfterBaseline ==
  /\ watcher.at = "loop" /\ native
  /\ IF baselinePending
       THEN /\ watcher' = Scanning("loop")
            /\ UNCHANGED armed
       ELSE /\ watcher' = [at |-> "wait"]
            /\ armed' = "armed"
  /\ baselinePending' = FALSE
  /\ UNCHANGED <<diskVars, known, baseline, native, pending, index, missed>>

\* The watch is armed; the first time, PollOnce() follows.
Arm ==
  /\ watcher.at = "loop" /\ native
  /\ armed' = "armed"
  /\ watcher' = IF baselinePending THEN Scanning("wait") ELSE [at |-> "wait"]
  /\ baselinePending' = FALSE
  /\ UNCHANGED <<diskVars, known, baseline, native, pending, index, missed>>

\* Without notifications, or when the watch cannot be armed this time: scan,
\* and sleep.
PollOnTimer ==
  /\ watcher.at = "loop"
  /\ watcher' = Scanning("loop")
  /\ UNCHANGED <<diskVars, known, baseline, native, armed, pending, baselinePending, index, missed>>

\* A notification arrived: it is reaped, ...
Reap ==
  /\ watcher.at = "wait" /\ pending
  /\ armed' = "reaped"
  /\ pending' = FALSE
  /\ watcher' = [at |-> "debounce"]
  /\ UNCHANGED <<diskVars, known, baseline, native, baselinePending, index, missed>>

\* ... and after the debounce window the project is rescanned.
Rescan ==
  /\ watcher.at = "debounce"
  /\ watcher' = Scanning("loop")
  /\ UNCHANGED <<diskVars, known, baseline, native, armed, pending, baselinePending, index, missed>>

\* Stop() ends the loop; a scan under way is completed first.
Stop ==
  /\ watcher.at \in {"loop", "wait"}
  /\ watcher' = [at |-> "stopped"]
  /\ UNCHANGED <<diskVars, known, baseline, native, armed, pending, baselinePending, index, missed>>

-----------------------------------------------------------------------------
(* PollOnce.                                                               *)

\* The files still to be published, or else what follows PollOnce().
Publishing(changes, then) ==
  IF changes = {} THEN [at |-> then] ELSE [at |-> "publishing", changes |-> changes, then |-> then]

\* The first scan is a silent baseline: what changed since the indexes were
\* built is not reported.
TakeBaseline ==
  /\ watcher.at = "scanning" /\ ~baseline
  /\ \E scan \in ScanResults(watcher.seen) :
       /\ known' = scan
       /\ missed' = {f \in Files : scan[f] # index[f]}
  /\ baseline' = TRUE
  /\ watcher' = [at |-> watcher.then]
  /\ UNCHANGED <<diskVars, native, armed, pending, baselinePending, index>>

\* Later scans are compared with the one before.
Compare ==
  /\ watcher.at = "scanning" /\ baseline
  /\ \E scan \in ScanResults(watcher.seen) :
       /\ known' = scan
       /\ watcher' = Publishing({f \in Files : scan[f] # known[f]}, watcher.then)
  /\ UNCHANGED <<diskVars, baseline, native, armed, pending, baselinePending, index, missed>>

\* The next event to be published: deletions come last.
NextEvent(f) ==
  /\ f \in watcher.changes
  /\ known[f] = Absent => \A g \in watcher.changes : known[g] = Absent

\* The handler's RemoveFile(), or its UpdateFile(), which reads the file
\* again; if it cannot be opened, a warning is logged and the indexes keep
\* what they had.
UpdateIndexes(f) ==
  /\ watcher.at = "publishing" /\ NextEvent(f)
  /\ \/ /\ known[f] = Absent \/ disk[f] # Absent
        /\ index' = [index EXCEPT ![f] = IF known[f] = Absent THEN Absent ELSE disk[f]]
        /\ missed' = missed \ {f}
     \/ /\ known[f] # Absent
        /\ missed' = missed \cup {f}
        /\ UNCHANGED index
  /\ watcher' = [watcher EXCEPT !.at = "updated", !.changes = @ \ {f}]
  /\ UNCHANGED <<diskVars, known, baseline, native, armed, pending, baselinePending>>

\* The handler is left, and the next event is published.
EventHandled ==
  /\ watcher.at = "updated"
  /\ watcher' = Publishing(watcher.changes, watcher.then)
  /\ UNCHANGED <<diskVars, known, baseline, native, armed, pending, baselinePending, index, missed>>

-----------------------------------------------------------------------------
WatcherProceeds ==
  \/ Start \/ Arm \/ PollOnTimer \/ Reap \/ Rescan
  \/ TakeBaseline \/ Compare
  \/ \E f \in Files : UpdateIndexes(f)

SomebodyEdits == \E f \in Files, c \in State : Edit(f, c)

NextFiles == SomebodyEdits \/ WatcherProceeds \/ EventHandled \/ Stop

FilesSpec == InitFiles /\ [][NextFiles]_fileVars

WatcherStates ==
  [at : {"start", "loop", "wait", "debounce", "stopped"}]
    \cup [at : {"scanning"}, seen : [Files -> State], then : {"loop", "wait"}]
    \cup [at : {"publishing", "updated"}, changes : SUBSET Files, then : {"loop", "wait"}]

FilesTypeOK ==
  /\ disk \in [Files -> State]
  /\ past \in [Files -> SUBSET State]
  /\ edits \in 0..MaxEdits
  /\ known \in [Files -> State]
  /\ baseline \in BOOLEAN
  /\ native \in BOOLEAN
  /\ armed \in {"never", "reaped", "armed"}
  /\ pending \in BOOLEAN
  /\ baselinePending \in BOOLEAN
  /\ watcher \in WatcherStates
  /\ index \in [Files -> State]
  /\ missed \in SUBSET Files

\* The watcher waits, and the system has nothing to wake it for.
Quiet == watcher.at = "wait" /\ ~pending

\* No change is lost between a scan and the next wait: while the watcher
\* sleeps with no notification on its way, its last scan is what is on disk.
NoMissedChange == Quiet => known = disk

\* While the watcher sleeps the indexes reflect the disk, but for the files
\* whose update failed or that changed before the baseline.
IndexesCurrent == Quiet => \A f \in Files \ missed : index[f] = disk[f]

\* While the watcher sleeps no change is left that nobody has seen, and none
\* that was seen and did not reach the indexes.
ChangesReachIndexes == NoMissedChange /\ IndexesCurrent

\* The same without exception.
IndexesFollowDisk == Quiet => index = disk

=============================================================================
