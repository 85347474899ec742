--------------------------- MODULE SchemaEvolution --------------------------
(***************************************************************************)
(* How the processes that share one SQLite file (aistudio.db) bring its    *)
(* schema up to date when they start: ContextSnapshotRepository::          *)
(* EnsureSchema, then Migrator::Apply, in the order of main().             *)
(*                                                                         *)
(* SQLite is external: its file is what is committed, a connection in a    *)
(* transaction sees its own version of it, one connection at a time may    *)
(* write (RESERVED), a commit waits until nobody else is in a transaction  *)
(* that has read (SHARED), and one that has read is refused at once, not   *)
(* made to wait, when it wants to write while another does.  What a        *)
(* process that dies had not committed is gone.                            *)
(***************************************************************************)
EXTENDS Integers, FiniteSets

CONSTANTS
  Processes,
  Last,           \* the newest migration there is: their versions are 1..Last
  Version,        \* the newest one each process knows: it was built with 1..Version[p]
  Kind,           \* what the SQL of each does, see Effect
  Nobody,
  MaxCrashes,     \* bounds: processes that die, and statements that fail
  MaxFaults       \*   because the disk is full or the lock is not free in 5 s

Migrations == 1..Last

\* Whether there are the tables context_snapshots (with or without the column
\* included_item_source_kinds) and schema_migrations, how often the effect of
\* each migration is in the file, and which versions are recorded.
FileStates ==
  [snapshots: BOOLEAN, kinds: BOOLEAN, versions: BOOLEAN,
   effects: [Migrations -> 0..2], recorded: SUBSET Migrations]

ASSUME SchemaAssumption ==
  /\ Last \in Nat \ {0}
  /\ Version \in [Processes -> 1..Last]
  /\ Kind \in [1..Last -> {"create", "add", "insert"}]
  /\ Nobody \notin Processes \cup FileStates
  /\ MaxCrashes \in Nat /\ MaxFaults \in Nat

VARIABLES
  file,       \* what is committed
  view,       \* the version of the file in each connection's transaction
  writer,     \* the connection that holds RESERVED
  readers,    \* those that hold SHARED in a transaction and have not written
  at,         \* what each process is doing
  next,       \* the migration it is about to apply
  snapshotsFailed, \* EnsureSchema has failed in it
  crashes, faults

sqlite == <<file, view, writer, readers>>
process == <<at, next, snapshotsFailed>>
vars == <<sqlite, process, crashes, faults>>

-----------------------------------------------------------------------------
(* SQLite. *)

InTransaction(p) == view[p] # Nobody

\* A statement that reads, and in a transaction keeps what it has read.
Read(p) ==
  /\ readers' = IF InTransaction(p) /\ writer # p THEN readers \cup {p} ELSE readers
  /\ UNCHANGED <<file, view, writer>>

\* A statement that writes waits for the lock, in a transaction keeps it, and
\* outside of one commits at once.
MayWrite(p) == writer \in {Nobody, p}
Write(p, f) ==
  /\ MayWrite(p)
  /\ IF InTransaction(p)
     THEN /\ view' = [view EXCEPT ![p] = f] /\ writer' = p
          /\ readers' = readers \ {p} /\ UNCHANGED file
     ELSE readers = {} /\ file' = f /\ UNCHANGED <<view, writer, readers>>

\* ROLLBACK, and the end of a connection.
Release(p) ==
  /\ view' = [view EXCEPT ![p] = Nobody]
  /\ writer' = IF writer = p THEN Nobody ELSE writer
  /\ readers' = readers \ {p}
  /\ UNCHANGED file

At(p, step) == at[p] = step
Goto(p, step) == at' = [at EXCEPT ![p] = step] /\ UNCHANGED <<next, snapshotsFailed>>
GotoNext(p, v) ==
  /\ at' = [at EXCEPT ![p] = "next"] /\ next' = [next EXCEPT ![p] = v]
  /\ UNCHANGED snapshotsFailed

NoFault == UNCHANGED faults
Fault == faults < MaxFaults /\ faults' = faults + 1

-----------------------------------------------------------------------------
(* ContextSnapshotRepository::EnsureSchema.  main() logs its failure and   *)
(* goes on.                                                                *)

GiveUpSnapshots(p) ==
  /\ at' = [at EXCEPT ![p] = "migrations table"]
  /\ snapshotsFailed' = [snapshotsFailed EXCEPT ![p] = TRUE]
  /\ UNCHANGED <<sqlite, next>>

CreateSnapshots(p) ==
  /\ At(p, "create")
  /\ \/ /\ IF file.snapshots THEN Read(p)
           ELSE Write(p, [file EXCEPT !.snapshots = TRUE, !.kinds = TRUE])
        /\ Goto(p, "check") /\ NoFault
     \/ Fault /\ GiveUpSnapshots(p)
  /\ UNCHANGED crashes

\* HasIncludedItemSourceKindsColumn.
CheckColumn(p) ==
  /\ At(p, "check")
  /\ \/ /\ Read(p) /\ NoFault
        /\ Goto(p, IF file.kinds THEN "migrations table" ELSE "alter")
     \/ Fault /\ GiveUpSnapshots(p)
  /\ UNCHANGED crashes

\* Mutant: a duplicate column is a failure.
AddColumnUnchecked(p) ==
  /\ At(p, "alter")
  /\ \/ /\ ~file.kinds
        /\ Write(p, [file EXCEPT !.kinds = TRUE])
        /\ Goto(p, "migrations table")
     \/ file.kinds /\ GiveUpSnapshots(p)
  /\ UNCHANGED <<crashes, faults>>

\* Another process may have added the column since: then the statement is
\* refused as a duplicate, and the column is looked for again.
AddColumn(p) ==
  /\ At(p, "alter")
  /\ \/ /\ ~file.kinds
        /\ Write(p, [file EXCEPT !.kinds = TRUE])
        /\ Goto(p, "migrations table") /\ NoFault
     \/ file.kinds /\ Goto(p, "recheck") /\ UNCHANGED sqlite /\ NoFault
     \/ Goto(p, "recheck") /\ UNCHANGED sqlite /\ Fault
  /\ UNCHANGED crashes

RecheckColumn(p) ==
  /\ At(p, "recheck")
  /\ \/ file.kinds /\ Goto(p, "migrations table") /\ Read(p) /\ NoFault
     \/ ~file.kinds /\ GiveUpSnapshots(p) /\ NoFault
     \/ GiveUpSnapshots(p) /\ Fault
  /\ UNCHANGED crashes

-----------------------------------------------------------------------------
(* Migrator::Apply.  main() ends when it fails.                            *)

EnsureMigrationsTable(p) ==
  /\ At(p, "migrations table")
  /\ \/ /\ IF file.versions THEN Read(p)
           ELSE Write(p, [file EXCEPT !.versions = TRUE])
        /\ Goto(p, "version") /\ NoFault
     \/ Goto(p, "failed") /\ UNCHANGED sqlite /\ Fault
  /\ UNCHANGED crashes

\* Mutant: none is taken for applied.
CurrentVersionZero(p) ==
  /\ At(p, "version")
  /\ GotoNext(p, 1)
  /\ UNCHANGED <<sqlite, crashes, faults>>

\* CurrentVersion, read before any transaction and never again.
CurrentVersion(p) ==
  /\ At(p, "version")
  /\ \/ /\ \E version \in file.recorded \cup {0} :
             /\ \A v \in file.recorded : v <= version
             /\ GotoNext(p, version + 1)
        /\ NoFault
     \/ Goto(p, "failed") /\ Fault
  /\ UNCHANGED <<sqlite, crashes>>

\* Mutant: each statement commits on its own.
BeginNothing(p) ==
  /\ At(p, "next")
  /\ Goto(p, IF next[p] > Version[p] THEN "serving" ELSE "execute")
  /\ UNCHANGED <<sqlite, crashes, faults>>

\* The next migration of the list, or the end of it.
Begin(p) ==
  /\ At(p, "next")
  /\ \/ /\ next[p] > Version[p]
        /\ Goto(p, "serving") /\ UNCHANGED sqlite /\ NoFault
     \/ /\ next[p] <= Version[p]
        /\ view' = [view EXCEPT ![p] = file]
        /\ Goto(p, "execute") /\ UNCHANGED <<file, writer, readers>> /\ NoFault
     \/ /\ next[p] <= Version[p]
        /\ Goto(p, "failed") /\ UNCHANGED sqlite /\ Fault
  /\ UNCHANGED crashes

\* A deferred transaction sees the file as of its first statement.
Current(p) == IF p \in readers \/ writer = p THEN view[p] ELSE file

\* CREATE TABLE IF NOT EXISTS of a table that is there only reads; ADD COLUMN
\* of a column that is there is an error; INSERT adds rows every time.
Execute(p) ==
  /\ At(p, "execute")
  /\ LET v == next[p]
         done == Current(p).effects[v] > 0
         after == [Current(p) EXCEPT !.effects[v] = @ + 1]
     IN \/ done /\ Kind[v] = "create"
             /\ view' = [view EXCEPT ![p] = Current(p)] /\ readers' = readers \cup {p}
             /\ UNCHANGED <<file, writer>> /\ Goto(p, "record") /\ NoFault
        \/ (~done \/ Kind[v] = "insert") /\ Write(p, after) /\ Goto(p, "record") /\ NoFault
        \/ done /\ Kind[v] = "add" /\ Goto(p, "rollback") /\ UNCHANGED sqlite /\ NoFault
        \/ Goto(p, "rollback") /\ UNCHANGED sqlite /\ Fault
  /\ UNCHANGED crashes

\* The version is the primary key of schema_migrations.
Record(p) ==
  /\ At(p, "record")
  /\ LET v == next[p]
         refused == v \in Current(p).recorded \/ (p \in readers /\ ~MayWrite(p))
     IN \/ /\ ~refused
           /\ Write(p, [Current(p) EXCEPT !.recorded = @ \cup {v}])
           /\ Goto(p, "commit") /\ NoFault
        \/ refused /\ Goto(p, "rollback") /\ UNCHANGED sqlite /\ NoFault
        \/ Goto(p, "rollback") /\ UNCHANGED sqlite /\ Fault
  /\ UNCHANGED crashes

\* A commit that fails leaves the transaction open: Apply does not roll back.
Commit(p) ==
  /\ At(p, "commit")
  /\ \/ /\ readers \ {p} = {}
        /\ file' = view[p] /\ view' = [view EXCEPT ![p] = Nobody]
        /\ writer' = Nobody /\ UNCHANGED readers
        /\ GotoNext(p, next[p] + 1)
        /\ NoFault
     \/ Goto(p, "failed") /\ UNCHANGED sqlite /\ Fault
  /\ UNCHANGED crashes

\* Mutant: the failure is not returned.
RollbackAndServe(p) ==
  /\ At(p, "rollback")
  /\ Release(p) /\ Goto(p, "serving") /\ UNCHANGED <<crashes, faults>>

Rollback(p) ==
  /\ At(p, "rollback")
  /\ Release(p) /\ Goto(p, "failed") /\ UNCHANGED <<crashes, faults>>

-----------------------------------------------------------------------------

\* The connection closes, and what the process knew is gone.
End(p) ==
  /\ Release(p)
  /\ at' = [at EXCEPT ![p] = "down"] /\ next' = [next EXCEPT ![p] = 0]
  /\ snapshotsFailed' = [snapshotsFailed EXCEPT ![p] = FALSE]

\* main() returns: the destructor closes the connection.
Exit(p) ==
  /\ At(p, "failed") \/ At(p, "serving")
  /\ End(p)
  /\ UNCHANGED <<crashes, faults>>

Crash(p) ==
  /\ ~At(p, "down") /\ crashes < MaxCrashes
  /\ crashes' = crashes + 1
  /\ End(p)
  /\ UNCHANGED faults

StartProcess(p) ==
  /\ At(p, "down") /\ Goto(p, "create") /\ UNCHANGED <<sqlite, crashes, faults>>

\* The file is new, or was left by a version before the column.
Init ==
  /\ \E old \in BOOLEAN :
       file = [snapshots |-> old, kinds |-> FALSE, versions |-> FALSE,
               effects |-> [v \in Migrations |-> 0], recorded |-> {}]
  /\ view = [p \in Processes |-> Nobody] /\ writer = Nobody /\ readers = {}
  /\ at = [p \in Processes |-> "down"] /\ next = [p \in Processes |-> 0]
  /\ snapshotsFailed = [p \in Processes |-> FALSE]
  /\ crashes = 0 /\ faults = 0

Step(p) ==
  \/ CreateSnapshots(p) \/ CheckColumn(p) \/ AddColumn(p) \/ RecheckColumn(p)
  \/ EnsureMigrationsTable(p) \/ CurrentVersion(p) \/ Begin(p) \/ Execute(p)
  \/ Record(p) \/ Commit(p) \/ Rollback(p)

Next == \E p \in Processes : Step(p) \/ Exit(p) \/ Crash(p) \/ StartProcess(p)

Spec == Init /\ [][Next]_vars

\* A process that runs gets on with what it is doing, leaves when it has
\* failed, and is started again by whoever wants it to serve.
Proceeds(p) == Step(p) \/ (At(p, "failed") /\ Exit(p)) \/ StartProcess(p)

FairSpec == Spec /\ \A p \in Processes : WF_vars(Proceeds(p))

-----------------------------------------------------------------------------
(* Properties. *)

Steps == {"down", "create", "check", "alter", "recheck", "migrations table",
          "version", "next", "execute", "record", "commit", "rollback",
          "failed", "serving"}

\* Every variable has its type; who writes or reads is in a transaction.
TypeOK ==
  /\ file \in FileStates
  /\ view \in [Processes -> FileStates \cup {Nobody}]
  /\ writer \in Processes \cup {Nobody} /\ (writer # Nobody => InTransaction(writer))
  /\ readers \subseteq {p \in Processes : InTransaction(p)}
  /\ at \in [Processes -> Steps] /\ next \in [Processes -> 0..(Last + 1)]
  /\ snapshotsFailed \in [Processes -> BOOLEAN]
  /\ crashes \in 0..MaxCrashes /\ faults \in 0..MaxFaults

\* The effect of a migration is in the file exactly once if its version is
\* recorded and not at all if it is not: whoever dies or fails halfway, and
\* also when two processes that read the same version apply it both.
AppliedExactlyOnce ==
  \A v \in Migrations : file.effects[v] = IF v \in file.recorded THEN 1 ELSE 0

\* Versions are recorded without gaps, so that the largest one, which is all
\* CurrentVersion() looks at, says which migrations are missing.
NoGaps == \A v \in file.recorded : 1..v \subseteq file.recorded

\* A process that serves has every migration it was built with.
ServesMigrated ==
  \A p \in Processes : At(p, "serving") => 1..Version[p] \subseteq file.recorded

\* However the processes race to add the column, EnsureSchema succeeds when
\* no statement fails for a reason of its own, and the column is there.
ColumnRaceIsBenign ==
  faults = 0 =>
    \A p \in Processes : /\ ~snapshotsFailed[p]
                         /\ At(p, "serving") => file.kinds

\* A process that keeps being started serves in the end: losing the race to
\* apply a migration costs it a start, but does not repeat for ever.
EveryoneServes == \A p \in Processes : []<>At(p, "serving")
=============================================================================
