---------------------------- MODULE StoredProofs ----------------------------
(***************************************************************************)
(* Proofs about the parts that MCStored composes.                          *)
(*                                                                         *)
(* The schema, for any number of processes, any list of migrations, and    *)
(* any number of crashes and failing statements: who holds RESERVED or     *)
(* SHARED in a transaction keeps what is committed from changing, so what  *)
(* it has seen is still true when it records a version.                    *)
(*                                                                         *)
(* The watcher, for any files and any number of edits: whatever is written *)
(* while it scans, publishes or is about to wait leaves a notification.    *)
(* If no content ever returns, comparing two scans finds it, and the       *)
(* indexes follow; and a cached scan or answer that is behind is so for a  *)
(* file whose change will be noticed, or an invalidation of it is on its   *)
(* way.                                                                    *)
(***************************************************************************)
EXTENDS SchemaEvolution, ContextFreshness, TLAPS

-----------------------------------------------------------------------------
(* The schema. *)

\* The places where a process is in no transaction.
Outside == {"down", "create", "check", "alter", "recheck", "migrations table",
            "version", "next", "serving"}

\* The effects in a version of the file are those of the recorded migrations.
Consistent(f) == \A v \in Migrations : f.effects[v] = IF v \in f.recorded THEN 1 ELSE 0

Same(f, g) == f.effects = g.effects /\ f.recorded = g.recorded

\* A file with migration v applied and not yet recorded.
Applied(f, g, v) ==
  /\ f.recorded = g.recorded
  /\ f.effects = [g.effects EXCEPT ![v] = @ + 1]


\* Whoever writes is in a transaction and has stopped being a mere reader.
WriterLock == writer # Nobody => writer \notin readers /\ InTransaction(writer)

\* What a process at its place in the code has of the locks.
Locks(p) ==
  /\ at[p] \in Outside => ~InTransaction(p)
  /\ At(p, "execute") => InTransaction(p) /\ p \notin readers /\ writer # p

\* What a process has seen and done in its transaction.
Progress(p) ==
  /\ At(p, "record") =>
       \/ /\ p \in readers /\ Same(view[p], file)
          /\ file.effects[next[p]] > 0
       \/ writer = p /\ Applied(view[p], file, next[p])
  /\ At(p, "commit") =>
       /\ writer = p /\ Consistent(view[p])
       /\ view[p].recorded = file.recorded \cup {next[p]}

\* Where a process is in the list: all it has passed is recorded.
Passed(p) ==
  /\ at[p] \in {"next", "execute", "record", "commit"} =>
       next[p] >= 1 /\ 1..(next[p] - 1) \subseteq file.recorded
  /\ at[p] \in {"execute", "record", "commit"} => next[p] \in Migrations

Served(p) == At(p, "serving") => 1..Version[p] \subseteq file.recorded

Own(p) == Locks(p) /\ Progress(p) /\ Passed(p) /\ Served(p)

Inv ==
  /\ TypeOK /\ WriterLock /\ Consistent(file) /\ NoGaps
  /\ \A p \in Processes : Own(p)

-----------------------------------------------------------------------------
(* Types. *)

\* What a statement of process p leaves of the types.
LEMMA WriteTypeOK ==
  ASSUME TypeOK, NEW p \in Processes, NEW f \in FileStates, Write(p, f) \/ Read(p) \/ Release(p)
  PROVE  /\ file' \in FileStates /\ view' \in [Processes -> FileStates \cup {Nobody}]
         /\ writer' \in Processes \cup {Nobody}
         /\ writer' # Nobody => InTransaction(writer)'
         /\ readers' \subseteq {q \in Processes : InTransaction(q)'}
<1> USE SchemaAssumption DEF TypeOK, InTransaction
<1>1. CASE Write(p, f)
  <2>1. CASE InTransaction(p)
    <3>1. /\ view' = [view EXCEPT ![p] = f] /\ writer' = p
          /\ readers' = readers \ {p} /\ file' = file
      BY <1>1, <2>1 DEF Write
    <3>2. f # Nobody
      OBVIOUS
    <3> QED
      BY <3>1, <3>2
  <2>2. CASE ~InTransaction(p)
    BY <1>1, <2>2 DEF Write
  <2> QED
    BY <2>1, <2>2
<1>2. CASE Read(p)
  BY <1>2 DEF Read
<1>3. CASE Release(p)
  BY <1>3 DEF Release
<1> QED
  BY <1>1, <1>2, <1>3

ProcessTypes ==
  /\ at \in [Processes -> Steps] /\ next \in [Processes -> 0..(Last + 1)]
  /\ snapshotsFailed \in [Processes -> BOOLEAN]

\* Process p is the one that moves, to this place in the code.
Moved(p, step) ==
  /\ ProcessTypes'
  /\ \A q \in Processes \ {p} : at'[q] = at[q] /\ next'[q] = next[q]
  /\ at'[p] = step

\* A process moves to another place and keeps its place in the list.
LEMMA GotoMoves ==
  ASSUME TypeOK, NEW p \in Processes, NEW step \in Steps, Goto(p, step)
  PROVE  Moved(p, step) /\ next'[p] = next[p]
  BY DEF TypeOK, Goto, ProcessTypes, Moved

\* A process moves on in the list.
LEMMA GotoNextMoves ==
  ASSUME TypeOK, NEW p \in Processes, NEW n \in 0..(Last + 1), GotoNext(p, n)
  PROVE  Moved(p, "next") /\ next'[p] = n
  BY DEF TypeOK, GotoNext, ProcessTypes, Moved, Steps

\* Faults are counted within their bound.
LEMMA FaultTypeOK ==
  ASSUME TypeOK, NoFault \/ Fault
  PROVE  faults' \in 0..MaxFaults
  BY SchemaAssumption DEF TypeOK, NoFault, Fault

\* The steps of a process that leave committed effects and versions alone
\* have an invariant to keep only for that process.
LEMMA Frame ==
  ASSUME Inv, NEW p \in Processes, TypeOK', WriterLock', Same(file', file), Own(p)',
         \A q \in Processes \ {p} :
           /\ view'[q] = view[q] /\ at'[q] = at[q] /\ next'[q] = next[q]
           /\ q \in readers' <=> q \in readers
           /\ writer' = q <=> writer = q
  PROVE  Inv'
<1>1. Consistent(file)' /\ NoGaps'
  BY DEF Inv, Consistent, NoGaps, Same
<1>2. ASSUME NEW q \in Processes \ {p} PROVE Own(q)'
  <2>1. Locks(q)'
    BY <1>2 DEF Inv, Own, Locks, At, InTransaction
  <2>2. Progress(q)'
    BY <1>2 DEF Inv, Own, Progress, At, Same, Applied, Consistent
  <2>3. Passed(q)' /\ Served(q)'
    BY <1>2 DEF Inv, Own, Passed, Served, At, Same
  <2> QED
    BY <2>1, <2>2, <2>3 DEF Own
<1> QED
  BY <1>1, <1>2 DEF Inv

\* The steps of a process that is in no transaction: of the file they change
\* at most what no migration is about, and of the locks nothing.
LEMMA OutsideStep ==
  ASSUME Inv, NEW p \in Processes, ~InTransaction(p),
         UNCHANGED <<view, writer, readers, crashes>>,
         file' \in FileStates, Same(file', file), faults' \in 0..MaxFaults,
         NEW step \in Outside \cup {"failed"}, Moved(p, step),
         Passed(p)', Served(p)'
  PROVE  Inv'
<1>1. TypeOK' /\ WriterLock'
  BY DEF Inv, TypeOK, WriterLock, InTransaction, Moved, ProcessTypes
<1>2. Locks(p)' /\ Progress(p)'
  BY DEF Locks, Progress, At, InTransaction, Outside, Moved
<1> QED
  BY <1>1, <1>2, Frame DEF Own, Moved

-----------------------------------------------------------------------------
(* One lemma per action. *)

\* A failed EnsureSchema is logged, and the start goes on.
LEMMA GivesUpSnapshots ==
  ASSUME Inv, NEW p \in Processes, GiveUpSnapshots(p)
  PROVE  Moved(p, "migrations table") /\ UNCHANGED sqlite
  BY DEF GiveUpSnapshots, Inv, TypeOK, Moved, ProcessTypes, Steps

\* A statement outside a transaction takes no lock that outlives it.
LEMMA OutsideStatement ==
  ASSUME NEW p \in Processes, ~InTransaction(p), NEW f,
         Write(p, f) \/ Read(p) \/ UNCHANGED sqlite
  PROVE  UNCHANGED <<view, writer, readers>> /\ file' \in {file, f}
  BY DEF Write, Read, sqlite

\* The steps of EnsureSchema touch no migration's effects.
LEMMA SnapshotSteps ==
  ASSUME Inv, NEW p \in Processes,
         CreateSnapshots(p) \/ CheckColumn(p) \/ AddColumn(p) \/ RecheckColumn(p)
  PROVE  Inv'
<1> DEFINE created == [file EXCEPT !.snapshots = TRUE, !.kinds = TRUE]
           added == [file EXCEPT !.kinds = TRUE]
<1>1. /\ file \in FileStates /\ created \in FileStates /\ added \in FileStates
      /\ Same(file, file) /\ Same(created, file) /\ Same(added, file)
  BY DEF Inv, TypeOK, FileStates, Same
<1>2. ~InTransaction(p)
  BY DEF CreateSnapshots, CheckColumn, AddColumn, RecheckColumn, At, Inv, Own, Locks, Outside
<1>3. PICK step \in {"check", "alter", "recheck", "migrations table"} : Moved(p, step)
  BY GotoMoves, GivesUpSnapshots
     DEF Inv, Steps, CreateSnapshots, CheckColumn, AddColumn, RecheckColumn
<1>4. Write(p, created) \/ Write(p, added) \/ Read(p) \/ UNCHANGED sqlite
  BY GivesUpSnapshots DEF CreateSnapshots, CheckColumn, AddColumn, RecheckColumn
<1>5. faults' \in 0..MaxFaults /\ UNCHANGED crashes
  <2>1. NoFault \/ Fault
    BY DEF CreateSnapshots, CheckColumn, AddColumn, RecheckColumn, NoFault
  <2> QED
    BY <2>1, FaultTypeOK DEF Inv, CreateSnapshots, CheckColumn, AddColumn, RecheckColumn
<1> HIDE DEF created, added
<1>6. UNCHANGED <<view, writer, readers>> /\ file' \in {file, created, added}
  BY <1>2, <1>4, OutsideStatement
<1>7. Passed(p)' /\ Served(p)'
  BY <1>3 DEF Passed, Served, At, Moved
<1> QED
  BY <1>1, <1>2, <1>3, <1>5, <1>6, <1>7, OutsideStep DEF Outside

\* The table of versions is created, or there already.
LEMMA MigrationsTable == ASSUME Inv, NEW p \in Processes, EnsureMigrationsTable(p) PROVE Inv'
<1> DEFINE created == [file EXCEPT !.versions = TRUE]
<1>1. /\ file \in FileStates /\ created \in FileStates
      /\ Same(file, file) /\ Same(created, file)
  BY DEF Inv, TypeOK, FileStates, Same
<1>2. ~InTransaction(p)
  BY DEF Inv, EnsureMigrationsTable, At, Own, Locks, Outside
<1>3. PICK step \in {"version", "failed"} : Moved(p, step)
  BY GotoMoves DEF Inv, Steps, EnsureMigrationsTable
<1>4. faults' \in 0..MaxFaults /\ UNCHANGED crashes
  BY FaultTypeOK DEF Inv, EnsureMigrationsTable
<1>5. Write(p, created) \/ Read(p) \/ UNCHANGED sqlite
  BY DEF EnsureMigrationsTable
<1> HIDE DEF created
<1>6. UNCHANGED <<view, writer, readers>> /\ file' \in {file, created}
  BY <1>2, <1>5, OutsideStatement
<1>7. Passed(p)' /\ Served(p)'
  BY <1>3 DEF Passed, Served, At, Moved
<1> QED
  BY <1>1, <1>2, <1>3, <1>4, <1>6, <1>7, OutsideStep DEF Outside

\* There are no gaps, so all up to the largest version are applied.
LEMMA ReadsVersion == ASSUME Inv, NEW p \in Processes, CurrentVersion(p) PROVE Inv'
<1>1. ~InTransaction(p)
  BY DEF Inv, CurrentVersion, At, Own, Locks, Outside
<1>2. /\ Same(file', file) /\ file' \in FileStates /\ UNCHANGED <<file, view, writer, readers, crashes>>
      /\ faults' \in 0..MaxFaults
  BY FaultTypeOK DEF CurrentVersion, sqlite, Same, Inv, TypeOK
<1>3. CASE \E version \in file.recorded \cup {0} : GotoNext(p, version + 1)
  <2>1. PICK version \in file.recorded \cup {0} : GotoNext(p, version + 1)
    BY <1>3
  <2>2. version \in 0..Last /\ version + 1 \in 1..(Last + 1) /\ 1..version \subseteq file.recorded
    BY SchemaAssumption DEF Inv, TypeOK, FileStates, Migrations, NoGaps
  <2>3. Moved(p, "next") /\ next'[p] = version + 1
    BY <2>1, <2>2, SchemaAssumption, GotoNextMoves DEF Inv
  <2>4. Passed(p)' /\ Served(p)'
    <3>1. (version + 1) - 1 = version
      BY <2>2
    <3> QED
      BY <1>2, <2>2, <2>3, <3>1 DEF Passed, Served, At, Moved
  <2> QED
    BY <1>1, <1>2, <2>3, <2>4, OutsideStep DEF Outside
<1>4. CASE Goto(p, "failed")
  <2>1. Moved(p, "failed")
    BY <1>4, GotoMoves DEF Inv, Steps
  <2>2. Passed(p)' /\ Served(p)'
    BY <2>1 DEF Passed, Served, At, Moved
  <2> QED
    BY <1>1, <1>2, <2>1, <2>2, OutsideStep DEF Outside
<1> QED
  BY <1>3, <1>4 DEF CurrentVersion

\* What is known of a process that begins a transaction, or goes on to serve.
LEMMA AtNext ==
  ASSUME Inv, NEW p \in Processes, At(p, "next")
  PROVE  /\ ~InTransaction(p) /\ p \notin readers /\ writer # p
         /\ next[p] \in 1..(Last + 1) /\ Version[p] \in 1..Last
         /\ 1..(next[p] - 1) \subseteq file.recorded
<1>1. ~InTransaction(p)
  BY DEF Inv, At, Own, Locks, Outside
<1>2. p # Nobody
  BY SchemaAssumption
<1>3. p \notin readers /\ writer # p
  BY <1>1, <1>2 DEF Inv, TypeOK, WriterLock, InTransaction
<1>4. next[p] \in 1..(Last + 1) /\ 1..(next[p] - 1) \subseteq file.recorded
  BY SchemaAssumption DEF Inv, TypeOK, Own, Passed, At
<1> QED
  BY <1>1, <1>3, <1>4, SchemaAssumption

\* A process on its way out keeps what it has of the locks, and has nothing
\* to answer for.
LEMMA GivesUp ==
  ASSUME Inv, NEW p \in Processes, NEW step \in {"rollback", "failed"}, Goto(p, step),
         UNCHANGED <<sqlite, crashes>>, NoFault \/ Fault
  PROVE  Inv'
<1>1. Moved(p, step) /\ faults' \in 0..MaxFaults
  BY GotoMoves, FaultTypeOK DEF Inv, Steps
<1>2. TypeOK' /\ WriterLock' /\ Same(file', file)
  BY <1>1 DEF Inv, TypeOK, WriterLock, InTransaction, Same, sqlite, Moved, ProcessTypes
<1>3. Own(p)'
  BY <1>1 DEF Own, Locks, Progress, Passed, Served, At, Outside, Moved
<1> QED
  BY <1>1, <1>2, <1>3, Frame DEF sqlite, Moved

\* BEGIN takes no lock: the file may still change.
LEMMA Begins == ASSUME Inv, NEW p \in Processes, Begin(p) PROVE Inv'
<1>1. /\ ~InTransaction(p) /\ p \notin readers /\ writer # p
      /\ next[p] \in 1..(Last + 1) /\ Version[p] \in 1..Last
      /\ 1..(next[p] - 1) \subseteq file.recorded
  BY AtNext DEF Begin
<1>2. CASE /\ next[p] > Version[p]
           /\ Goto(p, "serving") /\ UNCHANGED sqlite /\ NoFault
  <2>1. /\ Moved(p, "serving") /\ UNCHANGED <<file, view, writer, readers, crashes>>
        /\ Same(file', file) /\ file' \in FileStates /\ faults' \in 0..MaxFaults
    BY <1>2, GotoMoves DEF Begin, sqlite, Inv, Steps, Same, TypeOK, NoFault
  <2>2. Passed(p)' /\ Served(p)'
    BY <1>1, <1>2, <2>1 DEF Passed, Served, At, Moved
  <2> QED
    BY <1>1, <2>1, <2>2, OutsideStep DEF Outside
<1>3. CASE /\ next[p] <= Version[p]
           /\ view' = [view EXCEPT ![p] = file]
           /\ Goto(p, "execute") /\ UNCHANGED <<file, writer, readers>> /\ NoFault
  <2>1. /\ Moved(p, "execute") /\ next'[p] = next[p]
        /\ view' = [view EXCEPT ![p] = file]
        /\ UNCHANGED <<file, writer, readers, crashes, faults>>
    BY <1>3, GotoMoves DEF Begin, Inv, Steps, NoFault
  <2>2. TypeOK' /\ WriterLock' /\ Same(file', file) /\ InTransaction(p)'
    BY <1>1, <2>1, SchemaAssumption
       DEF Inv, TypeOK, WriterLock, InTransaction, Same, Moved, ProcessTypes
  <2>3. Own(p)'
    <3>1. Locks(p)' /\ Progress(p)' /\ Served(p)'
      BY <1>1, <2>1, <2>2 DEF Locks, Progress, Served, At, Outside, Moved
    <3>2. next[p] \in Migrations
      BY <1>1, <1>3, SchemaAssumption DEF Migrations
    <3>3. Passed(p)'
      BY <1>1, <2>1, <3>2 DEF Passed, At, Moved
    <3> QED
      BY <3>1, <3>3 DEF Own
  <2>4. \A q \in Processes \ {p} : view'[q] = view[q]
    BY <2>1 DEF Inv, TypeOK
  <2> QED
    BY <2>1, <2>2, <2>3, <2>4, Frame DEF Moved
<1>4. CASE Goto(p, "failed") /\ UNCHANGED sqlite /\ Fault
  BY <1>4, GivesUp DEF Begin
<1> QED
  BY <1>2, <1>3, <1>4 DEF Begin

\* A statement that writes in a transaction touches the locks of no other.
LEMMA TransactionWrites ==
  ASSUME Inv, NEW p \in Processes, InTransaction(p), NEW f \in FileStates, Write(p, f)
  PROVE  /\ view' = [view EXCEPT ![p] = f] /\ view'[p] = f /\ writer' = p /\ UNCHANGED file
         /\ WriterLock' /\ InTransaction(p)'
         /\ \A q \in Processes \ {p} : /\ view'[q] = view[q]
                                       /\ q \in readers' <=> q \in readers
                                       /\ writer' = q <=> writer = q
<1>1. /\ view' = [view EXCEPT ![p] = f] /\ writer' = p /\ readers' = readers \ {p}
      /\ UNCHANGED file /\ writer \in {Nobody, p}
  BY DEF Write, MayWrite
<1>2. view'[p] = f /\ f # Nobody /\ p # Nobody /\ \A q \in Processes : q # Nobody
  BY <1>1, SchemaAssumption DEF Inv, TypeOK
<1>3. \A q \in Processes \ {p} : view'[q] = view[q]
  BY <1>1 DEF Inv, TypeOK
<1> QED
  BY <1>1, <1>2, <1>3 DEF WriterLock, InTransaction

\* A transaction that has not read or written yet sees what is committed.
LEMMA AtExecute ==
  ASSUME Inv, NEW p \in Processes, At(p, "execute")
  PROVE  /\ InTransaction(p) /\ p \notin readers /\ writer # p /\ Current(p) = file
         /\ next[p] \in Migrations /\ 1..(next[p] - 1) \subseteq file.recorded
         /\ file \in FileStates /\ file.effects[next[p]] \in 0..1
         /\ [file EXCEPT !.effects[next[p]] = @ + 1] \in FileStates
<1>1. InTransaction(p) /\ p \notin readers /\ writer # p
  BY DEF Inv, Own, Locks
<1>2. next[p] \in Migrations /\ 1..(next[p] - 1) \subseteq file.recorded
  BY DEF Inv, Own, Passed, At
<1>3. file \in FileStates /\ file.effects[next[p]] \in 0..1
  BY <1>2 DEF Inv, TypeOK, Consistent
<1>4. [file EXCEPT !.effects[next[p]] = @ + 1] \in FileStates
  BY <1>2, <1>3 DEF FileStates
<1> QED
  BY <1>1, <1>2, <1>3, <1>4 DEF Current

\* The migration's statement takes the lock for writing, or fails.
LEMMA Executes == ASSUME Inv, NEW p \in Processes, Execute(p) PROVE Inv'
<1> DEFINE after == [file EXCEPT !.effects[next[p]] = @ + 1]
<1>1. /\ InTransaction(p) /\ p \notin readers /\ writer # p /\ Current(p) = file
      /\ next[p] \in Migrations /\ 1..(next[p] - 1) \subseteq file.recorded
      /\ file \in FileStates /\ after \in FileStates
  BY AtExecute DEF Execute
<1>2. CASE /\ file.effects[next[p]] > 0 /\ NoFault
           /\ view' = [view EXCEPT ![p] = file] /\ readers' = readers \cup {p}
           /\ UNCHANGED <<file, writer>> /\ Goto(p, "record")
  <2>1. Moved(p, "record") /\ next'[p] = next[p]
    BY <1>2, GotoMoves DEF Inv, Steps
  <2>2. view'[p] = file /\ \A q \in Processes \ {p} : view'[q] = view[q]
    BY <1>2 DEF Inv, TypeOK
  <2>3. file # Nobody /\ view' \in [Processes -> FileStates \cup {Nobody}]
    BY <1>1, <1>2, SchemaAssumption DEF Inv, TypeOK
  <2>4. TypeOK' /\ WriterLock' /\ Same(file', file)
    BY <1>1, <1>2, <2>1, <2>2, <2>3
       DEF Execute, NoFault, Inv, TypeOK, WriterLock, InTransaction, Same, Moved, ProcessTypes
  <2>5. at'[p] = "record" /\ p \in readers' /\ Same(view'[p], file') /\ file' = file
    BY <1>2, <2>1, <2>2 DEF Same, Moved
  <2>6. Locks(p)' /\ Passed(p)' /\ Served(p)'
    BY <1>1, <2>1, <2>5 DEF Locks, Passed, Served, At, Outside, Migrations
  <2>7. Progress(p)'
    BY <1>2, <2>1, <2>5 DEF Progress, At
  <2>8. Own(p)'
    BY <2>6, <2>7 DEF Own
  <2> QED
    BY <1>2, <2>1, <2>2, <2>4, <2>8, Frame DEF Moved
<1>3. CASE Write(p, after) /\ Goto(p, "record") /\ NoFault
  <2>1. Moved(p, "record") /\ next'[p] = next[p]
    BY <1>3, GotoMoves DEF Inv, Steps
  <2>2. /\ view'[p] = after /\ writer' = p /\ UNCHANGED file
        /\ WriterLock' /\ InTransaction(p)'
        /\ \A q \in Processes \ {p} : /\ view'[q] = view[q]
                                      /\ q \in readers' <=> q \in readers
                                      /\ writer' = q <=> writer = q
    BY <1>1, <1>3, TransactionWrites
  <2>3. TypeOK' /\ Same(file', file)
    BY <1>1, <1>3, <2>1, <2>2, WriteTypeOK
       DEF Execute, NoFault, Inv, TypeOK, Same, Moved, ProcessTypes
  <2>4. Applied(view'[p], file, next[p])
    BY <1>1, <2>2 DEF Applied, FileStates
  <2>5. Locks(p)' /\ Passed(p)' /\ Served(p)'
    BY <1>1, <2>1, <2>2 DEF Locks, Passed, Served, At, Outside, Moved, Migrations
  <2>6. Progress(p)'
    BY <2>1, <2>2, <2>4 DEF Progress, At, Moved
  <2>7. Own(p)'
    BY <2>5, <2>6 DEF Own
  <2> QED
    BY <2>1, <2>2, <2>3, <2>7, Frame DEF Moved
<1>4. CASE Goto(p, "rollback") /\ UNCHANGED sqlite /\ (NoFault \/ Fault)
  BY <1>4, GivesUp DEF Execute
<1> QED
  BY <1>1, <1>2, <1>3, <1>4 DEF Execute

\* What a process that has applied a migration sees in its transaction: if it
\* only read, its version is there already; if it wrote, it is not, or the
\* primary key refuses it.
LEMMA AtRecord ==
  ASSUME Inv, NEW p \in Processes, At(p, "record"),
         next[p] \notin Current(p).recorded, ~(p \in readers /\ ~MayWrite(p))
  PROVE  /\ InTransaction(p) /\ writer = p /\ Current(p) = view[p]
         /\ view[p] \in FileStates /\ Applied(view[p], file, next[p])
         /\ next[p] \in Migrations /\ 1..(next[p] - 1) \subseteq file.recorded
<1>1. next[p] \in Migrations /\ 1..(next[p] - 1) \subseteq file.recorded
  BY DEF Inv, Own, Passed, At
<1>2. ~(p \in readers /\ Same(view[p], file) /\ file.effects[next[p]] > 0)
  BY <1>1 DEF Inv, Consistent, Current, Same
<1>3. writer = p /\ Applied(view[p], file, next[p])
  BY <1>2 DEF Inv, Own, Progress
<1>4. InTransaction(p) /\ view[p] \in FileStates
  BY <1>3, SchemaAssumption DEF Inv, WriterLock, TypeOK, InTransaction
<1> QED
  BY <1>1, <1>3, <1>4 DEF Current

\* Recording the version makes the transaction's file consistent again.
LEMMA RecordingIsConsistent ==
  ASSUME NEW f \in FileStates, NEW g \in FileStates, NEW v \in Migrations,
         Consistent(f), Applied(g, f, v), v \notin g.recorded
  PROVE  /\ [g EXCEPT !.recorded = @ \cup {v}] \in FileStates
         /\ Consistent([g EXCEPT !.recorded = @ \cup {v}])
         /\ [g EXCEPT !.recorded = @ \cup {v}].recorded = f.recorded \cup {v}
<1> DEFINE h == [g EXCEPT !.recorded = @ \cup {v}]
<1>1. h \in FileStates /\ h.recorded = f.recorded \cup {v} /\ h.effects = g.effects
  BY DEF FileStates, Applied
<1>2. g.effects = [f.effects EXCEPT ![v] = @ + 1] /\ v \notin f.recorded
  BY DEF Applied
<1>3. f.effects \in [Migrations -> 0..2]
  BY DEF FileStates
<1>4. ASSUME NEW u \in Migrations PROVE h.effects[u] = IF u \in h.recorded THEN 1 ELSE 0
  BY <1>1, <1>2, <1>3, <1>4 DEF Consistent
<1> QED
  BY <1>1, <1>4 DEF Consistent

\* The version is recorded if nobody has recorded it before.
LEMMA Records == ASSUME Inv, NEW p \in Processes, Record(p) PROVE Inv'
<1> DEFINE refused == next[p] \in Current(p).recorded \/ (p \in readers /\ ~MayWrite(p))
           after == [Current(p) EXCEPT !.recorded = @ \cup {next[p]}]
<1>1. CASE ~refused /\ Write(p, after) /\ Goto(p, "commit") /\ NoFault
  <2>1. /\ InTransaction(p) /\ writer = p /\ Current(p) = view[p]
        /\ view[p] \in FileStates /\ Applied(view[p], file, next[p])
        /\ next[p] \in Migrations /\ 1..(next[p] - 1) \subseteq file.recorded
    BY <1>1, AtRecord DEF Record
  <2>2. after \in FileStates /\ Consistent(after) /\ after.recorded = file.recorded \cup {next[p]}
    BY <1>1, <2>1, RecordingIsConsistent DEF Inv, TypeOK
  <2>3. Moved(p, "commit") /\ next'[p] = next[p]
    BY <1>1, GotoMoves DEF Inv, Steps
  <2> HIDE DEF after
  <2>4. /\ view'[p] = after /\ writer' = p /\ UNCHANGED file
        /\ WriterLock' /\ InTransaction(p)'
        /\ \A q \in Processes \ {p} : /\ view'[q] = view[q]
                                      /\ q \in readers' <=> q \in readers
                                      /\ writer' = q <=> writer = q
    BY <1>1, <2>1, <2>2, TransactionWrites
  <2>5. TypeOK' /\ Same(file', file)
    BY <1>1, <2>2, <2>3, <2>4, WriteTypeOK
       DEF Record, NoFault, Inv, TypeOK, Same, Moved, ProcessTypes
  <2>6. Locks(p)' /\ Passed(p)' /\ Served(p)'
    BY <2>1, <2>3, <2>4 DEF Locks, Passed, Served, At, Outside, Moved, Migrations
  <2>7. Consistent(view[p])'
    BY <2>2, <2>4 DEF Consistent
  <2>8. Progress(p)'
    BY <2>2, <2>3, <2>4, <2>7 DEF Progress, At, Moved
  <2>9. Own(p)'
    BY <2>6, <2>8 DEF Own
  <2> QED
    BY <2>3, <2>4, <2>5, <2>9, Frame DEF Moved
<1>2. CASE Goto(p, "rollback") /\ UNCHANGED sqlite /\ (NoFault \/ Fault)
  BY <1>2, GivesUp DEF Record
<1> QED
  BY <1>1, <1>2 DEF Record

\* A commit: no other process can be between a read and the end of its
\* transaction, so what the others have seen is not overtaken.
LEMMA CommitOwn ==
  ASSUME Inv, NEW p \in Processes, At(p, "commit"), readers \ {p} = {},
         file' = view[p], view' = [view EXCEPT ![p] = Nobody],
         writer' = Nobody, UNCHANGED <<readers, crashes, faults>>, GotoNext(p, next[p] + 1)
  PROVE  Inv'
<1>1. /\ writer = p /\ Consistent(view[p]) /\ view[p] \in FileStates
      /\ view[p].recorded = file.recorded \cup {next[p]}
      /\ next[p] \in Migrations /\ 1..(next[p] - 1) \subseteq file.recorded
  <2>1. writer = p /\ Consistent(view[p]) /\ view[p].recorded = file.recorded \cup {next[p]}
    BY DEF Inv, Own, Progress
  <2>2. view[p] \in FileStates
    BY <2>1, SchemaAssumption DEF Inv, WriterLock, InTransaction, TypeOK
  <2>3. next[p] \in Migrations /\ 1..(next[p] - 1) \subseteq file.recorded
    BY DEF Inv, Own, Passed, At
  <2> QED
    BY <2>1, <2>2, <2>3
<1>2. readers = {}
  BY <1>1, SchemaAssumption DEF Inv, WriterLock
<1>3. Moved(p, "next") /\ next'[p] = next[p] + 1
  <2>1. next[p] + 1 \in 0..(Last + 1)
    BY <1>1, SchemaAssumption DEF Migrations
  <2> QED
    BY <2>1, GotoNextMoves DEF Inv
<1>4. /\ view' \in [Processes -> FileStates \cup {Nobody}] /\ view'[p] = Nobody
      /\ \A q \in Processes \ {p} : view'[q] = view[q]
  BY DEF Inv, TypeOK
<1>5. 1..next[p] \subseteq file'.recorded /\ file.recorded \subseteq file'.recorded
  <2>1. 1..next[p] \subseteq (1..(next[p] - 1)) \cup {next[p]}
    BY <1>1 DEF Migrations
  <2> QED
    BY <1>1, <2>1
<1>6. Consistent(file)' /\ NoGaps' /\ WriterLock'
  <2>1. NoGaps'
    BY <1>1, <1>5 DEF Inv, NoGaps
  <2> QED
    BY <1>1, <2>1 DEF Consistent, WriterLock
<1>7. ASSUME NEW q \in Processes \ {p} PROVE Own(q)'
  <2>1. at'[q] = at[q] /\ next'[q] = next[q] /\ view'[q] = view[q] /\ writer # q
    BY <1>1, <1>3, <1>4 DEF Moved
  <2>2. ~At(q, "record") /\ ~At(q, "commit")
    BY <1>1, <1>2 DEF Inv, Own, Progress
  <2>3. Locks(q)'
    BY <1>2, <2>1, SchemaAssumption DEF Inv, Own, Locks, At, InTransaction
  <2>4. Progress(q)'
    BY <2>1, <2>2 DEF Progress, At
  <2>5. Passed(q)' /\ Served(q)'
    BY <1>5, <2>1 DEF Inv, Own, Passed, Served, At
  <2> QED
    BY <2>3, <2>4, <2>5 DEF Own
<1>8. Own(p)'
  <2>1. ~InTransaction(p)'
    BY <1>4 DEF InTransaction
  <2>2. Passed(p)'
    BY <1>1, <1>3, <1>5 DEF Passed, Moved, At, Migrations
  <2> QED
    BY <1>3, <2>1, <2>2 DEF Own, Locks, Progress, Served, Moved, At
<1>9. TypeOK'
  BY <1>1, <1>2, <1>3, <1>4 DEF Inv, TypeOK, Moved, ProcessTypes
<1> QED
  BY <1>6, <1>7, <1>8, <1>9 DEF Inv

\* A commit waits for the readers and makes effect and version visible at once.
LEMMA Commits == ASSUME Inv, NEW p \in Processes, Commit(p) PROVE Inv'
<1>1. CASE /\ readers \ {p} = {} /\ file' = view[p] /\ view' = [view EXCEPT ![p] = Nobody]
           /\ writer' = Nobody /\ UNCHANGED readers /\ GotoNext(p, next[p] + 1) /\ NoFault
  BY <1>1, CommitOwn DEF Commit, NoFault
<1>2. CASE Goto(p, "failed") /\ UNCHANGED sqlite /\ Fault
  BY <1>2, GivesUp DEF Commit
<1> QED
  BY <1>1, <1>2 DEF Commit

\* A rollback, or the end of the connection.
LEMMA Releases ==
  ASSUME Inv, NEW p \in Processes, Release(p), NEW step \in {"failed", "down"}, Moved(p, step),
         crashes' \in 0..MaxCrashes, UNCHANGED faults
  PROVE  Inv'
<1>1. /\ view'[p] = Nobody /\ \A q \in Processes \ {p} : view'[q] = view[q]
      /\ \A q \in Processes \ {p} : /\ q \in readers' <=> q \in readers
                                    /\ writer' = q <=> writer = q
  BY SchemaAssumption DEF Release, Inv, TypeOK
<1>2. Same(file', file) /\ file \in FileStates
  BY DEF Release, Same, Inv, TypeOK
<1>3. TypeOK'
  BY <1>2, WriteTypeOK DEF Inv, TypeOK, Moved, ProcessTypes, Release
<1>4. WriterLock'
  BY <1>1 DEF Release, Inv, TypeOK, WriterLock, InTransaction
<1>5. Own(p)'
  BY <1>1 DEF Own, Locks, Progress, Passed, Served, At, InTransaction, Moved
<1> QED
  BY <1>1, <1>2, <1>3, <1>4, <1>5, Frame DEF Moved

\* A rollback leaves the file as it was.
LEMMA Rollbacks == ASSUME Inv, NEW p \in Processes, Rollback(p) PROVE Inv'
<1>1. Moved(p, "failed")
  BY GotoMoves DEF Inv, Steps, Rollback
<1> QED
  BY <1>1, Releases DEF Rollback, Inv, TypeOK

\* A process that ends, or crashes, leaves the file as it was committed.
LEMMA Ends == ASSUME Inv, NEW p \in Processes, Exit(p) \/ Crash(p) PROVE Inv'
<1>1. End(p) /\ crashes' \in 0..MaxCrashes /\ UNCHANGED faults
  BY SchemaAssumption DEF Exit, Crash, Inv, TypeOK
<1>2. Moved(p, "down")
  <2>1. /\ at' = [at EXCEPT ![p] = "down"] /\ next' = [next EXCEPT ![p] = 0]
        /\ snapshotsFailed' = [snapshotsFailed EXCEPT ![p] = FALSE]
    BY <1>1 DEF End
  <2>2. "down" \in Steps /\ 0 \in 0..(Last + 1)
    BY SchemaAssumption DEF Steps
  <2> QED
    BY <2>1, <2>2 DEF Inv, TypeOK, Moved, ProcessTypes
<1> QED
  BY <1>1, <1>2, Releases DEF End

\* A process starts with no lock and no knowledge.
LEMMA Starts == ASSUME Inv, NEW p \in Processes, StartProcess(p) PROVE Inv'
<1>1. ~InTransaction(p)
  BY DEF Inv, StartProcess, At, Own, Locks, Outside
<1>2. Moved(p, "create")
  BY GotoMoves DEF Inv, Steps, StartProcess
<1>3. /\ Same(file', file) /\ file' \in FileStates /\ UNCHANGED <<view, writer, readers, crashes>>
      /\ faults' \in 0..MaxFaults
  BY DEF StartProcess, sqlite, Same, Inv, TypeOK
<1>4. Passed(p)' /\ Served(p)'
  BY <1>2 DEF Passed, Served, At, Moved
<1> QED
  BY <1>1, <1>2, <1>3, <1>4, OutsideStep DEF Outside

-----------------------------------------------------------------------------
(* The theorems. *)

\* The file is new or of the old schema; no process is up.
LEMMA InitInv == Init => Inv
<1> SUFFICES ASSUME Init PROVE Inv
  OBVIOUS
<1>1. TypeOK
  BY SchemaAssumption DEF Init, TypeOK, FileStates, Steps, InTransaction
<1>2. WriterLock /\ Consistent(file) /\ NoGaps
  BY DEF Init, WriterLock, Consistent, NoGaps, Migrations
<1>3. ASSUME NEW p \in Processes PROVE Own(p)
  BY <1>3 DEF Init, Own, Locks, Progress, Passed, Served, At, InTransaction
<1> QED
  BY <1>1, <1>2, <1>3 DEF Inv

\* Every step keeps the invariant.
LEMMA NextInv == Inv /\ [Next]_vars => Inv'
<1> SUFFICES ASSUME Inv, [Next]_vars PROVE Inv'
  OBVIOUS
<1>1. ASSUME NEW p \in Processes, Step(p) PROVE Inv'
  BY <1>1, SnapshotSteps, MigrationsTable, ReadsVersion, Begins, Executes, Records,
     Commits, Rollbacks DEF Step
<1>2. ASSUME NEW p \in Processes, Exit(p) \/ Crash(p) \/ StartProcess(p) PROVE Inv'
  BY <1>2, Ends, Starts
<1>3. CASE UNCHANGED vars
  <2>1. UNCHANGED <<file, view, writer, readers, at, next, snapshotsFailed, crashes, faults>>
    BY <1>3 DEF vars, sqlite, process
  <2>2. TypeOK' /\ WriterLock' /\ Consistent(file)' /\ NoGaps'
    BY <2>1 DEF Inv, TypeOK, WriterLock, Consistent, NoGaps, InTransaction
  <2>3. ASSUME NEW p \in Processes PROVE Own(p)'
    <3>1. Own(p)
      BY DEF Inv
    <3> QED
      BY <2>1, <3>1 DEF Own, Locks, Progress, Passed, Served, At, InTransaction, Same, Applied,
                        Consistent
  <2> QED
    BY <2>2, <2>3 DEF Inv
<1> QED
  BY <1>1, <1>2, <1>3 DEF Next

\* The invariant holds in every behaviour.
LEMMA InvHolds == Spec => []Inv
  BY InitInv, NextInv, PTL DEF Spec

\* Type correctness, the locks of SQLite included.
THEOREM TypeCorrect == Spec => []TypeOK
<1>1. Inv => TypeOK
  BY DEF Inv
<1> QED
  BY <1>1, InvHolds, PTL

\* Whoever dies, fails or races, the effect of a migration is in the file
\* exactly once when its version is recorded, and not at all before
\* (Migrator::Apply).
THEOREM MigratedExactlyOnce == Spec => []AppliedExactlyOnce
<1>1. Inv => AppliedExactlyOnce
  BY DEF Inv, AppliedExactlyOnce, Consistent
<1> QED
  BY <1>1, InvHolds, PTL

\* The largest recorded version, which is all CurrentVersion() asks for, says
\* which migrations are missing.
THEOREM VersionsHaveNoGaps == Spec => []NoGaps
<1>1. Inv => NoGaps
  BY DEF Inv
<1> QED
  BY <1>1, InvHolds, PTL

\* A process never serves with a schema older than the one it was built with
\* (main() ends when Apply fails).
THEOREM ServesOnlyMigrated == Spec => []ServesMigrated
<1>1. Inv => ServesMigrated
  BY DEF Inv, Own, Served, ServesMigrated
<1> QED
  BY <1>1, InvHolds, PTL

-----------------------------------------------------------------------------
(* The race to add the column.                                             *)

AfterColumn == {"recheck", "migrations table", "version", "next", "execute", "record", "commit",
                "rollback", "failed", "serving"}

\* A transaction that writes has the column as it is in the file; where no
\* statement failed, a process that looks again, or goes on, finds it there.
WriterSeesColumn == writer # Nobody => view[writer].kinds = file.kinds
ColumnThere ==
  faults = 0 => \A p \in Processes : ~snapshotsFailed[p] /\ (at[p] \in AfterColumn => file.kinds)

\* Only a commit writes the column back, from a transaction that has seen it.
LEMMA ColumnStays ==
  ASSUME Inv, WriterSeesColumn, NEW p \in Processes,
         Step(p) \/ Exit(p) \/ Crash(p) \/ StartProcess(p)
  PROVE  WriterSeesColumn' /\ (file.kinds => file'.kinds)
<1> DEFINE Goal == WriterSeesColumn' /\ (file.kinds => file'.kinds)
<1>t. /\ p # Nobody /\ file \in FileStates /\ view \in [Processes -> FileStates \cup {Nobody}]
      /\ writer \in Processes \cup {Nobody} /\ (writer # Nobody => InTransaction(writer))
      /\ \A q \in Processes : q # Nobody
  BY SchemaAssumption DEF Inv, TypeOK
<1>1. ASSUME UNCHANGED <<file, view, writer>> PROVE Goal
  BY <1>1 DEF WriterSeesColumn
<1>2. ASSUME ~InTransaction(p), NEW f \in FileStates, file.kinds => f.kinds, Write(p, f) PROVE Goal
  <2>1. writer = Nobody
    BY <1>t, <1>2 DEF Write, MayWrite
  <2>2. file' = f /\ writer' = writer
    BY <1>2 DEF Write
  <2>3. QED
    BY <1>2, <2>1, <2>2 DEF WriterSeesColumn
<1>3. ASSUME Read(p) \/ UNCHANGED sqlite PROVE Goal
  BY <1>1, <1>3 DEF Read, sqlite
<1>4. ASSUME Release(p) PROVE Goal
  BY <1>t, <1>4 DEF Release, WriterSeesColumn
<1>5. CASE CreateSnapshots(p) \/ CheckColumn(p) \/ AddColumn(p) \/ RecheckColumn(p)
           \/ EnsureMigrationsTable(p)
  <2>1. ~InTransaction(p)
    BY <1>5 DEF CreateSnapshots, CheckColumn, AddColumn, RecheckColumn, EnsureMigrationsTable, At,
                Inv, Own, Locks, Outside
  <2>2. /\ [file EXCEPT !.snapshots = TRUE, !.kinds = TRUE] \in FileStates
        /\ [file EXCEPT !.snapshots = TRUE, !.kinds = TRUE].kinds
        /\ [file EXCEPT !.kinds = TRUE] \in FileStates /\ [file EXCEPT !.kinds = TRUE].kinds
        /\ [file EXCEPT !.versions = TRUE] \in FileStates
        /\ [file EXCEPT !.versions = TRUE].kinds = file.kinds
    BY <1>t DEF FileStates
  <2>3. CASE CreateSnapshots(p)
    BY <1>2, <1>3, <2>1, <2>2, <2>3 DEF CreateSnapshots, GiveUpSnapshots
  <2>4. CASE CheckColumn(p) \/ RecheckColumn(p)
    BY <1>3, <2>4 DEF CheckColumn, RecheckColumn, GiveUpSnapshots
  <2>5. CASE AddColumn(p)
    BY <1>2, <1>3, <2>1, <2>2, <2>5 DEF AddColumn
  <2>6. CASE EnsureMigrationsTable(p)
    BY <1>2, <1>3, <2>1, <2>2, <2>6 DEF EnsureMigrationsTable
  <2>7. QED
    BY <1>5, <2>3, <2>4, <2>5, <2>6
<1>6. CASE CurrentVersion(p)
  BY <1>3, <1>6 DEF CurrentVersion
<1>7. CASE Begin(p)
  <2>1. writer # p
    BY <1>7, AtNext DEF Begin
  <2>2. CASE view' = [view EXCEPT ![p] = file] /\ UNCHANGED <<file, writer, readers>>
    BY <1>t, <2>1, <2>2 DEF WriterSeesColumn
  <2>3. QED
    BY <1>3, <1>7, <2>2 DEF Begin
<1>8. CASE Execute(p)
  <2>1. InTransaction(p) /\ writer # p /\ Current(p) = file /\ next[p] \in Migrations
        /\ [file EXCEPT !.effects[next[p]] = @ + 1] \in FileStates
    BY <1>8, AtExecute DEF Execute
  <2>2. CASE view' = [view EXCEPT ![p] = file] /\ UNCHANGED <<file, writer>>
    BY <1>t, <2>1, <2>2 DEF WriterSeesColumn
  <2>3. CASE Write(p, [file EXCEPT !.effects[next[p]] = @ + 1])
    <3>1. /\ view'[p] = [file EXCEPT !.effects[next[p]] = @ + 1] /\ writer' = p /\ UNCHANGED file
      BY <2>1, <2>3, TransactionWrites
    <3>2. [file EXCEPT !.effects[next[p]] = @ + 1].kinds = file.kinds
      BY <1>t DEF FileStates
    <3>3. QED
      BY <3>1, <3>2 DEF WriterSeesColumn
  <2>4. QED
    BY <1>3, <1>8, <2>1, <2>2, <2>3 DEF Execute
<1>9. CASE Record(p)
  <2> DEFINE after == [Current(p) EXCEPT !.recorded = @ \cup {next[p]}]
  <2>1. CASE /\ next[p] \notin Current(p).recorded /\ ~(p \in readers /\ ~MayWrite(p))
             /\ Write(p, after)
    <3>1. /\ InTransaction(p) /\ writer = p /\ Current(p) = view[p] /\ view[p] \in FileStates
          /\ next[p] \in Migrations
      BY <1>9, <2>1, AtRecord DEF Record
    <3>2. after \in FileStates /\ after.kinds = view[p].kinds
      BY <3>1 DEF FileStates
    <3> HIDE DEF after
    <3>3. view'[p] = after /\ writer' = p /\ UNCHANGED file
      BY <2>1, <3>1, <3>2, TransactionWrites
    <3>4. QED
      BY <1>t, <3>1, <3>2, <3>3 DEF WriterSeesColumn
  <2>2. QED
    BY <1>3, <1>9, <2>1 DEF Record
<1>10. CASE Commit(p)
  <2>1. writer = p
    BY <1>10 DEF Commit, Inv, Own, Progress
  <2>2. CASE file' = view[p] /\ writer' = Nobody
    BY <1>t, <2>1, <2>2 DEF WriterSeesColumn
  <2>3. QED
    BY <1>3, <1>10, <2>2 DEF Commit
<1>11. CASE Rollback(p) \/ Exit(p) \/ Crash(p)
  BY <1>4, <1>11 DEF Rollback, Exit, Crash, End
<1>12. CASE StartProcess(p)
  BY <1>3, <1>12 DEF StartProcess
<1>13. QED
  BY <1>5, <1>6, <1>7, <1>8, <1>9, <1>10, <1>11, <1>12 DEF Step

\* Where the step of one process leaves it, and what it has found out.
LEMMA ColumnFound ==
  ASSUME Inv, ColumnThere, NEW p \in Processes,
         Step(p) \/ Exit(p) \/ Crash(p) \/ StartProcess(p), faults' = 0,
         file.kinds => file'.kinds
  PROVE  /\ faults = 0 /\ ~snapshotsFailed'[p] /\ (at'[p] \in AfterColumn => file'.kinds)
         /\ \A q \in Processes \ {p} : at'[q] = at[q] /\ snapshotsFailed'[q] = snapshotsFailed[q]
<1>t. /\ at \in [Processes -> Steps] /\ snapshotsFailed \in [Processes -> BOOLEAN] /\ faults \in Nat
      /\ file \in FileStates
  BY SchemaAssumption DEF Inv, TypeOK
<1>1. faults = 0 /\ ~Fault
  <2>1. NoFault \/ Fault
    BY DEF Step, Exit, Crash, StartProcess, CreateSnapshots, CheckColumn, AddColumn, RecheckColumn,
       EnsureMigrationsTable, CurrentVersion, Begin, Execute, Record, Commit, Rollback, NoFault
  <2>2. QED
    BY <1>t, <2>1 DEF NoFault, Fault
<1>2. ~snapshotsFailed[p] /\ (at[p] \in AfterColumn => file'.kinds)
  BY <1>1 DEF ColumnThere
<1> DEFINE Goal ==
      /\ ~snapshotsFailed'[p] /\ (at'[p] \in AfterColumn => file'.kinds)
      /\ \A q \in Processes \ {p} : at'[q] = at[q] /\ snapshotsFailed'[q] = snapshotsFailed[q]
<1> SUFFICES Goal
  BY <1>1
<1>3. ASSUME NEW step, Goto(p, step), step \in AfterColumn => file'.kinds PROVE Goal
  BY <1>t, <1>2, <1>3 DEF Goto
<1>4. CASE CreateSnapshots(p)
  BY <1>1, <1>3, <1>4 DEF CreateSnapshots, AfterColumn
<1>5. CASE CheckColumn(p)
  BY <1>1, <1>3, <1>5 DEF CheckColumn, AfterColumn
<1>6. CASE AddColumn(p)
  <2>1. CASE Write(p, [file EXCEPT !.kinds = TRUE]) /\ Goto(p, "migrations table")
    <3>1. ~InTransaction(p)
      BY <1>6 DEF AddColumn, At, Inv, Own, Locks, Outside
    <3>2. file'.kinds
      BY <1>t, <2>1, <3>1 DEF Write, FileStates
    <3>3. QED
      BY <1>3, <2>1, <3>2
  <2>2. CASE file.kinds /\ Goto(p, "recheck")
    BY <1>3, <2>2
  <2>3. QED
    BY <1>1, <1>6, <2>1, <2>2 DEF AddColumn
<1>7. CASE RecheckColumn(p)
  <2>1. file.kinds
    BY <1>1, <1>7 DEF RecheckColumn, At, ColumnThere, AfterColumn
  <2>2. Goto(p, "migrations table")
    BY <1>1, <1>7, <2>1 DEF RecheckColumn
  <2>3. QED
    BY <1>3, <2>1, <2>2
<1>8. CASE EnsureMigrationsTable(p) \/ Begin(p) \/ Execute(p) \/ Record(p) \/ Rollback(p)
  <2>1. file'.kinds
    BY <1>2, <1>8 DEF EnsureMigrationsTable, Begin, Execute, Record, Rollback, At, AfterColumn
  <2>2. \E step \in Steps : Goto(p, step)
    BY <1>8 DEF EnsureMigrationsTable, Begin, Execute, Record, Rollback, Steps
  <2>3. QED
    BY <1>3, <2>1, <2>2
<1>9. CASE CurrentVersion(p) \/ Commit(p)
  <2>1. file'.kinds
    BY <1>2, <1>9 DEF CurrentVersion, Commit, At, AfterColumn
  <2>2. (\E v : GotoNext(p, v)) \/ Goto(p, "failed")
    BY <1>9 DEF CurrentVersion, Commit
  <2>3. ASSUME NEW v, GotoNext(p, v) PROVE Goal
    BY <1>t, <1>2, <2>1, <2>3 DEF GotoNext
  <2>4. QED
    BY <1>3, <2>1, <2>2, <2>3
<1>10. CASE Exit(p) \/ Crash(p)
  BY <1>t, <1>10 DEF Exit, Crash, End, AfterColumn
<1>11. CASE StartProcess(p)
  BY <1>3, <1>11 DEF StartProcess, AfterColumn
<1>12. QED
  BY <1>1, <1>4, <1>5, <1>6, <1>7, <1>8, <1>9, <1>10, <1>11 DEF Step

\* The column is never taken away, and whoever was refused finds it.
LEMMA ColumnNext ==
  ASSUME Inv, WriterSeesColumn, ColumnThere, [Next]_vars
  PROVE  WriterSeesColumn' /\ ColumnThere'
<1>1. ASSUME NEW p \in Processes, Step(p) \/ Exit(p) \/ Crash(p) \/ StartProcess(p)
      PROVE  WriterSeesColumn' /\ ColumnThere'
  <2>1. WriterSeesColumn' /\ (file.kinds => file'.kinds)
    BY <1>1, ColumnStays
  <2>2. ASSUME faults' = 0, NEW q \in Processes
        PROVE  ~snapshotsFailed'[q] /\ (at'[q] \in AfterColumn => file'.kinds)
    <3>1. /\ faults = 0 /\ ~snapshotsFailed'[p] /\ (at'[p] \in AfterColumn => file'.kinds)
          /\ \A r \in Processes \ {p} : at'[r] = at[r] /\ snapshotsFailed'[r] = snapshotsFailed[r]
      BY <1>1, <2>1, <2>2, ColumnFound
    <3>2. QED
      BY <2>1, <3>1 DEF ColumnThere
  <2>3. QED
    BY <2>1, <2>2 DEF ColumnThere
<1>2. CASE UNCHANGED vars
  BY <1>2 DEF vars, sqlite, process, WriterSeesColumn, ColumnThere
<1>3. QED
  BY <1>1, <1>2 DEF Next

\* Processes that find the column missing at the same time all come through
\* EnsureSchema, and none serves without it.
THEOREM ColumnRaceEndsWell == Spec => []ColumnRaceIsBenign
<1>1. Init => WriterSeesColumn /\ ColumnThere
  BY DEF Init, WriterSeesColumn, ColumnThere, AfterColumn
<1>2. ColumnThere => ColumnRaceIsBenign
  BY DEF ColumnThere, ColumnRaceIsBenign, At, AfterColumn
<1>3. QED
  BY <1>1, <1>2, ColumnNext, InvHolds, PTL DEF Spec

-----------------------------------------------------------------------------
(* The watcher. *)

\* The watch was armed before the baseline was taken.
ArmedFirst ==
  /\ armed = "never" => baselinePending
  /\ watcher.at = "start" => armed = "never"
  /\ armed = "never" => watcher.at \notin {"wait", "debounce"}
  /\ watcher.at \in {"scanning", "publishing", "updated"} /\ watcher.then = "wait" => armed # "never"
  /\ watcher.at \in {"publishing", "updated"} => baseline

\* With a watch and no notification, nothing was written since the scan
\* under way began, or since the last one.
NothingUnnoticed ==
  armed # "never" /\ ~pending =>
    /\ watcher.at = "scanning" => watcher.seen = disk
    /\ watcher.at \in {"loop", "wait", "publishing", "updated"} => known = disk

WatchInv == FilesTypeOK /\ ArmedFirst /\ NothingUnnoticed

\* What the type says of the states of the thread.
LEMMA WatcherShapes ==
  ASSUME FilesTypeOK
  PROVE  /\ watcher.at = "scanning" =>
              watcher = [at |-> "scanning", seen |-> watcher.seen, then |-> watcher.then]
                /\ watcher.seen \in [Files -> State] /\ watcher.then \in {"loop", "wait"}
         /\ watcher.at \in {"publishing", "updated"} =>
              watcher = [at |-> watcher.at, changes |-> watcher.changes, then |-> watcher.then]
                /\ watcher.changes \in SUBSET Files /\ watcher.then \in {"loop", "wait"}
<1>1. \/ watcher \in [at : {"start", "loop", "wait", "debounce", "stopped"}]
      \/ watcher \in [at : {"scanning"}, seen : [Files -> State], then : {"loop", "wait"}]
      \/ watcher \in [at : {"publishing", "updated"}, changes : SUBSET Files, then : {"loop", "wait"}]
  BY DEF FilesTypeOK, WatcherStates
<1> QED
  BY <1>1

\* What is published, or what follows if nothing is.
LEMMA PublishingShapes ==
  ASSUME NEW changes \in SUBSET Files, NEW then \in {"loop", "wait"}
  PROVE  /\ Publishing(changes, then) \in WatcherStates
         /\ changes = {} => Publishing(changes, then) = [at |-> then]
         /\ changes # {} =>
              Publishing(changes, then) = [at |-> "publishing", changes |-> changes, then |-> then]
  BY DEF Publishing, WatcherStates

\* The invariant holds initially.
LEMMA WatchInit == InitFiles => WatchInv
<1> SUFFICES ASSUME InitFiles PROVE WatchInv
  OBVIOUS
<1>1. FilesTypeOK
  <2>1. disk \in [Files -> State] /\ index \in [Files -> State]
    BY DEF InitFiles
  <2>2. past \in [Files -> SUBSET State]
    BY <2>1 DEF InitFiles
  <2>3. edits \in 0..MaxEdits
    BY MaxEditsIsNatural DEF InitFiles
  <2>4. known \in [Files -> State]
    BY DEF InitFiles, State
  <2>5. watcher \in WatcherStates
    BY DEF InitFiles, WatcherStates
  <2> QED
    BY <2>1, <2>2, <2>3, <2>4, <2>5 DEF FilesTypeOK, InitFiles
<1>2. ArmedFirst
  BY DEF InitFiles, ArmedFirst
<1>3. NothingUnnoticed
  BY DEF InitFiles, NothingUnnoticed
<1> QED
  BY <1>1, <1>2, <1>3 DEF WatchInv

\* A result of a scan gives each file a content; if the disk was not written
\* since the scan began, it is what is on disk.
LEMMA ScanSees ==
  ASSUME NEW seen \in [Files -> State], disk \in [Files -> State], NEW scan \in ScanResults(seen)
  PROVE  scan \in [Files -> State] /\ (seen = disk => scan = disk)
<1>1. scan \in [Files -> State] /\ \A f \in Files : scan[f] \in {seen[f], disk[f]}
  BY DEF ScanResults
<1> QED
  BY <1>1

\* Every step keeps the types.
LEMMA FilesTypeStep == FilesTypeOK /\ [NextFiles]_fileVars => FilesTypeOK'
<1> SUFFICES ASSUME FilesTypeOK, [NextFiles]_fileVars PROVE FilesTypeOK'
  OBVIOUS
<1> USE DEF FilesTypeOK
<1>1. ASSUME NEW f \in Files, NEW c \in State, Edit(f, c) PROVE FilesTypeOK'
  <2>1. edits' \in 0..MaxEdits
    BY <1>1, MaxEditsIsNatural DEF Edit
  <2>2. past' \in [Files -> SUBSET State] /\ disk' \in [Files -> State]
    BY <1>1 DEF Edit
  <2> QED
    BY <1>1, <2>1, <2>2 DEF Edit
<1>2. CASE Start
  BY <1>2 DEF Start, WatcherStates, diskVars
<1>3. CASE Arm
  BY <1>3 DEF Arm, Scanning, WatcherStates, diskVars
<1>4. CASE PollOnTimer
  BY <1>4 DEF PollOnTimer, Scanning, WatcherStates, diskVars
<1>5. CASE Reap
  BY <1>5 DEF Reap, WatcherStates, diskVars
<1>6. CASE Rescan
  BY <1>6 DEF Rescan, Scanning, WatcherStates, diskVars
<1>7. CASE TakeBaseline
  <2>1. PICK scan \in ScanResults(watcher.seen) : known' = scan /\ missed' = {f \in Files : scan[f] # index[f]}
    BY <1>7 DEF TakeBaseline
  <2>2. scan \in [Files -> State] /\ watcher.then \in {"loop", "wait"}
    BY <1>7, <2>1, WatcherShapes, ScanSees DEF TakeBaseline
  <2> QED
    BY <1>7, <2>1, <2>2 DEF TakeBaseline, WatcherStates, diskVars
<1>8. CASE Compare
  <2>1. PICK scan \in ScanResults(watcher.seen) :
          /\ known' = scan
          /\ watcher' = Publishing({f \in Files : scan[f] # known[f]}, watcher.then)
    BY <1>8 DEF Compare
  <2>2. scan \in [Files -> State] /\ watcher.then \in {"loop", "wait"}
    BY <1>8, <2>1, WatcherShapes, ScanSees DEF Compare
  <2>3. watcher' \in WatcherStates
    BY <2>1, <2>2, PublishingShapes
  <2> QED
    BY <1>8, <2>1, <2>2, <2>3 DEF Compare, diskVars
<1>9. ASSUME NEW f \in Files, UpdateIndexes(f) PROVE FilesTypeOK'
  <2>1. watcher = [at |-> watcher.at, changes |-> watcher.changes, then |-> watcher.then]
          /\ watcher.changes \in SUBSET Files /\ watcher.then \in {"loop", "wait"}
    BY <1>9, WatcherShapes DEF UpdateIndexes
  <2>2. watcher' = [at |-> "updated", changes |-> watcher.changes \ {f}, then |-> watcher.then]
    BY <1>9, <2>1 DEF UpdateIndexes
  <2>3. watcher' \in WatcherStates
    BY <2>1, <2>2 DEF WatcherStates
  <2>4. index' \in [Files -> State] /\ missed' \in SUBSET Files
    BY <1>9 DEF UpdateIndexes, State
  <2> QED
    BY <1>9, <2>3, <2>4 DEF UpdateIndexes, diskVars
<1>10. CASE EventHandled
  <2>1. watcher' \in WatcherStates
    BY <1>10, WatcherShapes, PublishingShapes DEF EventHandled
  <2> QED
    BY <1>10, <2>1 DEF EventHandled, diskVars
<1>11. CASE Stop
  BY <1>11 DEF Stop, WatcherStates, diskVars
<1>12. CASE UNCHANGED fileVars
  BY <1>12 DEF fileVars, diskVars, watchVars
<1> QED
  BY <1>1, <1>2, <1>3, <1>4, <1>5, <1>6, <1>7, <1>8, <1>9, <1>10, <1>11, <1>12
     DEF NextFiles, WatcherProceeds, SomebodyEdits

\* Every step leaves a notification behind for what it did not see.
LEMMA WatchStep == WatchInv /\ [NextFiles]_fileVars => WatchInv'
<1> SUFFICES ASSUME WatchInv, [NextFiles]_fileVars PROVE WatchInv'
  OBVIOUS
<1> USE DEF WatchInv
<1>0. FilesTypeOK'
  BY FilesTypeStep
<1>1. ASSUME NEW f \in Files, NEW c \in State, Edit(f, c) PROVE ArmedFirst' /\ NothingUnnoticed'
  BY <1>1 DEF Edit, ArmedFirst, NothingUnnoticed
<1>2. CASE Start
  BY <1>0, <1>2 DEF Start, ArmedFirst, NothingUnnoticed, diskVars
<1>3. CASE Arm
  BY <1>0, <1>3 DEF Arm, Scanning, ArmedFirst, NothingUnnoticed, diskVars
<1>4. CASE PollOnTimer
  BY <1>0, <1>4 DEF PollOnTimer, Scanning, ArmedFirst, NothingUnnoticed, diskVars
<1>5. CASE Reap
  BY <1>0, <1>5 DEF Reap, ArmedFirst, NothingUnnoticed, diskVars
<1>6. CASE Rescan
  BY <1>0, <1>6 DEF Rescan, Scanning, ArmedFirst, NothingUnnoticed, diskVars
<1>7. CASE TakeBaseline
  <2>1. PICK scan \in ScanResults(watcher.seen) : known' = scan
    BY <1>7 DEF TakeBaseline
  <2>2. watcher.seen = disk => known' = disk
    BY <1>7, <2>1, WatcherShapes, ScanSees DEF TakeBaseline, FilesTypeOK
  <2>3. watcher' = [at |-> watcher.then] /\ watcher.then \in {"loop", "wait"}
    BY <1>7, WatcherShapes DEF TakeBaseline
  <2> QED
    BY <1>0, <1>7, <2>2, <2>3 DEF TakeBaseline, ArmedFirst, NothingUnnoticed, diskVars
<1>8. CASE Compare
  <2>1. PICK scan \in ScanResults(watcher.seen) :
          /\ known' = scan
          /\ watcher' = Publishing({f \in Files : scan[f] # known[f]}, watcher.then)
    BY <1>8 DEF Compare
  <2>2. watcher.seen = disk => known' = disk
    BY <1>8, <2>1, WatcherShapes, ScanSees DEF Compare, FilesTypeOK
  <2>3. /\ watcher.then \in {"loop", "wait"}
        /\ watcher'.at \in {"loop", "wait", "publishing"}
        /\ watcher'.at \in {"loop", "wait"} => watcher'.at = watcher.then
        /\ watcher'.at = "publishing" => watcher'.then = watcher.then
    BY <1>8, <2>1, WatcherShapes, PublishingShapes DEF Compare
  <2> QED
    BY <1>0, <1>8, <2>2, <2>3 DEF Compare, ArmedFirst, NothingUnnoticed, diskVars
<1>9. ASSUME NEW f \in Files, UpdateIndexes(f) PROVE ArmedFirst' /\ NothingUnnoticed'
  <2>1. watcher'.at = "updated" /\ watcher'.then = watcher.then
    BY <1>9, WatcherShapes DEF UpdateIndexes
  <2> QED
    BY <1>0, <1>9, <2>1 DEF UpdateIndexes, ArmedFirst, NothingUnnoticed, diskVars
<1>10. CASE EventHandled
  <2>1. /\ watcher.then \in {"loop", "wait"}
        /\ watcher'.at \in {"loop", "wait", "publishing"}
        /\ watcher'.at \in {"loop", "wait"} => watcher'.at = watcher.then
        /\ watcher'.at = "publishing" => watcher'.then = watcher.then
    BY <1>10, WatcherShapes, PublishingShapes DEF EventHandled
  <2> QED
    BY <1>0, <1>10, <2>1 DEF EventHandled, ArmedFirst, NothingUnnoticed, diskVars
<1>11. CASE Stop
  BY <1>0, <1>11 DEF Stop, ArmedFirst, NothingUnnoticed, diskVars
<1>12. CASE UNCHANGED fileVars
  BY <1>0, <1>12 DEF fileVars, diskVars, watchVars, ArmedFirst, NothingUnnoticed
<1> QED
  BY <1>0, <1>1, <1>2, <1>3, <1>4, <1>5, <1>6, <1>7, <1>8, <1>9, <1>10, <1>11, <1>12
     DEF NextFiles, WatcherProceeds, SomebodyEdits

\* The watcher never sleeps on a change: with no notification on its way
\* (the loop of FileWatcher::Start), its last scan is what is on disk.
THEOREM MissesNoChange == FilesSpec => []NoMissedChange
<1>1. WatchInv => NoMissedChange
  BY DEF WatchInv, ArmedFirst, NothingUnnoticed, NoMissedChange, Quiet
<1> QED
  BY <1>1, WatchInit, WatchStep, PTL DEF FilesSpec

-----------------------------------------------------------------------------
\* The baseline is taken before the watcher sleeps.
BaselineFirst ==
  /\ baselinePending => armed = "never"
  /\ ~baselinePending /\ watcher.at # "scanning" => baseline

\* What was compared, or is being compared, is what the files once held.
SeenBefore ==
  \A f \in Files :
    /\ disk[f] \in past[f]
    /\ baseline => known[f] \in past[f]
    /\ watcher.at = "scanning" => watcher.seen[f] \in past[f]

Announced(f) == watcher.at \in {"publishing", "updated"} /\ f \in watcher.changes

\* An index that is behind is so for a file whose change will be noticed, or
\* is about to be published.
BehindForAReason ==
  baseline => \A f \in Files \ missed : index[f] = disk[f] \/ known[f] # disk[f] \/ Announced(f)

FollowInv == BaselineFirst /\ SeenBefore /\ BehindForAReason

\* The invariant holds initially.
LEMMA FollowInit == InitFiles => FollowInv
<1> SUFFICES ASSUME InitFiles PROVE FollowInv
  OBVIOUS
<1>1. BaselineFirst
  BY DEF InitFiles, BaselineFirst
<1>2. SeenBefore
  BY DEF InitFiles, SeenBefore
<1>3. BehindForAReason
  BY DEF InitFiles, BehindForAReason
<1> QED
  BY <1>1, <1>2, <1>3 DEF FollowInv

\* A result of a scan holds, for each file, something it once held.
LEMMA ScanSeenBefore ==
  ASSUME SeenBefore, watcher.at = "scanning", NEW scan \in ScanResults(watcher.seen)
  PROVE  \A f \in Files : scan[f] \in past[f]
BY DEF SeenBefore, ScanResults

\* An edit that does not bring an old content back is seen by the next
\* comparison.
LEMMA FollowEdit ==
  ASSUME ~Reverts, FilesTypeOK, FollowInv, NEW f \in Files, NEW c \in State, Edit(f, c)
  PROVE  FollowInv'
<1>1. BaselineFirst'
  BY DEF FollowInv, BaselineFirst, Edit
<1>2. /\ disk' = [disk EXCEPT ![f] = c] /\ past' = [past EXCEPT ![f] = @ \cup {c}] /\ c \notin past[f]
      /\ disk \in [Files -> State] /\ past \in [Files -> SUBSET State]
      /\ UNCHANGED <<known, baseline, watcher, index, missed>>
  BY DEF Edit, FilesTypeOK
<1>3. SeenBefore'
  BY <1>2 DEF FollowInv, SeenBefore
<1>4. ASSUME baseline, NEW g \in Files \ missed
      PROVE  index[g] = disk'[g] \/ known[g] # disk'[g] \/ Announced(g)
  <2>1. CASE g = f
    BY <1>2, <1>4, <2>1 DEF FollowInv, SeenBefore
  <2>2. CASE g # f
    BY <1>2, <1>4, <2>2 DEF FollowInv, BehindForAReason
  <2> QED
    BY <2>1, <2>2
<1>5. BehindForAReason'
  BY <1>2, <1>4 DEF BehindForAReason, Announced
<1> QED
  BY <1>1, <1>3, <1>5 DEF FollowInv

\* The baseline leaves the indexes behind only for files it declares missed.
LEMMA FollowBaseline ==
  ASSUME FilesTypeOK, FollowInv, TakeBaseline
  PROVE  FollowInv'
<1>1. PICK scan \in ScanResults(watcher.seen) :
        known' = scan /\ missed' = {f \in Files : scan[f] # index[f]}
  BY DEF TakeBaseline
<1>2. /\ \A f \in Files : scan[f] \in past[f]
      /\ watcher' = [at |-> watcher.then] /\ watcher.then \in {"loop", "wait"}
      /\ baseline' = TRUE /\ UNCHANGED <<disk, past, index, armed, baselinePending>>
  BY <1>1, ScanSeenBefore, WatcherShapes DEF TakeBaseline, FollowInv, diskVars
<1>3. BaselineFirst' /\ SeenBefore'
  BY <1>1, <1>2 DEF FollowInv, BaselineFirst, SeenBefore
<1>4. BehindForAReason'
  BY <1>1, <1>2 DEF BehindForAReason
<1> QED
  BY <1>3, <1>4 DEF FollowInv

\* A file that differs from the last scan is published; one that does not
\* differs from the disk as much as it did.
LEMMA FollowCompare ==
  ASSUME FilesTypeOK, FollowInv, Compare
  PROVE  FollowInv'
<1> DEFINE changes(scan) == {f \in Files : scan[f] # known[f]}
<1>1. PICK scan \in ScanResults(watcher.seen) :
        known' = scan /\ watcher' = Publishing(changes(scan), watcher.then)
  BY DEF Compare
<1>2. /\ \A f \in Files : scan[f] \in past[f]
      /\ watcher.at = "scanning" /\ watcher.then \in {"loop", "wait"}
      /\ baseline /\ baseline' = baseline
      /\ UNCHANGED <<disk, past, index, missed, armed, baselinePending>>
  BY <1>1, ScanSeenBefore, WatcherShapes DEF Compare, FollowInv, diskVars
<1>3. /\ changes(scan) = {} => watcher' = [at |-> watcher.then]
      /\ changes(scan) # {} =>
           watcher' = [at |-> "publishing", changes |-> changes(scan), then |-> watcher.then]
  BY <1>1, <1>2, PublishingShapes
<1>4. BaselineFirst' /\ SeenBefore'
  <2>1. watcher'.at \in {"loop", "wait", "publishing"}
    BY <1>2, <1>3
  <2> QED
    BY <1>1, <1>2, <2>1 DEF FollowInv, BaselineFirst, SeenBefore
<1>5. ASSUME NEW f \in Files \ missed
      PROVE  index[f] = disk[f] \/ scan[f] # disk[f] \/ Announced(f)'
  <2>1. CASE f \in changes(scan)
    BY <1>3, <2>1 DEF Announced
  <2>2. CASE scan[f] = known[f]
    BY <1>2, <2>2 DEF FollowInv, BehindForAReason, Announced
  <2> QED
    BY <2>1, <2>2
<1>6. BehindForAReason'
  BY <1>1, <1>2, <1>5 DEF BehindForAReason
<1> QED
  BY <1>4, <1>6 DEF FollowInv

\* An update reads the disk, or declares the file missed.
LEMMA FollowUpdate ==
  ASSUME FilesTypeOK, FollowInv, NEW f \in Files, UpdateIndexes(f)
  PROVE  FollowInv'
<1>1. /\ watcher.at = "publishing" /\ f \in watcher.changes
      /\ watcher' = [at |-> "updated", changes |-> watcher.changes \ {f}, then |-> watcher.then]
  BY WatcherShapes DEF UpdateIndexes, NextEvent
<1>2. UNCHANGED <<disk, past, known, baseline, armed, baselinePending>>
  BY DEF UpdateIndexes, diskVars
<1>3. BaselineFirst' /\ SeenBefore'
  BY <1>1, <1>2 DEF FollowInv, BaselineFirst, SeenBefore
<1>4. ASSUME baseline, NEW g \in Files \ missed'
      PROVE  index'[g] = disk[g] \/ known[g] # disk[g] \/ Announced(g)'
  <2>1. CASE g = f
    BY <1>4, <2>1 DEF UpdateIndexes, FilesTypeOK
  <2>2. CASE g # f
    <3>1. g \notin missed /\ index'[g] = index[g]
      BY <1>4, <2>2 DEF UpdateIndexes, FilesTypeOK
    <3> QED
      BY <1>1, <1>4, <2>2, <3>1 DEF FollowInv, BehindForAReason, Announced
  <2> QED
    BY <2>1, <2>2
<1>5. BehindForAReason'
  BY <1>2, <1>4 DEF BehindForAReason
<1> QED
  BY <1>3, <1>5 DEF FollowInv

\* The steps of the loop, which touch neither the indexes nor the disk.
LEMMA FollowLoop ==
  ASSUME ArmedFirst, FollowInv, Start \/ Arm \/ PollOnTimer \/ Reap \/ Rescan \/ Stop
  PROVE  FollowInv'
<1>1. UNCHANGED <<disk, past, known, baseline, index, missed>>
  BY DEF Start, Arm, PollOnTimer, Reap, Rescan, Stop, diskVars
<1>2. /\ watcher.at \in {"start", "loop", "wait", "debounce"}
      /\ watcher'.at \in {"loop", "wait", "debounce", "stopped", "scanning"}
      /\ watcher'.at = "scanning" => watcher'.seen = disk
  BY DEF Start, Arm, PollOnTimer, Reap, Rescan, Stop, Scanning
<1>3. BaselineFirst'
  <2>1. CASE Arm
    BY <1>1, <2>1 DEF Arm, Scanning, FollowInv, BaselineFirst
  <2>2. CASE Reap
    BY <1>1, <2>2 DEF Reap, FollowInv, BaselineFirst, ArmedFirst
  <2>3. CASE Start \/ PollOnTimer \/ Rescan \/ Stop
    BY <1>1, <1>2, <2>3 DEF Start, PollOnTimer, Rescan, Stop, FollowInv, BaselineFirst
  <2> QED
    BY <2>1, <2>2, <2>3
<1>4. SeenBefore'
  BY <1>1, <1>2 DEF FollowInv, SeenBefore
<1>5. BehindForAReason'
  BY <1>1, <1>2 DEF FollowInv, BehindForAReason, Announced
<1> QED
  BY <1>3, <1>4, <1>5 DEF FollowInv

\* An event leaves those that follow it announced.
LEMMA FollowEvent ==
  ASSUME FilesTypeOK, FollowInv, EventHandled
  PROVE  FollowInv'
<1>1. UNCHANGED <<disk, past, known, baseline, index, missed, armed, baselinePending>>
  BY DEF EventHandled, diskVars
<1>2. /\ watcher.at = "updated" /\ watcher.then \in {"loop", "wait"}
      /\ watcher'.at \in {"loop", "wait", "publishing"}
      /\ \A f : Announced(f) => Announced(f)'
  BY WatcherShapes, PublishingShapes DEF EventHandled, Announced
<1>3. BaselineFirst' /\ SeenBefore'
  BY <1>1, <1>2 DEF FollowInv, BaselineFirst, SeenBefore
<1>4. BehindForAReason'
  BY <1>1, <1>2 DEF FollowInv, BehindForAReason
<1> QED
  BY <1>3, <1>4 DEF FollowInv

\* Every step keeps the invariant.
LEMMA FollowStep ==
  ASSUME ~Reverts
  PROVE  WatchInv /\ FollowInv /\ [NextFiles]_fileVars => FollowInv'
<1> SUFFICES ASSUME WatchInv, FollowInv, [NextFiles]_fileVars PROVE FollowInv'
  OBVIOUS
<1>1. CASE UNCHANGED fileVars
  BY <1>1 DEF fileVars, diskVars, watchVars, FollowInv, BaselineFirst, SeenBefore, BehindForAReason, Announced
<1>2. CASE SomebodyEdits
  BY <1>2, FollowEdit DEF WatchInv, SomebodyEdits
<1>3. CASE \E f \in Files : UpdateIndexes(f)
  BY <1>3, FollowUpdate DEF WatchInv
<1> QED
  BY <1>1, <1>2, <1>3, FollowBaseline, FollowCompare, FollowLoop, FollowEvent DEF WatchInv, NextFiles, WatcherProceeds

\* If no file gets an old content back, the indexes are those of the files on
\* disk whenever the watcher sleeps, but for the failed updates and what
\* changed before the baseline (FileWatcher::PollOnce and the "FileChanged"
\* handler of main.cpp).
THEOREM IndexesFollow ==
  ASSUME ~Reverts
  PROVE  FilesSpec => []IndexesCurrent
<1>1. WatchInv /\ FollowInv => IndexesCurrent
  BY DEF WatchInv, ArmedFirst, NothingUnnoticed, FollowInv, BaselineFirst, BehindForAReason, Announced, IndexesCurrent, Quiet
<1>2. WatchInv /\ FollowInv /\ [NextFiles]_fileVars => FollowInv'
  BY FollowStep
<1> QED
  BY <1>1, <1>2, WatchInit, WatchStep, FollowInit, PTL DEF FilesSpec

\* Both together: what the watcher sleeps over has been seen and handled.
THEOREM WatcherKeepsUp ==
  ASSUME ~Reverts
  PROVE  FilesSpec => []ChangesReachIndexes
<1>1. NoMissedChange /\ IndexesCurrent => ChangesReachIndexes
  BY DEF ChangesReachIndexes
<1> QED
  BY <1>1, MissesNoChange, IndexesFollow, PTL

-----------------------------------------------------------------------------
(* The caches. *)

\* s is right about f, or the next comparison will find that f was changed.
\* Before the baseline, s is right about a file that has not been written.
Reflects(s, f) ==
  IF baseline THEN s[f] = disk[f] \/ known[f] # disk[f]
              ELSE disk[f] = index[f] => s[f] = disk[f]

\* The handler will drop the scan; it will start a generation.
DropComing == watcher.at \in {"publishing", "updated"}

RenewComing ==
  \/ watcher.at = "publishing"
  \/ watcher.at = "updated" /\ (~cacheInvalidated \/ watcher.changes # {})

\* Before the baseline the indexes are as they were built.
IndexesAsBuilt == ~baseline => missed = {} /\ \A f \in Files : index[f] \in past[f]

ScansReflect ==
  ~DropComing => \A f \in Files \ missed :
    /\ snapshot # Nothing => Reflects(snapshot, f)
    /\ server.at = "scan" /\ server.scanGeneration = scanGeneration => Reflects(server.seen, f)

AnswersReflect ==
  ~RenewComing => \A f \in Files \ missed :
    /\ Hit => Reflects(cached.symbols, f)
    /\ server.at = "put" /\ server.generation = generation => Reflects(server.symbols, f)

FreshInv == WatchInv /\ FollowInv /\ FreshnessTypeOK /\ IndexesAsBuilt /\ ScansReflect /\ AnswersReflect

-----------------------------------------------------------------------------
\* The invariant holds initially: nothing is kept.
LEMMA FreshInit == InitFreshness => FreshInv
<1> SUFFICES ASSUME InitFreshness PROVE FreshInv
  OBVIOUS
<1>1. WatchInv /\ FollowInv
  BY WatchInit, FollowInit DEF InitFreshness
<1>2. FreshnessTypeOK
  BY <1>1 DEF WatchInv, InitFreshness, FreshnessTypeOK
<1>3. IndexesAsBuilt
  BY DEF InitFreshness, InitFiles, IndexesAsBuilt
<1>4. ScansReflect /\ AnswersReflect
  BY DEF InitFreshness, ScansReflect, AnswersReflect, Hit
<1> QED
  BY <1>1, <1>2, <1>3, <1>4 DEF FreshInv

\* Every step is one of the watcher's module, or leaves that alone.
LEMMA FilesStep == [NextFreshness]_freshnessVars => [NextFiles]_fileVars
BY DEF NextFreshness, freshnessVars, NextFiles, ThreadProceeds, ServerProceeds, InvalidateAll, InvalidateScan, Miss, ScanKept,
       ScanBegins, ScanEnds, SearchIndexes, Put

\* The states of the server's request, with what each carries.
LEMMA ServerShapes ==
  ASSUME FreshnessTypeOK
  PROVE  /\ server.at \in {"idle", "retrieve", "scan", "search", "put"}
         /\ server.at # "idle" => server.generation \in 0..generation
         /\ server.at = "scan" => server.scanGeneration \in 0..scanGeneration /\ server.seen \in Scans
         /\ server.at \in {"search", "put"} => server.scan \in Scans
         /\ server.at = "put" => server.symbols \in Scans
         /\ cached # Nothing => cached.generation \in 0..generation /\ cached.scan \in Scans /\ cached.symbols \in Scans
<1>1. \/ server \in [at : {"idle"}]
      \/ server \in [at : {"retrieve"}, generation : 0..generation]
      \/ server \in [at : {"scan"}, generation : 0..generation, scanGeneration : 0..scanGeneration, seen : Scans]
      \/ server \in [at : {"search"}, generation : 0..generation, scan : Scans]
      \/ server \in [at : {"put"}, generation : 0..generation, scan : Scans, symbols : Scans]
  BY DEF FreshnessTypeOK
<1>2. cached # Nothing => cached \in [generation : 0..generation, scan : Scans, symbols : Scans]
  BY DEF FreshnessTypeOK
<1> QED
  BY <1>1, <1>2

\* A new generation leaves the types of what was begun in an earlier one.
LEMMA TypesAcrossGenerations ==
  ASSUME FreshnessTypeOK, FilesTypeOK', UNCHANGED <<cached, server>>,
         generation' \in {generation, generation + 1}, scanGeneration' \in {scanGeneration, scanGeneration + 1},
         snapshot' \in {snapshot, Nothing}, cacheInvalidated' \in BOOLEAN, cacheInvalidated' => watcher'.at = "updated"
  PROVE  FreshnessTypeOK'
<1>1. /\ generation \in Nat /\ scanGeneration \in Nat
      /\ generation' \in Nat /\ scanGeneration' \in Nat
      /\ 0..generation \subseteq 0..generation' /\ 0..scanGeneration \subseteq 0..scanGeneration'
  BY DEF FreshnessTypeOK
<1>2. cached' \in {Nothing} \cup [generation : 0..generation', scan : Scans, symbols : Scans]
  BY <1>1 DEF FreshnessTypeOK
<1>3. server' \in [at : {"idle"}] \cup [at : {"retrieve"}, generation : 0..generation']
       \cup [at : {"scan"}, generation : 0..generation',
             scanGeneration : 0..scanGeneration', seen : Scans]
       \cup [at : {"search"}, generation : 0..generation', scan : Scans]
       \cup [at : {"put"}, generation : 0..generation', scan : Scans, symbols : Scans]
  BY <1>1 DEF FreshnessTypeOK
<1>4. snapshot' \in {Nothing} \cup Scans
  BY DEF FreshnessTypeOK
<1> QED
  BY <1>1, <1>2, <1>3, <1>4 DEF FreshnessTypeOK, Scans, State

\* A step of the server's request leaves the generations and the watcher alone.
LEMMA ServerTypes ==
  ASSUME FreshnessTypeOK, Miss \/ ServerProceeds
  PROVE  FreshnessTypeOK' /\ UNCHANGED <<fileVars, generation, scanGeneration, cacheInvalidated>>
<1>1. UNCHANGED <<fileVars, generation, scanGeneration, cacheInvalidated>>
  BY DEF Miss, ServerProceeds, ScanKept, ScanBegins, ScanEnds, SearchIndexes, Put
<1>2. FilesTypeOK' /\ UNCHANGED <<disk, index, watcher>>
  BY <1>1 DEF FreshnessTypeOK, FilesTypeOK, fileVars, diskVars, watchVars
<1>3. disk \in Scans /\ index \in Scans /\ generation \in 0..generation /\ scanGeneration \in 0..scanGeneration
  BY DEF FreshnessTypeOK, FilesTypeOK, Scans
<1>4. /\ snapshot' \in {Nothing} \cup Scans
      /\ cached' \in {Nothing} \cup [generation : 0..generation, scan : Scans, symbols : Scans]
      /\ server' \in [at : {"idle"}] \cup [at : {"retrieve"}, generation : 0..generation]
           \cup [at : {"scan"}, generation : 0..generation, scanGeneration : 0..scanGeneration, seen : Scans]
           \cup [at : {"search"}, generation : 0..generation, scan : Scans]
           \cup [at : {"put"}, generation : 0..generation, scan : Scans, symbols : Scans]
  <2>1. CASE Miss
    BY <1>3, <2>1 DEF Miss, FreshnessTypeOK
  <2>2. CASE ScanKept
    BY <2>2, ServerShapes DEF ScanKept, FreshnessTypeOK
  <2>3. CASE ScanBegins
    BY <1>3, <2>3, ServerShapes DEF ScanBegins, FreshnessTypeOK
  <2>4. CASE ScanEnds
    <3>1. PICK scan \in ScanResults(server.seen) :
            /\ snapshot' \in {scan, snapshot}
            /\ server' = [at |-> "search", generation |-> server.generation, scan |-> scan]
      BY <2>4 DEF ScanEnds
    <3>2. scan \in Scans
      BY DEF ScanResults, Scans
    <3> QED
      BY <2>4, <3>1, <3>2, ServerShapes DEF ScanEnds, FreshnessTypeOK
  <2>5. CASE SearchIndexes
    BY <1>3, <2>5, ServerShapes DEF SearchIndexes, FreshnessTypeOK
  <2>6. CASE Put
    BY <2>6, ServerShapes DEF Put, FreshnessTypeOK
  <2> QED
    BY <2>1, <2>2, <2>3, <2>4, <2>5, <2>6 DEF ServerProceeds
<1> QED
  BY <1>1, <1>2, <1>4 DEF FreshnessTypeOK, Scans, State

\* Every step keeps the types.
LEMMA FreshTypeStep == FreshnessTypeOK /\ [NextFreshness]_freshnessVars => FreshnessTypeOK'
<1> SUFFICES ASSUME FreshnessTypeOK, [NextFreshness]_freshnessVars PROVE FreshnessTypeOK'
  OBVIOUS
<1>1. FilesTypeOK'
  BY FilesStep, FilesTypeStep DEF FreshnessTypeOK
<1>2. CASE Miss \/ ServerProceeds
  BY <1>2, ServerTypes
<1>3. CASE UNCHANGED cacheVars /\ (SomebodyEdits \/ WatcherProceeds \/ Stop \/ UNCHANGED fileVars)
  <2>1. watcher.at = "updated" => watcher'.at = "updated"
    BY <1>3 DEF SomebodyEdits, WatcherProceeds, Edit, Start, Arm, PollOnTimer, Reap, Rescan, TakeBaseline, Compare,
       UpdateIndexes, Stop, fileVars, watchVars
  <2> QED
    BY <1>1, <1>3, <2>1, TypesAcrossGenerations DEF cacheVars, FreshnessTypeOK
<1>4. CASE InvalidateAll
  BY <1>1, <1>4, TypesAcrossGenerations DEF InvalidateAll, fileVars, watchVars, FreshnessTypeOK
<1>5. CASE InvalidateScan
  BY <1>1, <1>5, TypesAcrossGenerations DEF InvalidateScan, FreshnessTypeOK
<1> QED
  BY <1>2, <1>3, <1>4, <1>5 DEF NextFreshness, ThreadProceeds, freshnessVars

-----------------------------------------------------------------------------
\* What is right, or will be found wrong, stays so: an edit makes the file differ
\* from the last scan, and a comparison that finds it publishes it.
LEMMA ReflectsAcrossSteps ==
  ASSUME ~Reverts, WatchInv, FollowInv, IndexesAsBuilt,
         NEW s, NEW f \in Files \ missed', f \notin missed => Reflects(s, f),
         SomebodyEdits \/ WatcherProceeds \/ Stop, watcher'.at \notin {"publishing", "updated"} \/ SomebodyEdits
  PROVE  Reflects(s, f)'
<1>1. CASE SomebodyEdits
  <2>1. PICK g \in Files, c \in State : Edit(g, c)
    BY <1>1 DEF SomebodyEdits
  <2>2. /\ disk' = [disk EXCEPT ![g] = c] /\ c \notin past[g] /\ disk \in [Files -> State]
        /\ UNCHANGED <<known, baseline, index, missed>>
    BY <2>1 DEF Edit, WatchInv, FilesTypeOK
  <2>3. f \notin missed /\ Reflects(s, f)
    BY <2>2
  <2>4. CASE g = f
    BY <2>2, <2>4 DEF Reflects, FollowInv, SeenBefore, IndexesAsBuilt
  <2>5. CASE g # f
    BY <2>2, <2>3, <2>5 DEF Reflects
  <2> QED
    BY <2>4, <2>5
<1>2. CASE Start \/ Arm \/ PollOnTimer \/ Reap \/ Rescan \/ Stop
  BY <1>2 DEF Start, Arm, PollOnTimer, Reap, Rescan, Stop, diskVars, Reflects
<1>3. CASE TakeBaseline
  <2>1. PICK scan \in ScanResults(watcher.seen) : known' = scan /\ missed' = {g \in Files : scan[g] # index[g]}
    BY <1>3 DEF TakeBaseline
  <2>2. ~baseline /\ baseline' = TRUE /\ UNCHANGED disk
    BY <1>3 DEF TakeBaseline, diskVars
  <2>3. known'[f] = index[f]
    BY <2>1
  <2>4. Reflects(s, f)
    BY <2>2 DEF IndexesAsBuilt
  <2> QED
    BY <2>2, <2>3, <2>4 DEF Reflects
<1>4. CASE Compare
  <2>1. PICK scan \in ScanResults(watcher.seen) :
          known' = scan /\ watcher' = Publishing({g \in Files : scan[g] # known[g]}, watcher.then)
    BY <1>4 DEF Compare
  <2>2. baseline /\ UNCHANGED <<baseline, disk, missed>>
    BY <1>4 DEF Compare, diskVars
  <2>3. watcher'.at \notin {"publishing", "updated"}
    BY <1>4 DEF SomebodyEdits, Edit, Compare, diskVars
  <2>4. scan[f] = known[f]
    BY <2>1, <2>3 DEF Publishing
  <2> QED
    BY <2>1, <2>2, <2>4 DEF Reflects
<1>5. CASE \E g \in Files : UpdateIndexes(g)
  <2>1. watcher'.at = "updated"
    BY <1>5, WatcherShapes DEF UpdateIndexes, WatchInv
  <2> QED
    BY <1>1, <2>1
<1> QED
  BY <1>1, <1>2, <1>3, <1>4, <1>5 DEF WatcherProceeds

\* Updates come after the baseline; before it only edits count.
LEMMA BuiltStep ==
  ASSUME WatchInv, IndexesAsBuilt, [NextFiles]_fileVars
  PROVE  IndexesAsBuilt'
<1>1. CASE SomebodyEdits
  <2>1. PICK g \in Files, c \in State : Edit(g, c)
    BY <1>1 DEF SomebodyEdits
  <2> QED
    BY <2>1 DEF Edit, IndexesAsBuilt, WatchInv, FilesTypeOK
<1>2. CASE \E g \in Files : UpdateIndexes(g)
  BY <1>2 DEF UpdateIndexes, WatchInv, ArmedFirst, IndexesAsBuilt
<1>3. CASE UNCHANGED fileVars
  BY <1>3 DEF fileVars, diskVars, watchVars, IndexesAsBuilt
<1>4. CASE Start \/ Arm \/ PollOnTimer \/ Reap \/ Rescan \/ Stop \/ TakeBaseline \/ Compare \/ EventHandled
  BY <1>4 DEF Start, Arm, PollOnTimer, Reap, Rescan, Stop, TakeBaseline, Compare, EventHandled, diskVars, IndexesAsBuilt
<1> QED
  BY <1>1, <1>2, <1>3, <1>4 DEF NextFiles, WatcherProceeds

\* A step of the watcher or an edit, which touch neither cache.
LEMMA FreshWatcherStep ==
  ASSUME ~Reverts, FreshInv, UNCHANGED cacheVars, SomebodyEdits \/ WatcherProceeds \/ Stop
  PROVE  ScansReflect' /\ AnswersReflect'
<1> USE DEF FreshInv, cacheVars
<1>1. CASE SomebodyEdits
  <2>1. UNCHANGED <<watcher, missed>>
    BY <1>1 DEF SomebodyEdits, Edit
  <2>2. ScansReflect'
    BY <1>1, <2>1, ReflectsAcrossSteps DEF ScansReflect, DropComing
  <2>3. AnswersReflect'
    BY <1>1, <2>1, ReflectsAcrossSteps DEF AnswersReflect, RenewComing, Hit
  <2> QED
    BY <2>2, <2>3
<1>2. CASE \E g \in Files : UpdateIndexes(g)
  <2>1. watcher.at = "publishing" /\ watcher'.at = "updated" /\ ~cacheInvalidated
    BY <1>2, WatcherShapes DEF UpdateIndexes, WatchInv, FreshnessTypeOK
  <2> QED
    BY <2>1 DEF ScansReflect, AnswersReflect, DropComing, RenewComing
<1>3. CASE Start \/ Arm \/ PollOnTimer \/ Reap \/ Rescan \/ Stop \/ TakeBaseline \/ Compare
  <2>1. watcher.at \notin {"publishing", "updated"}
    BY <1>3 DEF Start, Arm, PollOnTimer, Reap, Rescan, Stop, TakeBaseline, Compare
  <2>2. watcher'.at # "updated"
    BY <1>3, WatcherShapes DEF Start, Arm, PollOnTimer, Reap, Rescan, Stop, TakeBaseline, Compare, Scanning, Publishing, WatchInv
  <2>3. UNCHANGED missed \/ missed = {}
    BY <1>3 DEF Start, Arm, PollOnTimer, Reap, Rescan, Stop, TakeBaseline, Compare, IndexesAsBuilt
  <2>4. CASE watcher'.at = "publishing"
    BY <2>4 DEF ScansReflect, AnswersReflect, DropComing, RenewComing
  <2>5. CASE watcher'.at # "publishing"
    <3>1. ScansReflect'
      BY <1>3, <2>1, <2>2, <2>3, <2>5, ReflectsAcrossSteps DEF ScansReflect, DropComing, WatcherProceeds
    <3>2. AnswersReflect'
      BY <1>3, <2>1, <2>2, <2>3, <2>5, ReflectsAcrossSteps DEF AnswersReflect, RenewComing, Hit, WatcherProceeds
    <3> QED
      BY <3>1, <3>2
  <2> QED
    BY <2>4, <2>5
<1> QED
  BY <1>1, <1>2, <1>3 DEF WatcherProceeds

\* The handler's steps: what was begun before a new generation does not count.
LEMMA FreshHandlerStep ==
  ASSUME FreshInv, InvalidateAll \/ InvalidateScan
  PROVE  ScansReflect' /\ AnswersReflect'
<1> USE DEF FreshInv
<1>1. CASE InvalidateAll
  <2>1. /\ UNCHANGED <<disk, known, baseline, index, missed, watcher, cached, snapshot, scanGeneration, server>>
        /\ watcher.at = "updated"
    BY <1>1 DEF InvalidateAll, fileVars, diskVars, watchVars
  <2>2. ScansReflect'
    BY <2>1 DEF ScansReflect, DropComing
  <2>3. ~Hit' /\ (server.at = "put" => server.generation # generation')
    BY <1>1, ServerShapes DEF InvalidateAll, Hit, FreshnessTypeOK
  <2> QED
    BY <2>1, <2>2, <2>3 DEF AnswersReflect
<1>2. CASE InvalidateScan
  <2>1. /\ UNCHANGED <<disk, known, baseline, index, missed, generation, cached, server>>
        /\ snapshot' = Nothing /\ scanGeneration' = scanGeneration + 1
        /\ watcher.at = "updated" /\ cacheInvalidated
        /\ watcher' = Publishing(watcher.changes, watcher.then)
    BY <1>2 DEF InvalidateScan, EventHandled, diskVars
  <2>2. server.at = "scan" => server.scanGeneration # scanGeneration'
    BY <2>1, ServerShapes DEF FreshnessTypeOK
  <2>3. ScansReflect'
    BY <2>1, <2>2 DEF ScansReflect
  <2>4. ~RenewComing' => ~RenewComing
    BY <2>1 DEF RenewComing, Publishing
  <2>5. AnswersReflect'
    BY <2>1, <2>4 DEF AnswersReflect, Hit, Reflects
  <2> QED
    BY <2>3, <2>5
<1> QED
  BY <1>1, <1>2

\* The server's steps: what it reads now reflects the disk, or what will be
\* announced.
LEMMA FreshServerStep ==
  ASSUME FreshInv, Miss \/ ServerProceeds
  PROVE  ScansReflect' /\ AnswersReflect'
<1> USE DEF FreshInv
<1>1. UNCHANGED <<disk, known, baseline, index, missed, watcher, generation, scanGeneration, cacheInvalidated>>
  BY ServerTypes DEF fileVars, diskVars, watchVars
<1>2. /\ DropComing' = DropComing /\ RenewComing' = RenewComing
      /\ \A s, f : Reflects(s, f)' <=> Reflects(s, f)
  BY <1>1 DEF DropComing, RenewComing, Reflects
<1>3. \A f \in Files : Reflects(disk, f)
  BY DEF Reflects
<1>4. ~RenewComing => \A f \in Files \ missed : Reflects(index, f)
  BY DEF Reflects, FollowInv, BehindForAReason, Announced, RenewComing
<1>5. CASE Miss
  BY <1>1, <1>2, <1>5 DEF Miss, ScansReflect, AnswersReflect, Hit
<1>6. CASE ScanKept
  BY <1>1, <1>2, <1>6 DEF ScanKept, ScansReflect, AnswersReflect, Hit
<1>7. CASE ScanBegins
  BY <1>1, <1>2, <1>3, <1>7 DEF ScanBegins, ScansReflect, AnswersReflect, Hit
<1>8. CASE ScanEnds
  <2>1. PICK scan \in ScanResults(server.seen) :
          /\ snapshot' = IF scanGeneration = server.scanGeneration THEN scan ELSE snapshot
          /\ server' = [at |-> "search", generation |-> server.generation, scan |-> scan]
    BY <1>8 DEF ScanEnds
  <2>2. server.at = "scan" /\ cached' = cached
    BY <1>8 DEF ScanEnds
  <2>3. \A f \in Files : Reflects(server.seen, f) => Reflects(scan, f)
    BY DEF ScanResults, Reflects
  <2>4. ScansReflect'
    BY <1>1, <1>2, <2>1, <2>2, <2>3 DEF ScansReflect
  <2>5. AnswersReflect'
    BY <1>1, <1>2, <2>1, <2>2 DEF AnswersReflect, Hit
  <2> QED
    BY <2>4, <2>5
<1>9. CASE SearchIndexes
  BY <1>1, <1>2, <1>4, <1>9 DEF SearchIndexes, ScansReflect, AnswersReflect, Hit
<1>10. CASE Put
  BY <1>1, <1>2, <1>10 DEF Put, ScansReflect, AnswersReflect, Hit
<1> QED
  BY <1>5, <1>6, <1>7, <1>8, <1>9, <1>10 DEF ServerProceeds

\* Every step keeps the invariant.
LEMMA FreshStep ==
  ASSUME ~Reverts
  PROVE  FreshInv /\ [NextFreshness]_freshnessVars => FreshInv'
<1> SUFFICES ASSUME FreshInv, [NextFreshness]_freshnessVars PROVE FreshInv'
  OBVIOUS
<1>1. WatchInv' /\ FollowInv' /\ IndexesAsBuilt'
  BY FilesStep, WatchStep, FollowStep, BuiltStep DEF FreshInv
<1>2. FreshnessTypeOK'
  BY FreshTypeStep DEF FreshInv
<1>3. ScansReflect' /\ AnswersReflect'
  <2>1. CASE UNCHANGED freshnessVars
    <3>1. UNCHANGED <<disk, known, baseline, index, missed, watcher, generation, cached, snapshot, scanGeneration,
                      cacheInvalidated, server>>
      BY <2>1 DEF freshnessVars, fileVars, diskVars, watchVars, cacheVars
    <3>2. ScansReflect'
      BY <3>1 DEF FreshInv, ScansReflect, DropComing, Reflects
    <3>3. AnswersReflect'
      BY <3>1 DEF FreshInv, AnswersReflect, RenewComing, Hit, Reflects
    <3> QED
      BY <3>2, <3>3
  <2> QED
    BY <2>1, FreshWatcherStep, FreshHandlerStep, FreshServerStep DEF NextFreshness, ThreadProceeds
<1> QED
  BY <1>1, <1>2, <1>3 DEF FreshInv

\* If no file gets an old content back, the scan that is kept, and what a cached
\* answer took from the indexes, are those of the files on disk whenever the watcher
\* sleeps (ContextCache::InvalidateAll, ContextRetriever::InvalidateScan).
THEOREM KeptStaysCurrent ==
  ASSUME ~Reverts
  PROVE  SpecFreshness => []KeptIsCurrent
<1>1. FreshInv => KeptIsCurrent
  <2> SUFFICES ASSUME FreshInv PROVE KeptIsCurrent
    OBVIOUS
  <2>1. Quiet => baseline /\ known = disk /\ ~DropComing /\ ~RenewComing
    BY DEF Quiet, FreshInv, WatchInv, ArmedFirst, NothingUnnoticed, FollowInv, BaselineFirst, DropComing, RenewComing
  <2>2. SnapshotCurrent
    BY <2>1 DEF FreshInv, ScansReflect, Reflects, SnapshotCurrent
  <2>3. CachedSymbolsCurrent
    BY <2>1 DEF FreshInv, AnswersReflect, Reflects, CachedSymbolsCurrent
  <2> QED
    BY <2>2, <2>3 DEF FreshInv, KeptIsCurrent
<1>2. FreshInv /\ [NextFreshness]_freshnessVars => FreshInv'
  BY FreshStep
<1> QED
  BY <1>1, <1>2, FreshInit, PTL DEF SpecFreshness

=============================================================================
