------------------------------ MODULE MCStored ------------------------------
(***************************************************************************)
(* What the program keeps and may find out of date: the database file that *)
(* programs of different versions open, and what was read of the project's *)
(* files.  The two share no state: a behaviour is about one of them, its   *)
(* part, and leaves the other in one of its initial states.                *)
(***************************************************************************)
EXTENDS MCSchemaEvolution, MCContextFreshness

CONSTANTS f1, f2, first, second  \* the files and their contents

\* Every disk is one of these but for the names of the files and of each file's
\* contents, which are not compared with those of another.
Disks == {f1 :> a @@ f2 :> first : a \in {first, Absent}} \cup {[f \in Files |-> Absent]}

VARIABLE part

allVars == <<part, vars, freshnessVars>>

InitStored ==
  /\ part \in {"schema", "files"}
  /\ IF part = "schema" THEN disk = CHOOSE one \in Disks : TRUE
     ELSE disk \in Disks /\ file = [snapshots |-> FALSE, kinds |-> FALSE, versions |-> FALSE,
                  effects |-> [v \in Migrations |-> 0], recorded |-> {}]
  /\ Init /\ InitFreshness

NextStored ==
  /\ UNCHANGED part
  /\ \/ part = "schema" /\ Next /\ UNCHANGED freshnessVars
     \/ part = "files" /\ NextFreshness /\ UNCHANGED vars

SpecStored ==
  /\ InitStored /\ [][NextStored]_allVars
  /\ \A p \in Processes : WF_vars(part = "schema" /\ Proceeds(p))
  /\ WF_freshnessVars(part = "files" /\ ThreadProceeds)
  /\ WF_freshnessVars(part = "files" /\ ServerProceeds)

\* EveryoneServes of the behaviours about the database (EnsureSchema and the
\* retries of a program that could not open it).
DatabaseOpens == part = "schema" => EveryoneServes

\* EventuallyFresh of the behaviours about the files (FileWatcher::Run and
\* the handler of FileChanged).
ContextIsFresh == part = "files" => EventuallyFresh
=============================================================================
