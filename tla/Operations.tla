----------------------------- MODULE Operations -----------------------------
(***************************************************************************)
(* OperationLedger (Core/Session): records which operations were started   *)
(* and how they ended, so that none is run again unless its last attempt   *)
(* definitely failed.  Clients begin operations, run them, report or lose  *)
(* them, and reconcile what they find unresolved against reality: the      *)
(* probe runs outside the ledger's mutex.  Reality is the variable world.  *)
(***************************************************************************)
EXTENDS Naturals, Sequences

CONSTANTS
  Operations,   \* operation ids
  Clients,      \* threads that use the ledger
  MaxAttempts,  \* bound on the attempts at one operation
  Restarts      \* TRUE when the process that holds the ledger may restart

ASSUME MaxAttemptsIsNatural == MaxAttempts \in Nat
ASSUME RestartsIsBoolean == Restarts \in BOOLEAN

VARIABLES
  records,      \* OperationLedger::records_
  world,        \* what became of each attempt at each operation, in order
  call,         \* what each client is doing
  overtaken     \* operations begun again while another client still had to
                \* report, or to record, what it knew of an earlier attempt

vars == <<records, world, call, overtaken>>

Definite == {"Succeeded", "Failed"}
Outcomes == Definite \cup {"Unknown"}

Untracked  == [tracked |-> FALSE]
Tracked(o) == records[o] # Untracked
NewRecord  == [tracked |-> TRUE, outcome |-> "Unknown", finished |-> FALSE, interrupted |-> FALSE]

NoCall  == [at |-> "idle"]
Idle(c) == call[c] = NoCall

\* Clients that hold what became, or will become, of an attempt at o.
Knowing(o) == {c \in Clients : call[c].at \in {"running", "probed"} /\ call[c].operation = o}

Latest(o) == world[o][Len(world[o])]

-----------------------------------------------------------------------------
Init ==
  /\ records = [o \in Operations |-> Untracked]
  /\ world = [o \in Operations |-> <<>>]
  /\ call = [c \in Clients |-> NoCall]
  /\ overtaken = {}

\* The client runs what it was allowed to begin.
Attempt(c, o) ==
  /\ Idle(c) /\ Len(world[o]) < MaxAttempts
  /\ world' = [world EXCEPT ![o] = Append(@, "Running")]
  /\ call' = [call EXCEPT ![c] = [at |-> "running", operation |-> o, attempt |-> Len(world[o]) + 1]]
  /\ overtaken' = IF Knowing(o) = {} THEN overtaken ELSE overtaken \cup {o}

\* Mutant: an unresolved operation is taken for a failed one.
BeginStartedUnresolved(c, o) ==
  /\ Tracked(o) => records[o].outcome # "Succeeded"
  /\ records' = [records EXCEPT ![o] = NewRecord]
  /\ Attempt(c, o)

\* Begin() returns Started: the operation is new, or its last attempt failed.
BeginStarted(c, o) ==
  /\ Tracked(o) => records[o].outcome = "Failed"
  /\ records' = [records EXCEPT ![o] = NewRecord]
  /\ Attempt(c, o)

\* Begin() returns NeedsReconciliation, and the client calls Reconcile().
\* (After AlreadyCompleted it does nothing.)
BeginUnresolved(c, o) ==
  /\ Idle(c)
  /\ Tracked(o) /\ records[o].outcome = "Unknown"
  /\ call' = [call EXCEPT ![c] = [at |-> "reconcile", operation |-> o]]
  /\ UNCHANGED <<records, world, overtaken>>

\* Complete() with a definite outcome, whatever the record says so far and
\* whichever attempt the outcome is of.
Complete(o, outcome) ==
  /\ outcome \in Definite /\ Tracked(o)
  /\ records' = [records EXCEPT ![o] = [@ EXCEPT !.finished = TRUE, !.outcome = outcome]]

-----------------------------------------------------------------------------
\* An attempt ends in reality, whether or not somebody watches it.
AttemptEnds(o) ==
  /\ \E n \in DOMAIN world[o], outcome \in Definite :
       /\ world[o][n] = "Running"
       /\ world' = [world EXCEPT ![o][n] = outcome]
  /\ UNCHANGED <<records, call, overtaken>>

\* The client sees its own attempt end and reports it.
Report(c) ==
  /\ call[c].at = "running"
  /\ LET o == call[c].operation IN Complete(o, world[o][call[c].attempt])
  /\ call' = [call EXCEPT ![c] = NoCall]
  /\ UNCHANGED <<world, overtaken>>

\* The client loses its attempt without a trace.
Lose(c) ==
  /\ call[c].at = "running"
  /\ call' = [call EXCEPT ![c] = NoCall]
  /\ UNCHANGED <<records, world, overtaken>>

\* Mutant: an interruption counts as a failure.
MarkInterruptedFailed(c) ==
  /\ call[c].at = "running"
  /\ LET o == call[c].operation
     IN  /\ Tracked(o)
         /\ records' = [records EXCEPT ![o] = [@ EXCEPT !.finished = TRUE, !.outcome = "Failed"]]
  /\ call' = [call EXCEPT ![c] = NoCall]
  /\ UNCHANGED <<world, overtaken>>

\* The client notes that its attempt was interrupted.
MarkInterrupted(c) ==
  /\ call[c].at = "running"
  /\ LET o == call[c].operation
     IN  /\ Tracked(o)
         /\ records' = [records EXCEPT ![o] = [@ EXCEPT !.finished = TRUE, !.interrupted = TRUE]]
  /\ call' = [call EXCEPT ![c] = NoCall]
  /\ UNCHANGED <<world, overtaken>>

-----------------------------------------------------------------------------
(* Reconcile.                                                              *)

\* What a probe such as SessionOutcomeProbe finds: how the last attempt
\* ended, or that it has not.
Probe(o) == IF Latest(o) \in Definite THEN Latest(o) ELSE "Unknown"

\* The probe fails or knows nothing, and the record is left alone ...
ReconcileLeaves(c) ==
  /\ call[c].at = "reconcile"
  /\ call' = [call EXCEPT ![c] = NoCall]
  /\ UNCHANGED <<records, world, overtaken>>

\* ... or it finds a definite outcome, outside the mutex ...
ReconcileProbes(c) ==
  /\ call[c].at = "reconcile"
  /\ LET o == call[c].operation
     IN  /\ Probe(o) \in Definite
         /\ call' = [call EXCEPT ![c] = [at |-> "probed", operation |-> o, outcome |-> Probe(o)]]
  /\ UNCHANGED <<records, world, overtaken>>

\* ... with which Reconcile() completes the record.
ReconcileCompletes(c) ==
  /\ call[c].at = "probed"
  /\ Complete(call[c].operation, call[c].outcome)
  /\ call' = [call EXCEPT ![c] = NoCall]
  /\ UNCHANGED <<world, overtaken>>

\* The process restarts.  The ledger starts empty again: it cannot be filled
\* with what OperationLedgerRepository saved.
Restart ==
  /\ Restarts
  /\ records' = [o \in Operations |-> Untracked]
  /\ call' = [c \in Clients |-> NoCall]
  /\ overtaken' = {}
  /\ UNCHANGED world

Next ==
  \/ \E c \in Clients :
       \/ \E o \in Operations : BeginStarted(c, o) \/ BeginUnresolved(c, o)
       \/ Report(c) \/ Lose(c) \/ MarkInterrupted(c)
       \/ ReconcileLeaves(c) \/ ReconcileProbes(c) \/ ReconcileCompletes(c)
  \/ \E o \in Operations : AttemptEnds(o)
  \/ Restart

Spec == Init /\ [][Next]_vars

-----------------------------------------------------------------------------
Fates == {"Running"} \cup Definite

TypeOK ==
  /\ records \in [Operations -> {Untracked} \cup
       [tracked : {TRUE}, outcome : Outcomes, finished : BOOLEAN, interrupted : BOOLEAN]]
  /\ world \in [Operations -> Seq(Fates)]
  /\ \A o \in Operations : Len(world[o]) <= MaxAttempts
  /\ call \in [Clients ->
       {NoCall} \cup [at : {"running"}, operation : Operations, attempt : 1..MaxAttempts]
         \cup [at : {"reconcile"}, operation : Operations]
         \cup [at : {"probed"}, operation : Operations, outcome : Definite]]
  /\ overtaken \subseteq Operations

\* Where reports and probes are late: what is on record as definite is how
\* some attempt really ended, and how the last one did, unless that one was
\* begun while another client still had to report, or to record, an earlier.
OutcomeIsTrue ==
  \A o \in Operations :
    (Tracked(o) /\ records[o].outcome \in Definite) =>
      /\ \E n \in DOMAIN world[o] : world[o][n] = records[o].outcome
      /\ o \notin overtaken => Latest(o) = records[o].outcome

\* An operation the ledger has a record of is started again only if an
\* attempt at it really failed, and, unless a client was overtaken with what
\* it knew, only if the last one did: never while that one runs, never after
\* it succeeded, whoever loses, reports and reconciles it at the same time.
NeverRunAgain ==
  [][\A c \in Clients, o \in Operations :
       (BeginStarted(c, o) /\ Tracked(o)) =>
         /\ \E n \in DOMAIN world[o] : world[o][n] = "Failed"
         /\ o \notin overtaken => Latest(o) = "Failed"]_vars

\* The same without exemptions, which the ledger does not guarantee: a late
\* outcome is taken for that of the attempt begun meanwhile, and a restart
\* makes every operation new again.
NeverRunAgainAtAll ==
  [][\A c \in Clients, o \in Operations :
       (BeginStarted(c, o) /\ world[o] # <<>>) => Latest(o) = "Failed"]_vars

=============================================================================
