---------------------------- MODULE ServerProofs ----------------------------
(***************************************************************************)
(* Proofs about the parts of the server that MCServer composes.  The       *)
(* ledger of operations, under any number of clients, records outcomes     *)
(* that are real, and starts nothing again of which no attempt failed;     *)
(* where no client is overtaken with what it knew, both are about the last *)
(* attempt.  The answers of child processes are whole for any number of    *)
(* calls, programs and sizes of the pipe.  What the code indexes answer is *)
(* what is on disk, for any files, rows and edits that do not restore what *)
(* the watcher saw last, and an impact analysis that the watcher overtakes *)
(* is right about what stayed as it was.                                   *)
(***************************************************************************)
EXTENDS Operations, ChildProcesses, CodeIndexes, TLAPS, WellFoundedInduction

-----------------------------------------------------------------------------
(* The operation ledger. *)

RecordType == [tracked : {TRUE}, outcome : Outcomes, finished : BOOLEAN, interrupted : BOOLEAN]

\* The record of an operation agrees with the attempts that were made.
RecordFits(o) ==
  /\ Tracked(o) => world[o] # <<>>
  /\ (Tracked(o) /\ records[o].outcome \in Definite) =>
       /\ \E n \in DOMAIN world[o] : world[o][n] = records[o].outcome
       /\ o \notin overtaken => Latest(o) = records[o].outcome

\* What client c runs or found of o is of an attempt there is, and of the last
\* one unless it was overtaken.
CallFits(c, o) ==
  /\ call[c].at \in {"running", "reconcile", "probed"} => Tracked(o)
  /\ call[c].at = "running" =>
       /\ call[c].attempt \in DOMAIN world[o]
       /\ o \notin overtaken => call[c].attempt = Len(world[o])
  /\ call[c].at = "probed" =>
       /\ \E n \in DOMAIN world[o] : world[o][n] = call[c].outcome
       /\ o \notin overtaken => Latest(o) = call[c].outcome

IInv ==
  /\ TypeOK
  /\ \A o \in Operations : RecordFits(o)
  /\ \A c \in Clients : CallFits(c, call[c].operation)

\* The invariant holds initially.
LEMMA InitIInv == Init => IInv
  BY MaxAttemptsIsNatural
     DEF Init, IInv, TypeOK, RecordFits, CallFits, Tracked, Untracked, NoCall, Definite,
         Outcomes, Fates

\* What the type says of a client's call, of a record and of the attempts.
LEMMA Shapes ==
  ASSUME TypeOK
  PROVE  /\ \A c \in Clients :
              /\ call[c].at \in {"running", "reconcile", "probed"} => call[c].operation \in Operations
              /\ call[c].at = "running" => call[c].attempt \in 1..MaxAttempts
              /\ call[c].at = "probed" => call[c].outcome \in Definite
         /\ \A o \in Operations :
              /\ Tracked(o) => records[o] \in RecordType
              /\ world[o] \in Seq(Fates)
              /\ Len(world[o]) \in Nat /\ DOMAIN world[o] = 1..Len(world[o])
<1>1. ASSUME NEW c \in Clients
      PROVE  /\ call[c].at \in {"running", "reconcile", "probed"} => call[c].operation \in Operations
             /\ call[c].at = "running" => call[c].attempt \in 1..MaxAttempts
             /\ call[c].at = "probed" => call[c].outcome \in Definite
  <2>1. \/ call[c] = NoCall
        \/ call[c] \in [at : {"running"}, operation : Operations, attempt : 1..MaxAttempts]
        \/ call[c] \in [at : {"reconcile"}, operation : Operations]
        \/ call[c] \in [at : {"probed"}, operation : Operations, outcome : Definite]
    BY DEF TypeOK
  <2>2. NoCall.at = "idle"
    BY DEF NoCall
  <2> QED
    BY <2>1, <2>2
<1>2. ASSUME NEW o \in Operations, Tracked(o) PROVE records[o] \in RecordType
  BY <1>2 DEF TypeOK, Tracked, RecordType
<1>3. ASSUME NEW o \in Operations
      PROVE  world[o] \in Seq(Fates) /\ Len(world[o]) \in Nat /\ DOMAIN world[o] = 1..Len(world[o])
  BY DEF TypeOK
<1> QED
  BY <1>1, <1>2, <1>3

\* Every step keeps the types.
LEMMA NextTypeOK == TypeOK /\ [Next]_vars => TypeOK'
<1> SUFFICES ASSUME TypeOK, [Next]_vars PROVE TypeOK'
  OBVIOUS
<1> DEFINE CallType == {NoCall} \cup [at : {"running"}, operation : Operations, attempt : 1..MaxAttempts]
                         \cup [at : {"reconcile"}, operation : Operations]
                         \cup [at : {"probed"}, operation : Operations, outcome : Definite]
           Records == records \in [Operations -> {Untracked} \cup RecordType]
           Attempts == /\ world \in [Operations -> Seq(Fates)]
                       /\ \A o \in Operations : Len(world[o]) <= MaxAttempts
           Calls == call \in [Clients -> CallType]
           Others == overtaken \subseteq Operations
<1>t. TypeOK <=> Records /\ Attempts /\ Calls /\ Others
  BY DEF TypeOK, RecordType
<1>u. TypeOK' <=> Records' /\ Attempts' /\ Calls' /\ Others'
  BY DEF TypeOK, RecordType
<1>n. NoCall \in CallType /\ MaxAttempts \in Nat
  BY MaxAttemptsIsNatural
<1>r. NewRecord \in RecordType
  BY DEF NewRecord, RecordType, Outcomes
<1>k. Records /\ Attempts /\ Calls /\ Others
  BY <1>t
<1>w. ASSUME UNCHANGED <<world, overtaken>> PROVE Attempts' /\ Others'
  BY <1>w, <1>k
<1>1. ASSUME NEW c \in Clients, NEW o \in Operations, BeginStarted(c, o) PROVE TypeOK'
  <2>1. Records'
    BY <1>1, <1>k, <1>r DEF BeginStarted
  <2>2. Len(world[o]) \in Nat /\ Len(world[o]) < MaxAttempts
    BY <1>1, Shapes DEF BeginStarted, Attempt
  <2>3. Append(world[o], "Running") \in Seq(Fates) /\ Len(Append(world[o], "Running")) = Len(world[o]) + 1
    BY <1>k DEF Fates
  <2>4. Attempts'
    BY <1>1, <1>k, <1>n, <2>2, <2>3 DEF BeginStarted, Attempt
  <2>5. [at |-> "running", operation |-> o, attempt |-> Len(world[o]) + 1] \in CallType
    BY <1>n, <2>2
  <2>6. Calls'
    BY <1>1, <1>k, <2>5 DEF BeginStarted, Attempt
  <2>7. Others'
    BY <1>1, <1>k DEF BeginStarted, Attempt
  <2> QED
    BY <1>u, <2>1, <2>4, <2>6, <2>7
<1>2. ASSUME NEW c \in Clients, NEW o \in Operations, BeginUnresolved(c, o) PROVE TypeOK'
  <2>1. [at |-> "reconcile", operation |-> o] \in CallType
    OBVIOUS
  <2> QED
    BY <1>2, <1>k, <1>u, <1>w, <2>1 DEF BeginUnresolved
<1>c. ASSUME NEW c \in Clients, NEW o \in Operations, NEW outcome,
             Complete(o, outcome), call' = [call EXCEPT ![c] = NoCall], UNCHANGED <<world, overtaken>>
      PROVE  TypeOK'
  <2>1. records[o] \in RecordType /\ outcome \in Outcomes
    BY <1>c, Shapes DEF Complete, Outcomes
  <2>2. [records[o] EXCEPT !.finished = TRUE, !.outcome = outcome] \in RecordType
    BY <2>1 DEF RecordType
  <2> QED
    BY <1>c, <1>k, <1>n, <1>u, <1>w, <2>2 DEF Complete
<1>3. ASSUME NEW c \in Clients, Report(c) PROVE TypeOK'
  <2>1. call[c].operation \in Operations
    BY <1>3, Shapes DEF Report
  <2> QED
    BY <1>3, <1>c, <2>1 DEF Report
<1>4. ASSUME NEW c \in Clients, Lose(c) PROVE TypeOK'
  BY <1>4, <1>k, <1>n, <1>u, <1>w DEF Lose
<1>5. ASSUME NEW c \in Clients, MarkInterrupted(c) PROVE TypeOK'
  <2>1. PICK o \in Operations : o = call[c].operation
    BY <1>5, Shapes DEF MarkInterrupted
  <2>2. [records[o] EXCEPT !.finished = TRUE, !.interrupted = TRUE] \in RecordType
    BY <1>5, <2>1, Shapes DEF MarkInterrupted, RecordType
  <2> QED
    BY <1>5, <1>k, <1>n, <1>u, <1>w, <2>1, <2>2 DEF MarkInterrupted
<1>6. ASSUME NEW c \in Clients, ReconcileLeaves(c) PROVE TypeOK'
  BY <1>6, <1>k, <1>n, <1>u, <1>w DEF ReconcileLeaves
<1>7. ASSUME NEW c \in Clients, ReconcileProbes(c) PROVE TypeOK'
  <2>1. PICK o \in Operations : o = call[c].operation
    BY <1>7, Shapes DEF ReconcileProbes
  <2>2. Probe(o) \in Definite /\ call' = [call EXCEPT ![c] = [at |-> "probed", operation |-> o, outcome |-> Probe(o)]]
    BY <1>7, <2>1 DEF ReconcileProbes
  <2>3. [at |-> "probed", operation |-> o, outcome |-> Probe(o)] \in CallType
    BY <2>2
  <2> QED
    BY <1>7, <1>k, <1>u, <1>w, <2>2, <2>3 DEF ReconcileProbes
<1>8. ASSUME NEW c \in Clients, ReconcileCompletes(c) PROVE TypeOK'
  <2>1. call[c].operation \in Operations
    BY <1>8, Shapes DEF ReconcileCompletes
  <2> QED
    BY <1>8, <1>c, <2>1 DEF ReconcileCompletes
<1>9. ASSUME NEW o \in Operations, AttemptEnds(o) PROVE TypeOK'
  <2>1. PICK n \in DOMAIN world[o], outcome \in Definite : world' = [world EXCEPT ![o][n] = outcome]
    BY <1>9 DEF AttemptEnds
  <2>2. outcome \in Fates
    BY DEF Fates
  <2>3. [world[o] EXCEPT ![n] = outcome] \in Seq(Fates) /\ Len([world[o] EXCEPT ![n] = outcome]) = Len(world[o])
    BY <1>k, <2>2
  <2>4. Attempts'
    BY <1>k, <2>1, <2>3
  <2> QED
    BY <1>9, <1>k, <1>u, <2>4 DEF AttemptEnds
<1>10. CASE Restart
  BY <1>10, <1>k, <1>n, <1>u DEF Restart
<1>11. CASE UNCHANGED vars
  BY <1>11, <1>k, <1>u DEF vars
<1> QED
  BY <1>1, <1>2, <1>3, <1>4, <1>5, <1>6, <1>7, <1>8, <1>9, <1>10, <1>11 DEF Next

\* A step that moves one client, to a call that fits, and changes no record,
\* attempt or overtaking keeps the invariant.
LEMMA ClientMoves ==
  ASSUME IInv, TypeOK', NEW c \in Clients, UNCHANGED <<records, world, overtaken>>,
         \A d \in Clients \ {c} : call'[d] = call[d],
         CallFits(c, call[c].operation)'
  PROVE  IInv'
<1>1. \A o \in Operations : RecordFits(o)'
  <2>1. \A o \in Operations : RecordFits(o)
    BY DEF IInv
  <2> QED
    BY <2>1 DEF RecordFits, Tracked, Latest
<1>2. \A d \in Clients : CallFits(d, call[d].operation)'
  <2>1. \A d \in Clients : CallFits(d, call[d].operation)
    BY DEF IInv
  <2>2. ASSUME NEW d \in Clients, d # c PROVE CallFits(d, call[d].operation)'
    BY <2>1, <2>2 DEF CallFits, Tracked, Latest
  <2> QED
    BY <2>2
<1> QED
  BY <1>1, <1>2 DEF IInv

\* A step that sets the record of o to an outcome that fits, and frees the
\* client, keeps the invariant.
LEMMA CompletionFits ==
  ASSUME IInv, TypeOK', NEW c \in Clients, NEW o \in Operations, NEW outcome,
         Complete(o, outcome), UNCHANGED <<world, overtaken>>, call' = [call EXCEPT ![c] = NoCall],
         \E n \in DOMAIN world[o] : world[o][n] = outcome,
         o \notin overtaken => Latest(o) = outcome
  PROVE  IInv'
<1>1. Tracked(o) /\ records[o] \in RecordType /\ outcome \in Definite
  BY Shapes DEF IInv, Complete
<1>2. /\ records'[o] = [records[o] EXCEPT !.finished = TRUE, !.outcome = outcome]
      /\ \A p \in Operations \ {o} : records'[p] = records[p]
  BY DEF IInv, TypeOK, Complete
<1>3. Tracked(o)' /\ records'[o].outcome = outcome
  <2>1. records'[o].tracked = TRUE /\ records'[o].outcome = outcome
    BY <1>1, <1>2 DEF RecordType
  <2>2. Untracked.tracked = FALSE
    BY DEF Untracked
  <2> QED
    BY <2>1, <2>2 DEF Tracked
<1>4. \A p \in Operations : Tracked(p) => Tracked(p)'
  BY <1>2, <1>3 DEF Tracked
<1>5. ASSUME NEW p \in Operations PROVE RecordFits(p)'
  <2>1. RecordFits(p)
    BY DEF IInv
  <2>2. CASE p = o
    BY <1>1, <1>3, <2>1, <2>2 DEF RecordFits, Latest
  <2>3. CASE p # o
    BY <1>2, <2>1, <2>3 DEF RecordFits, Latest, Tracked
  <2> QED
    BY <2>2, <2>3
<1>6. ASSUME NEW d \in Clients PROVE CallFits(d, call[d].operation)'
  <2>1. CASE d = c
    <3>1. call'[c] = NoCall
      BY DEF IInv, TypeOK
    <3> QED
      BY <2>1, <3>1 DEF CallFits, NoCall
  <2>2. CASE d # c
    <3>1. call'[d] = call[d] /\ CallFits(d, call[d].operation)
      BY <2>2 DEF IInv, TypeOK
    <3>2. call[d].at \in {"running", "reconcile", "probed"} => call[d].operation \in Operations
      BY Shapes DEF IInv
    <3> QED
      BY <1>4, <3>1, <3>2 DEF CallFits, Latest
  <2> QED
    BY <2>1, <2>2
<1> QED
  BY <1>5, <1>6 DEF IInv

\* A new attempt is begun: whoever knew of an earlier one is overtaken.
LEMMA BeginFits ==
  ASSUME IInv, TypeOK', NEW c \in Clients, NEW o \in Operations, BeginStarted(c, o)
  PROVE  IInv'
<1>w. world[o] \in Seq(Fates) /\ Len(world[o]) \in Nat
  BY Shapes DEF IInv
<1>1. /\ Tracked(o)' /\ records'[o].outcome = "Unknown"
      /\ \A p \in Operations \ {o} : records'[p] = records[p] /\ world'[p] = world[p]
      /\ world'[o] = Append(world[o], "Running")
      /\ call'[c] = [at |-> "running", operation |-> o, attempt |-> Len(world[o]) + 1]
      /\ \A d \in Clients \ {c} : call'[d] = call[d]
  BY DEF BeginStarted, Attempt, IInv, TypeOK, Tracked, NewRecord, Untracked
<1>2. /\ Len(world'[o]) = Len(world[o]) + 1 /\ world'[o] # <<>>
      /\ \A n \in DOMAIN world[o] : n \in DOMAIN world'[o] /\ world'[o][n] = world[o][n]
  BY <1>1, <1>w
<1>3. /\ overtaken \subseteq overtaken' /\ overtaken' \subseteq overtaken \cup {o}
      /\ Knowing(o) # {} => o \in overtaken'
  BY DEF BeginStarted, Attempt
<1>4. ASSUME NEW p \in Operations PROVE RecordFits(p)'
  <2>1. CASE p = o
    BY <1>1, <1>2, <2>1 DEF RecordFits, Definite
  <2>2. CASE p # o
    BY <1>1, <1>3, <2>2 DEF RecordFits, Tracked, Latest, IInv
  <2> QED
    BY <2>1, <2>2
<1>5. ASSUME NEW d \in Clients PROVE CallFits(d, call[d].operation)'
  <2>1. CASE d = c
    <3>1. Len(world[o]) + 1 \in DOMAIN world'[o]
      BY <1>1, <1>2, <1>w
    <3> QED
      BY <1>1, <1>2, <2>1, <3>1 DEF CallFits
  <2>2. CASE d # c /\ call[d].operation = o
    <3>1. call'[d] = call[d] /\ CallFits(d, o)
      BY <1>1, <2>2 DEF IInv
    <3>2. call[d].at \in {"running", "probed"} => o \in overtaken'
      BY <1>3, <2>2 DEF Knowing
    <3> QED
      BY <1>1, <1>2, <2>2, <3>1, <3>2 DEF CallFits
  <2>3. CASE d # c /\ call[d].operation # o
    <3>1. call'[d] = call[d] /\ CallFits(d, call[d].operation)
      BY <1>1, <2>3 DEF IInv
    <3>2. call[d].at \in {"running", "reconcile", "probed"} => call[d].operation \in Operations
      BY Shapes DEF IInv
    <3> QED
      BY <1>1, <1>3, <2>3, <3>1, <3>2 DEF CallFits, Latest, Tracked
  <2> QED
    BY <2>1, <2>2, <2>3
<1> QED
  BY <1>4, <1>5 DEF IInv

\* An attempt ends: what was known of others stays so.
LEMMA EndFits ==
  ASSUME IInv, TypeOK', NEW o \in Operations, AttemptEnds(o)
  PROVE  IInv'
<1>w. world[o] \in Seq(Fates) /\ Len(world[o]) \in Nat /\ DOMAIN world[o] = 1..Len(world[o])
  BY Shapes DEF IInv
<1>1. PICK n \in DOMAIN world[o], outcome \in Definite :
        world[o][n] = "Running" /\ world' = [world EXCEPT ![o][n] = outcome]
  BY DEF AttemptEnds
<1>2. /\ world'[o] = [world[o] EXCEPT ![n] = outcome]
      /\ \A p \in Operations \ {o} : world'[p] = world[p]
  BY <1>1 DEF IInv, TypeOK
<1>3. Len(world'[o]) = Len(world[o]) /\ DOMAIN world'[o] = DOMAIN world[o]
  BY <1>w, <1>2
<1>4. \A m \in DOMAIN world[o] : world[o][m] \in Definite => world'[o][m] = world[o][m]
  BY <1>1, <1>2, <1>w DEF Definite
<1>5. UNCHANGED <<records, call, overtaken>>
  BY DEF AttemptEnds
<1>6. world[o] # <<>> => Len(world[o]) \in DOMAIN world[o]
  BY <1>w
<1>7. \A p \in Operations : RecordFits(p)'
  <2>1. SUFFICES ASSUME NEW p \in Operations PROVE RecordFits(p)'
    OBVIOUS
  <2>2. RecordFits(p)
    BY DEF IInv
  <2>3. CASE p = o
    <3>1. world'[o] # <<>> <=> world[o] # <<>>
      BY <1>w, <1>2, <1>3
    <3> QED
      BY <1>3, <1>4, <1>5, <1>6, <2>2, <2>3, <3>1 DEF RecordFits, Tracked, Latest
  <2>4. CASE p # o
    BY <1>2, <1>5, <2>2, <2>4 DEF RecordFits, Tracked, Latest
  <2> QED
    BY <2>3, <2>4
<1>8. ASSUME NEW d \in Clients PROVE CallFits(d, call[d].operation)'
  <2>1. CallFits(d, call[d].operation)
    BY DEF IInv
  <2>2. /\ call[d].at \in {"running", "reconcile", "probed"} => call[d].operation \in Operations
        /\ call[d].at = "probed" => call[d].outcome \in Definite
    BY Shapes DEF IInv
  <2>3. CASE call[d].operation = o
    <3>1. call[d].at = "probed" => world[o] # <<>>
      BY <2>1, <2>3, <1>w DEF CallFits
    <3> QED
      BY <1>3, <1>4, <1>5, <1>6, <2>1, <2>2, <2>3, <3>1 DEF CallFits, Tracked, Latest
  <2>4. CASE call[d].operation # o
    BY <1>2, <1>5, <2>1, <2>2, <2>4 DEF CallFits, Tracked, Latest
  <2> QED
    BY <2>3, <2>4
<1> QED
  BY <1>7, <1>8 DEF IInv

\* Every step keeps the invariant, whatever the clients do to each other.
LEMMA NextIInv == IInv /\ [Next]_vars => IInv'
<1> SUFFICES ASSUME IInv, [Next]_vars PROVE IInv'
  OBVIOUS
<1>t. TypeOK /\ TypeOK'
  BY NextTypeOK DEF IInv
<1>f. ASSUME NEW c \in Clients, call' = [call EXCEPT ![c] = NoCall], UNCHANGED <<records, world, overtaken>>
      PROVE  IInv'
  <2>1. call'[c] = NoCall /\ \A d \in Clients \ {c} : call'[d] = call[d]
    BY <1>f, <1>t DEF TypeOK
  <2>2. CallFits(c, call[c].operation)'
    BY <2>1 DEF CallFits, NoCall
  <2> QED
    BY <1>f, <1>t, <2>1, <2>2, ClientMoves
<1>1. ASSUME NEW c \in Clients, NEW o \in Operations, BeginStarted(c, o) PROVE IInv'
  BY <1>1, <1>t, BeginFits
<1>2. ASSUME NEW c \in Clients, NEW o \in Operations, BeginUnresolved(c, o) PROVE IInv'
  <2>1. call'[c] = [at |-> "reconcile", operation |-> o] /\ \A d \in Clients \ {c} : call'[d] = call[d]
    BY <1>2, <1>t DEF BeginUnresolved, TypeOK
  <2>2. UNCHANGED <<records, world, overtaken>> /\ Tracked(o)
    BY <1>2 DEF BeginUnresolved
  <2>3. CallFits(c, call[c].operation)'
    BY <2>1, <2>2 DEF CallFits, Tracked
  <2> QED
    BY <1>t, <2>1, <2>2, <2>3, ClientMoves
<1>3. ASSUME NEW c \in Clients, Report(c) PROVE IInv'
  <2>1. PICK o \in Operations : o = call[c].operation
    BY <1>3, <1>t, Shapes DEF Report
  <2>2. CallFits(c, o) /\ call[c].at = "running"
    BY <1>3, <2>1 DEF Report, IInv
  <2>3. /\ call[c].attempt \in DOMAIN world[o]
        /\ o \notin overtaken => Latest(o) = world[o][call[c].attempt]
    BY <2>2 DEF CallFits, Latest
  <2>4. Complete(o, world[o][call[c].attempt]) /\ call' = [call EXCEPT ![c] = NoCall] /\ UNCHANGED <<world, overtaken>>
    BY <1>3, <2>1 DEF Report
  <2> QED
    BY <1>t, <2>3, <2>4, CompletionFits
<1>4. ASSUME NEW c \in Clients, Lose(c) PROVE IInv'
  BY <1>4, <1>f DEF Lose
<1>5. ASSUME NEW c \in Clients, MarkInterrupted(c) PROVE IInv'
  <2>1. PICK o \in Operations : o = call[c].operation
    BY <1>5, <1>t, Shapes DEF MarkInterrupted
  <2>2. /\ Tracked(o) /\ UNCHANGED <<world, overtaken>>
        /\ records' = [records EXCEPT ![o] = [@ EXCEPT !.finished = TRUE, !.interrupted = TRUE]]
        /\ call' = [call EXCEPT ![c] = NoCall]
    BY <1>5, <2>1 DEF MarkInterrupted
  <2>3. records'[o] = [records[o] EXCEPT !.finished = TRUE, !.interrupted = TRUE] /\ records[o] \in RecordType
    BY <1>t, <2>2, Shapes DEF TypeOK
  <2>4. records'[o].outcome = records[o].outcome /\ records'[o].tracked = TRUE
    BY <2>3 DEF RecordType
  <2>5. \A p \in Operations : (Tracked(p)' <=> Tracked(p)) /\ records'[p].outcome = records[p].outcome
    <3>1. Untracked.tracked = FALSE
      BY DEF Untracked
    <3>2. \A p \in Operations \ {o} : records'[p] = records[p]
      BY <1>t, <2>2 DEF TypeOK
    <3> QED
      BY <2>2, <2>4, <3>1, <3>2 DEF Tracked
  <2>6. \A p \in Operations : RecordFits(p)'
    BY <2>2, <2>5 DEF RecordFits, Latest, IInv
  <2>7. ASSUME NEW d \in Clients PROVE CallFits(d, call[d].operation)'
    <3>1. CASE d = c
      <4>1. call'[c] = NoCall
        BY <1>t, <2>2 DEF TypeOK
      <4> QED
        BY <3>1, <4>1 DEF CallFits, NoCall
    <3>2. CASE d # c
      <4>1. call'[d] = call[d] /\ CallFits(d, call[d].operation)
        BY <1>t, <2>2, <3>2 DEF TypeOK, IInv
      <4>2. call[d].at \in {"running", "reconcile", "probed"} => call[d].operation \in Operations
        BY <1>t, Shapes
      <4> QED
        BY <2>2, <2>5, <4>1, <4>2 DEF CallFits, Latest
    <3> QED
      BY <3>1, <3>2
  <2> QED
    BY <1>t, <2>6, <2>7 DEF IInv
<1>6. ASSUME NEW c \in Clients, ReconcileLeaves(c) PROVE IInv'
  BY <1>6, <1>f DEF ReconcileLeaves
<1>7. ASSUME NEW c \in Clients, ReconcileProbes(c) PROVE IInv'
  <2>1. PICK o \in Operations : o = call[c].operation
    BY <1>7, <1>t, Shapes DEF ReconcileProbes
  <2>2. /\ Probe(o) \in Definite /\ UNCHANGED <<records, world, overtaken>>
        /\ call' = [call EXCEPT ![c] = [at |-> "probed", operation |-> o, outcome |-> Probe(o)]]
    BY <1>7, <2>1 DEF ReconcileProbes
  <2>3. Probe(o) = Latest(o)
    BY <2>2 DEF Probe, Definite
  <2>4. Tracked(o) /\ world[o] # <<>>
    BY <1>7, <2>1 DEF ReconcileProbes, CallFits, RecordFits, IInv
  <2>5. Len(world[o]) \in DOMAIN world[o]
    BY <1>t, <2>4, Shapes
  <2>6. call'[c] = [at |-> "probed", operation |-> o, outcome |-> Latest(o)] /\ \A d \in Clients \ {c} : call'[d] = call[d]
    BY <1>t, <2>2, <2>3 DEF TypeOK
  <2>7. CallFits(c, call[c].operation)'
    BY <2>2, <2>4, <2>5, <2>6 DEF CallFits, Tracked, Latest
  <2> QED
    BY <1>t, <2>2, <2>6, <2>7, ClientMoves
<1>8. ASSUME NEW c \in Clients, ReconcileCompletes(c) PROVE IInv'
  <2>1. PICK o \in Operations : o = call[c].operation
    BY <1>8, <1>t, Shapes DEF ReconcileCompletes
  <2>2. CallFits(c, o) /\ call[c].at = "probed"
    BY <1>8, <2>1 DEF ReconcileCompletes, IInv
  <2>3. Complete(o, call[c].outcome) /\ call' = [call EXCEPT ![c] = NoCall] /\ UNCHANGED <<world, overtaken>>
    BY <1>8, <2>1 DEF ReconcileCompletes
  <2> QED
    BY <1>t, <2>2, <2>3, CompletionFits DEF CallFits
<1>9. ASSUME NEW o \in Operations, AttemptEnds(o) PROVE IInv'
  BY <1>9, <1>t, EndFits
<1>10. CASE Restart
  BY <1>10, <1>t DEF Restart, IInv, RecordFits, CallFits, NoCall, Tracked
<1>11. CASE UNCHANGED vars
  BY <1>11, <1>t DEF vars, IInv, RecordFits, CallFits, Tracked, Latest
<1> QED
  BY <1>1, <1>2, <1>3, <1>4, <1>5, <1>6, <1>7, <1>8, <1>9, <1>10, <1>11 DEF Next

\* For any number of clients, a definite outcome on record is how an attempt
\* really ended, and how the last one did unless it was begun while another
\* client still had to report or record an earlier one.
THEOREM OutcomesAreTrue == Spec => []OutcomeIsTrue
<1>1. IInv => OutcomeIsTrue
  BY DEF IInv, OutcomeIsTrue, RecordFits
<1> QED
  BY <1>1, InitIInv, NextIInv, PTL DEF Spec

\* For any number of clients, an operation on record is started again only if
\* an attempt really failed, and the last one unless a client was overtaken.
THEOREM NeverRunsAgain == Spec => NeverRunAgain
<1>1. IInv /\ [Next]_vars =>
        [\A c \in Clients, o \in Operations :
           (BeginStarted(c, o) /\ Tracked(o)) =>
             /\ \E n \in DOMAIN world[o] : world[o][n] = "Failed"
             /\ o \notin overtaken => Latest(o) = "Failed"]_vars
  BY DEF IInv, RecordFits, BeginStarted, Definite
<1> QED
  BY <1>1, InitIInv, NextIInv, PTL DEF Spec, NeverRunAgain

-----------------------------------------------------------------------------
(* The commands that run as child processes. *)

\* The processes there can be.
Everyone == {Server} \cup {Child(c) : c \in Askers} \cup {Helper(c) : c \in Askers}

\* Types of the state of the calls.
ChildTypeOK ==
  /\ asked \in [Askers -> [call : {"run", "verify"}, program : Programs]]
  /\ at \in [Askers -> {"idle", "piped", "created", "waiting", "timed out", "joining", "returned"}]
  /\ holders \in [Askers -> SUBSET Everyone]
  /\ exitCode \in [Askers -> {"none", "zero", "other", "terminated"}]
  /\ written \in [Askers -> Nat] /\ pipe \in [Askers -> Nat] /\ output \in [Askers -> Nat]
  /\ reading \in [Askers -> BOOLEAN]
  /\ answer \in [Askers -> [outcome : {"pending", "not started", "none", "zero", "other", "terminated", "unknown"},
                            text : Nat]]

\* What AnswerIsWhole says of one call that has returned.
AnswerWhole(c) ==
  /\ HasLeft(Child(c))
  /\ answer[c].outcome \in {"zero", "other"} =>
       answer[c] = Answer(asked[c].program.exit, AtMost(asked[c].program.chunks))
  /\ answer[c].outcome = "unknown" => asked[c].call = "verify" /\ answer[c].text <= AtMost(written[c])

\* A child holds the writing end as long as it lives, and the server until the
\* reading begins: so when the reader has seen the end, all is read and the
\* child, which wrote all before it ended, is gone.
CallInv(c) ==
  /\ at[c] \in {"idle", "piped"} =>
       Child(c) \notin alive /\ written[c] = 0 /\ pipe[c] = 0
  /\ at[c] \in {"idle", "piped", "created"} => ~reading[c]
  /\ at[c] \in {"piped", "created"} => Server \in holders[c]
  /\ Child(c) \in alive => Child(c) \in holders[c]
  /\ at[c] \in {"waiting", "timed out", "joining"} /\ ~reading[c] =>
       pipe[c] = 0 /\ holders[c] = {}
  /\ written[c] <= asked[c].program.chunks /\ pipe[c] <= written[c]
  /\ output[c] = AtMost(written[c] - pipe[c])
  /\ at[c] \in {"created", "waiting"} /\ Child(c) \notin alive =>
       exitCode[c] = asked[c].program.exit /\ written[c] = asked[c].program.chunks
  /\ at[c] \in {"timed out", "joining"} =>
       /\ asked[c].call = "verify"
       /\ answer[c].outcome = "unknown" /\ answer[c].text <= AtMost(written[c])
  /\ at[c] = "joining" => Child(c) \notin alive
  /\ at[c] = "returned" => AnswerWhole(c)

\* All calls, each by itself.
ChildInv == ChildTypeOK /\ \A c \in Askers : CallInv(c)

\* What is kept of an output grows with it, up to the room there is.
LEMMA AtMostSteps ==
  ASSUME NEW w \in Nat, NEW p \in Nat, p <= w
  PROVE  /\ MaxOutput \in Nat
         /\ p > 0 => /\ p - 1 \in Nat
                     /\ AtMost(w - (p - 1)) = IF AtMost(w - p) < MaxOutput THEN AtMost(w - p) + 1
                                              ELSE AtMost(w - p)
         /\ AtMost((w + 1) - (p + 1)) = AtMost(w - p)
         /\ AtMost(w - p) <= AtMost(w) /\ AtMost(w) <= AtMost(w + 1) /\ AtMost(w) \in Nat
         /\ p = 0 => AtMost(w - p) = AtMost(w)
BY RoomIsPositive DEF AtMost

\* What a step of one call may do to those of others.
LEMMA OthersKeepCall ==
  ASSUME ChildTypeOK, NEW d \in Askers, CallInv(d),
         /\ asked'[d] = asked[d] /\ at'[d] = at[d] /\ exitCode'[d] = exitCode[d]
         /\ written'[d] = written[d] /\ pipe'[d] = pipe[d] /\ output'[d] = output[d]
         /\ reading'[d] = reading[d] /\ answer'[d] = answer[d],
         Child(d) \in alive' <=> Child(d) \in alive,
         Server \in holders[d] => Server \in holders'[d],
         Child(d) \in holders[d] => Child(d) \in holders'[d],
         holders[d] = {} => holders'[d] = {}
  PROVE  CallInv(d)'
BY DEF CallInv, AnswerWhole, HasLeft

\* The processes of different calls are different.
LEMMA ChildrenApart ==
  ASSUME NEW c \in Askers, NEW d \in Askers
  PROVE  /\ (Child(c) = Child(d) <=> c = d) /\ (Helper(c) = Helper(d) <=> c = d)
         /\ Child(c) # Helper(d) /\ Server # Child(c) /\ Server # Helper(c)
         /\ Child(c) \in Everyone /\ Helper(c) \in Everyone /\ Server \in Everyone
BY ServerIsNoCommand DEF Child, Helper, Everyone

\* A process that ends, and one that begins.
LEMMA EndsLeavesOthers ==
  ASSUME ChildTypeOK, NEW p \in Everyone, p # Server, Ends(p)
  PROVE  /\ holders' \in [Askers -> SUBSET Everyone]
         /\ \A d \in Askers : /\ Server \in holders[d] => Server \in holders'[d]
                              /\ Child(d) # p /\ Child(d) \in holders[d] => Child(d) \in holders'[d]
                              /\ holders[d] = {} => holders'[d] = {}
                              /\ Child(d) # p => (Child(d) \in alive' <=> Child(d) \in alive)
         /\ p \notin alive'
BY DEF Ends, ChildTypeOK

\* A new process may hold what its creator holds, of every call.
LEMMA InheritsAdds ==
  ASSUME ChildTypeOK, NEW p \in Everyone, NEW creator,
         NEW held, held = Inherits(p, creator, holders)
  PROVE  /\ held \in [Askers -> SUBSET Everyone]
         /\ \A d \in Askers : /\ holders[d] \subseteq held[d] /\ (holders[d] = {} => held[d] = {})
                              /\ creator \in holders[d] => p \in held[d]
BY DEF Inherits, ChildTypeOK

\* No call has begun.
LEMMA ChildInvInit == InitProcesses => ChildInv
<1> SUFFICES ASSUME InitProcesses PROVE ChildInv
  OBVIOUS
<1>1. ChildTypeOK
  BY DEF InitProcesses, ChildTypeOK, Answer, Unanswered
<1>2. ASSUME NEW c \in Askers PROVE CallInv(c)
  <2>1. asked[c].program \in Programs /\ asked[c].program.chunks \in Nat /\ MaxOutput \in Nat
    BY <1>1, ProgramsArePrograms, RoomIsPositive DEF ChildTypeOK
  <2>2. QED
    BY <2>1 DEF InitProcesses, CallInv, AtMost
<1>3. QED
  BY <1>1, <1>2 DEF ChildInv

\* Steps that concern the reader, the caller or the writing of one call only.
LEMMA OwnStep ==
  ASSUME ChildInv, NEW c \in Askers,
         UNCHANGED <<asked, alive, exitCode>>, ChildTypeOK', CallInv(c)',
         \A d \in Askers \ {c} :
           /\ at'[d] = at[d] /\ written'[d] = written[d] /\ pipe'[d] = pipe[d] /\ output'[d] = output[d]
           /\ reading'[d] = reading[d] /\ answer'[d] = answer[d] /\ holders'[d] = holders[d]
  PROVE  ChildInv'
<1>1. ASSUME NEW d \in Askers, d # c PROVE CallInv(d)'
  BY <1>1, OthersKeepCall DEF ChildInv
<1>2. QED
  BY <1>1 DEF ChildInv

\* The reader takes what is in the pipe until nobody can write to it.
LEMMA ReaderSteps ==
  ASSUME ChildInv, NEW c \in Askers, ReadPipe(c) \/ EndOfPipe(c) \/ Write(c)
  PROVE  ChildInv'
<1> USE DEF ChildInv
<1>0. /\ asked[c].program.chunks \in Nat /\ MaxOutput \in Nat /\ CallInv(c) /\ ChildTypeOK
      /\ written[c] \in Nat /\ pipe[c] \in Nat /\ output[c] \in Nat
  BY ProgramsArePrograms, RoomIsPositive DEF ChildTypeOK
<1>1. CASE ReadPipe(c)
  <2>0. /\ pipe' = [pipe EXCEPT ![c] = @ - 1] /\ pipe[c] > 0 /\ reading[c] /\ pipe[c] - 1 \in Nat
        /\ output' = [output EXCEPT ![c] = IF @ < MaxOutput THEN @ + 1 ELSE @]
        /\ UNCHANGED <<asked, at, holders, alive, exitCode, written, reading, answer>>
    BY <1>0, <1>1 DEF ReadPipe
  <2>1. ChildTypeOK'
    <3>1. pipe \in [Askers -> Nat] /\ output \in [Askers -> Nat] /\ MaxOutput \in Nat
      BY <1>0 DEF ChildTypeOK
    <3>2. pipe' \in [Askers -> Nat] /\ output' \in [Askers -> Nat]
      BY <2>0, <3>1
    <3>3. QED
      BY <1>0, <2>0, <3>2 DEF ChildTypeOK
  <2>2. CallInv(c)'
    <3>1. /\ pipe'[c] = pipe[c] - 1
          /\ output'[c] = IF output[c] < MaxOutput THEN output[c] + 1 ELSE output[c]
      BY <1>0, <2>0 DEF ChildTypeOK
    <3>2. pipe[c] <= written[c] /\ output[c] = AtMost(written[c] - pipe[c])
      BY <1>0 DEF CallInv
    <3>3. output'[c] = AtMost(written[c] - pipe'[c])
      <4>1. PICK w \in Nat, p \in Nat : w = written[c] /\ p = pipe[c]
        BY <1>0
      <4>2. p <= w /\ p > 0
        BY <2>0, <3>2, <4>1
      <4>3. AtMost(w - (p - 1)) = IF AtMost(w - p) < MaxOutput THEN AtMost(w - p) + 1 ELSE AtMost(w - p)
        BY <4>2, AtMostSteps
      <4>4. QED
        BY <3>1, <3>2, <4>1, <4>3
    <3>4. pipe'[c] <= written[c]
      BY <1>0, <2>0, <3>1, <3>2
    <3>5. at[c] \notin {"idle", "piped", "created"}
      BY <1>0, <2>0 DEF CallInv
    <3>6. QED
      BY <1>0, <2>0, <3>3, <3>4, <3>5 DEF CallInv, AnswerWhole, HasLeft
  <2>3. QED
    BY <1>1, <2>1, <2>2, OwnStep DEF ReadPipe, ChildTypeOK
<1>2. CASE EndOfPipe(c)
  <2>1. ChildTypeOK'
    BY <1>0, <1>2 DEF EndOfPipe, ChildTypeOK
  <2>2. CallInv(c)'
    BY <1>0, <1>2 DEF EndOfPipe, ChildTypeOK, CallInv, AtMost, AnswerWhole, HasLeft
  <2>3. QED
    BY <1>2, <2>1, <2>2, OwnStep DEF EndOfPipe, ChildTypeOK
<1>3. CASE Write(c)
  <2>0. /\ Child(c) \in alive /\ written[c] < asked[c].program.chunks
        /\ written' = [written EXCEPT ![c] = @ + 1] /\ pipe' = [pipe EXCEPT ![c] = @ + 1]
        /\ UNCHANGED <<asked, at, holders, alive, exitCode, output, reading, answer>>
    BY <1>3 DEF Write
  <2>1. ChildTypeOK'
    <3>1. pipe \in [Askers -> Nat] /\ written \in [Askers -> Nat]
      BY <1>0 DEF ChildTypeOK
    <3>2. pipe' \in [Askers -> Nat] /\ written' \in [Askers -> Nat]
      BY <2>0, <3>1
    <3>3. QED
      BY <1>0, <2>0, <3>2 DEF ChildTypeOK
  <2>2. CallInv(c)'
    <3>1. /\ pipe'[c] = pipe[c] + 1 /\ written'[c] = written[c] + 1 /\ pipe[c] <= written[c]
          /\ output[c] = AtMost(written[c] - pipe[c])
          /\ Child(c) \in holders[c]
      BY <1>0, <2>0 DEF CallInv, ChildTypeOK
    <3>2. AtMost(written'[c] - pipe'[c]) = AtMost(written[c] - pipe[c])
          /\ AtMost(written[c]) <= AtMost(written'[c]) /\ AtMost(written[c]) \in Nat
          /\ AtMost(written'[c]) \in Nat
      <4>1. PICK w \in Nat, p \in Nat : w = written[c] /\ p = pipe[c]
        BY <1>0
      <4>2. p <= w
        BY <3>1, <4>1
      <4>3. /\ AtMost((w + 1) - (p + 1)) = AtMost(w - p)
            /\ AtMost(w) <= AtMost(w + 1) /\ AtMost(w) \in Nat /\ w + 1 \in Nat
        BY <4>2, AtMostSteps
      <4>4. AtMost(w + 1) \in Nat
        BY <4>3, AtMostSteps
      <4>5. QED
        BY <3>1, <4>1, <4>3, <4>4
    <3>3. answer[c].text \in Nat
      BY <1>0 DEF ChildTypeOK
    <3>4. at[c] \notin {"idle", "piped", "joining", "returned"}
      BY <1>0, <2>0 DEF CallInv, AnswerWhole, HasLeft
    <3>5. answer[c].text <= AtMost(written[c]) => answer[c].text <= AtMost(written'[c])
      BY <3>2, <3>3
    <3>6. /\ written'[c] <= asked[c].program.chunks /\ pipe'[c] <= written'[c]
          /\ output[c] = AtMost(written'[c] - pipe'[c])
      BY <1>0, <2>0, <3>1, <3>2
    <3>7. at[c] \in {"waiting", "timed out", "joining"} => reading[c]
      BY <1>0, <3>1 DEF CallInv
    <3>8. QED
      BY <1>0, <2>0, <3>4, <3>5, <3>6, <3>7 DEF CallInv
  <2>3. QED
    BY <1>3, <2>1, <2>2, OwnStep DEF Write, ChildTypeOK
<1>4. QED
  BY <1>1, <1>2, <1>3

\* The caller waits, gives up, and returns.
LEMMA CallerSteps ==
  ASSUME ChildInv, NEW c \in Askers,
         CreatePipe(c) \/ CloseWriteEnd(c) \/ RunReturns(c) \/ WaitReturns(c) \/ WaitTimesOut(c)
  PROVE  ChildInv'
<1> USE DEF ChildInv
<1>0. /\ asked[c].program.chunks \in Nat /\ MaxOutput \in Nat /\ CallInv(c) /\ ChildTypeOK
      /\ written[c] \in Nat /\ pipe[c] \in Nat /\ output[c] \in Nat
      /\ exitCode[c] \in {"none", "zero", "other", "terminated"}
      /\ asked[c].program.exit \in {"zero", "other", "never"}
  BY ProgramsArePrograms, RoomIsPositive DEF ChildTypeOK
<1>1. CASE CreatePipe(c)
  <2>1. ChildTypeOK'
    BY <1>0, <1>1 DEF CreatePipe, ChildTypeOK, Everyone
  <2>2. CallInv(c)'
    BY <1>0, <1>1 DEF CreatePipe, ChildTypeOK, CallInv, AtMost, AnswerWhole, HasLeft
  <2>3. QED
    BY <1>1, <2>1, <2>2, OwnStep DEF CreatePipe, ChildTypeOK
<1>2. CASE CloseWriteEnd(c)
  <2>1. ChildTypeOK'
    BY <1>0, <1>2 DEF CloseWriteEnd, ChildTypeOK
  <2>2. CallInv(c)'
    BY <1>0, <1>2, ChildrenApart DEF CloseWriteEnd, ChildTypeOK, CallInv, AtMost, AnswerWhole, HasLeft
  <2>3. QED
    BY <1>2, <2>1, <2>2, OwnStep DEF CloseWriteEnd, ChildTypeOK
<1>3. CASE RunReturns(c) \/ WaitReturns(c)
  <2>1. /\ at[c] = "waiting" /\ ~reading[c] /\ HasLeft(Child(c)) /\ Return(c, exitCode[c])
        /\ UNCHANGED <<asked, holders, alive, exitCode, written, pipe, output, reading>>
    BY <1>3 DEF RunReturns, WaitReturns
  <2>2. Answer(exitCode[c], output[c]) \in
          [outcome : {"pending", "not started", "none", "zero", "other", "terminated", "unknown"}, text : Nat]
    BY <1>0 DEF Answer
  <2>3. ChildTypeOK'
    BY <1>0, <2>1, <2>2 DEF Return, ChildTypeOK
  <2>4. answer'[c] = Answer(asked[c].program.exit, AtMost(asked[c].program.chunks))
    <3>1. /\ pipe[c] = 0 /\ exitCode[c] = asked[c].program.exit
          /\ written[c] = asked[c].program.chunks /\ output[c] = AtMost(written[c] - pipe[c])
      BY <1>0, <2>1 DEF CallInv, HasLeft
    <3>2. output[c] = AtMost(asked[c].program.chunks)
      BY <1>0, <3>1, AtMostSteps
    <3>3. QED
      BY <1>0, <2>1, <3>1, <3>2 DEF Return, ChildTypeOK
  <2>5. CallInv(c)'
    BY <1>0, <2>1, <2>4 DEF Return, ChildTypeOK, CallInv, AnswerWhole, HasLeft, Answer
  <2>6. QED
    BY <2>1, <2>3, <2>5, OwnStep DEF Return, ChildTypeOK
<1>4. CASE WaitTimesOut(c)
  <2>1. Answer("unknown", output[c]) \in
          [outcome : {"pending", "not started", "none", "zero", "other", "terminated", "unknown"}, text : Nat]
    BY <1>0 DEF Answer
  <2>2. ChildTypeOK'
    BY <1>0, <1>4, <2>1 DEF WaitTimesOut, ChildTypeOK
  <2>3. answer'[c].outcome = "unknown" /\ answer'[c].text = output[c] /\ output[c] <= AtMost(written[c])
    <3>1. pipe[c] <= written[c] /\ output[c] = AtMost(written[c] - pipe[c])
      BY <1>0 DEF CallInv
    <3>2. output[c] <= AtMost(written[c])
      BY <1>0, <3>1, AtMostSteps
    <3>3. QED
      BY <1>0, <1>4, <3>2 DEF WaitTimesOut, ChildTypeOK, Answer
  <2>4. CallInv(c)'
    BY <1>0, <1>4, <2>3 DEF WaitTimesOut, ChildTypeOK, CallInv, HasLeft
  <2>5. QED
    BY <1>4, <2>2, <2>4, OwnStep DEF WaitTimesOut, ChildTypeOK
<1>5. QED
  BY <1>1, <1>2, <1>3, <1>4

\* The child is created with the handles of its call, and of others.
LEMMA CreateChildStep ==
  ASSUME ChildInv, NEW c \in Askers, CreateChild(c)
  PROVE  ChildInv'
<1> USE DEF ChildInv
<1>0. /\ asked[c].program.chunks \in Nat /\ MaxOutput \in Nat /\ CallInv(c) /\ ChildTypeOK
      /\ Child(c) \in Everyone
  BY ProgramsArePrograms, RoomIsPositive, ChildrenApart DEF ChildTypeOK
<1>1. CASE /\ at' = [at EXCEPT ![c] = "created"]
           /\ alive' = alive \cup {Child(c)}
           /\ holders' = Inherits(Child(c), Server, holders)
           /\ UNCHANGED answer
  <2>1. /\ holders' \in [Askers -> SUBSET Everyone]
        /\ \A d \in Askers : /\ holders[d] \subseteq holders'[d] /\ (holders[d] = {} => holders'[d] = {})
                             /\ Server \in holders[d] => Child(c) \in holders'[d]
    BY <1>0, <1>1, InheritsAdds
  <2>2. ChildTypeOK'
    BY <1>0, <1>1, <2>1 DEF CreateChild, ChildTypeOK
  <2>3. CallInv(c)'
    <3>1. /\ at[c] = "piped" /\ at'[c] = "created" /\ Child(c) \in alive'
          /\ UNCHANGED <<asked, exitCode, written, pipe, output, reading, answer>>
      BY <1>0, <1>1 DEF CreateChild, ChildTypeOK
    <3>2. Server \in holders'[c] /\ Child(c) \in holders'[c]
      BY <1>0, <2>1, <3>1 DEF CallInv
    <3>3. QED
      BY <1>0, <3>1, <3>2 DEF CallInv
  <2>4. ASSUME NEW d \in Askers, d # c PROVE CallInv(d)'
    <3>1. Child(d) \in alive' <=> Child(d) \in alive
      BY <1>1, <2>4, ChildrenApart
    <3>2. /\ at'[d] = at[d]
          /\ UNCHANGED <<asked, exitCode, written, pipe, output, reading, answer>>
      BY <1>0, <1>1, <2>4 DEF CreateChild, ChildTypeOK
    <3>3. QED
      BY <1>0, <2>1, <3>1, <3>2, OthersKeepCall
  <2>5. QED
    BY <2>2, <2>3, <2>4
<1>2. CASE /\ at' = [at EXCEPT ![c] = "returned"]
           /\ holders' = [holders EXCEPT ![c] = {}]
           /\ answer' = [answer EXCEPT ![c] = Answer("not started", 0)]
           /\ UNCHANGED alive
  <2>1. Answer("not started", 0) \in
          [outcome : {"pending", "not started", "none", "zero", "other", "terminated", "unknown"}, text : Nat]
    BY DEF Answer
  <2>2. ChildTypeOK'
    BY <1>0, <1>2, <2>1 DEF CreateChild, ChildTypeOK
  <2>3. answer'[c].outcome = "not started"
    BY <1>2 DEF ChildTypeOK, Answer
  <2>4. CallInv(c)'
    BY <1>0, <1>2, <2>3 DEF CreateChild, CallInv, ChildTypeOK, AnswerWhole, HasLeft
  <2>5. QED
    BY <1>2, <2>2, <2>4, OwnStep DEF CreateChild, ChildTypeOK
<1>3. QED
  BY <1>1, <1>2 DEF CreateChild

\* A child, or what it started, ends, or is ended.
LEMMA EndingSteps ==
  ASSUME ChildInv, NEW c \in Askers, StopAndJoin(c) \/ Exit(c) \/ HelperExits(c)
  PROVE  ChildInv'
<1> USE DEF ChildInv
<1>0. /\ asked[c].program.chunks \in Nat /\ MaxOutput \in Nat /\ CallInv(c) /\ ChildTypeOK
      /\ Child(c) \in Everyone /\ Child(c) # Server /\ Helper(c) \in Everyone /\ Helper(c) # Server
      /\ asked[c].program.exit \in {"zero", "other", "never"}
  BY ProgramsArePrograms, RoomIsPositive, ChildrenApart DEF ChildTypeOK
<1>1. CASE StopAndJoin(c)
  <2>1. CASE /\ at[c] = "timed out" /\ at' = [at EXCEPT ![c] = "joining"]
             /\ IF HasLeft(Child(c)) THEN UNCHANGED <<alive, holders, exitCode>>
                ELSE Ends(Child(c)) /\ exitCode' = [exitCode EXCEPT ![c] = "terminated"]
             /\ UNCHANGED <<asked, written, pipe, output, reading, answer>>
    <3>1. CASE HasLeft(Child(c))
      <4>1. ChildTypeOK'
        BY <1>0, <2>1, <3>1 DEF ChildTypeOK
      <4>2. CallInv(c)'
        BY <1>0, <2>1, <3>1 DEF ChildTypeOK, CallInv, HasLeft
      <4>3. QED
        BY <2>1, <3>1, <4>1, <4>2, OwnStep DEF ChildTypeOK
    <3>2. CASE ~HasLeft(Child(c))
      <4>1. Ends(Child(c))
        BY <2>1, <3>2
      <4>2. /\ holders' \in [Askers -> SUBSET Everyone]
            /\ \A d \in Askers : /\ Server \in holders[d] => Server \in holders'[d]
                                 /\ Child(d) # Child(c) /\ Child(d) \in holders[d] => Child(d) \in holders'[d]
                                 /\ holders[d] = {} => holders'[d] = {}
                                 /\ Child(d) # Child(c) => (Child(d) \in alive' <=> Child(d) \in alive)
            /\ Child(c) \notin alive'
        BY <1>0, <4>1, EndsLeavesOthers
      <4>3. ChildTypeOK'
        BY <1>0, <2>1, <3>2, <4>2 DEF ChildTypeOK
      <4>4. CallInv(c)'
        BY <1>0, <2>1, <4>2 DEF ChildTypeOK, CallInv, HasLeft
      <4>5. ASSUME NEW d \in Askers, d # c PROVE CallInv(d)'
        <5>1. Child(d) # Child(c)
          BY <4>5, ChildrenApart
        <5>2. at'[d] = at[d] /\ exitCode'[d] = exitCode[d]
          BY <1>0, <2>1, <3>2, <4>5 DEF ChildTypeOK
        <5>3. QED
          BY <1>0, <2>1, <4>2, <5>1, <5>2, OthersKeepCall
      <4>6. QED
        BY <4>3, <4>4, <4>5
    <3>3. QED
      BY <3>1, <3>2
  <2>2. CASE /\ at[c] = "joining" /\ ~reading[c] /\ at' = [at EXCEPT ![c] = "returned"]
             /\ UNCHANGED <<asked, holders, alive, exitCode, written, pipe, output, reading, answer>>
    <3>1. ChildTypeOK'
      BY <1>0, <2>2 DEF ChildTypeOK
    <3>2. CallInv(c)'
      BY <1>0, <2>2 DEF ChildTypeOK, CallInv, AnswerWhole, HasLeft
    <3>3. QED
      BY <2>2, <3>1, <3>2, OwnStep DEF ChildTypeOK
  <2>3. QED
    BY <1>1, <2>1, <2>2 DEF StopAndJoin
<1>2. CASE Exit(c)
  <2>1. /\ Child(c) \in alive /\ written[c] = asked[c].program.chunks
        /\ exitCode' = [exitCode EXCEPT ![c] = asked[c].program.exit]
        /\ UNCHANGED <<asked, at, written, pipe, output, reading, answer>>
        /\ asked[c].program.exit # "never"
    BY <1>2 DEF Exit
  <2>2. /\ holders' \in [Askers -> SUBSET Everyone]
        /\ Child(c) \notin alive'
        /\ \A d \in Askers : /\ Server \in holders[d] => Server \in holders'[d]
                             /\ holders[d] = {} => holders'[d] = {}
                             /\ d # c => /\ Child(d) \in holders[d] => Child(d) \in holders'[d]
                                         /\ Child(d) \in alive' <=> Child(d) \in alive
    <3>1. CASE asked[c].program.helper = "none"
      <4>1. Ends(Child(c))
        BY <1>2, <3>1 DEF Exit
      <4>2. QED
        BY <1>0, <4>1, EndsLeavesOthers, ChildrenApart
    <3>2. CASE asked[c].program.helper # "none"
      <4> DEFINE held == Inherits(Helper(c), Child(c), holders)
      <4>1. /\ alive' = (alive \ {Child(c)}) \cup {Helper(c)}
            /\ holders' = [d \in Askers |-> held[d] \ {Child(c)}]
        BY <1>2, <3>2 DEF Exit
      <4>2. /\ held \in [Askers -> SUBSET Everyone]
            /\ \A d \in Askers : holders[d] \subseteq held[d] /\ (holders[d] = {} => held[d] = {})
        BY <1>0, InheritsAdds
      <4> HIDE DEF held
      <4>3. QED
        BY <1>0, <4>1, <4>2, ChildrenApart
    <3>3. QED
      BY <3>1, <3>2
  <2>3. ChildTypeOK'
    BY <1>0, <2>1, <2>2 DEF ChildTypeOK
  <2>4. CallInv(c)'
    <3>1. at[c] \notin {"idle", "piped", "joining", "returned"}
      BY <1>0, <2>1 DEF CallInv, AnswerWhole, HasLeft
    <3>2. QED
      BY <1>0, <2>1, <2>2, <3>1 DEF ChildTypeOK, CallInv
  <2>5. ASSUME NEW d \in Askers, d # c PROVE CallInv(d)'
    BY <1>0, <2>1, <2>2, <2>5, OthersKeepCall DEF ChildTypeOK
  <2>6. QED
    BY <2>3, <2>4, <2>5
<1>3. CASE HelperExits(c)
  <2>1. Ends(Helper(c)) /\ UNCHANGED <<asked, at, exitCode, written, pipe, output, reading, answer>>
    BY <1>3 DEF HelperExits
  <2>2. /\ holders' \in [Askers -> SUBSET Everyone]
        /\ \A d \in Askers : /\ Server \in holders[d] => Server \in holders'[d]
                             /\ Child(d) \in holders[d] => Child(d) \in holders'[d]
                             /\ holders[d] = {} => holders'[d] = {}
                             /\ Child(d) \in alive' <=> Child(d) \in alive
    BY <1>0, <2>1, EndsLeavesOthers, ChildrenApart
  <2>3. ChildTypeOK'
    BY <1>0, <2>1, <2>2 DEF ChildTypeOK
  <2>4. ASSUME NEW d \in Askers PROVE CallInv(d)'
    BY <1>0, <2>1, <2>2, OthersKeepCall DEF ChildTypeOK
  <2>5. QED
    BY <2>3, <2>4
<1>4. QED
  BY <1>1, <1>2, <1>3

\* Every step keeps the invariant.
LEMMA ChildInvNext == ChildInv /\ [NextProcesses]_childVars => ChildInv'
<1> SUFFICES ASSUME ChildInv, [NextProcesses]_childVars PROVE ChildInv'
  OBVIOUS
<1>1. CASE NextProcesses
  BY <1>1, ReaderSteps, CallerSteps, CreateChildStep, EndingSteps DEF NextProcesses, Call
<1>2. CASE UNCHANGED childVars
  BY <1>2 DEF childVars, ChildInv, ChildTypeOK, CallInv, AnswerWhole, HasLeft
<1>3. QED
  BY <1>1, <1>2

\* Whatever the programs do, however little the pipes hold, and whichever
\* handles one call's child inherits from another call: a reported code is the
\* child's own with all of its output, and no child outlives its call.
THEOREM AnswersAreWhole == SpecProcesses => []AnswerIsWhole
<1>1. ChildInv => AnswerIsWhole
  BY DEF ChildInv, CallInv, AnswerWhole, AnswerIsWhole
<1>2. QED
  BY <1>1, ChildInvInit, ChildInvNext, PTL DEF SpecProcesses

-----------------------------------------------------------------------------
(* The indexes. *)

Indexes == 1..6

\* main() has built the index, or has started all over.
Built(n) == main.at = "serving" \/ n < main.n

\* The watcher's thread has still to tell the index about the file.
Unseen(f) == disk[f] # baseline[f] \/ \E e \in events : e.file = f
InHand(f, n) == handling # None /\ handling.event.file = f /\ handling.n <= n
Fresh(f, n) == Built(n) /\ ~Unseen(f) /\ ~InHand(f, n)

\* What an index has of the file is what the file holds.
RowsAre(t, f) ==
  {r \in tables[t] : r.file = f} = IF f \in SourcesNow THEN RowsOf(t, f) ELSE {}
EdgesAre(f) ==
  /\ {e \in edges : e.file = f} = IF f \in SourcesNow THEN EdgesOf(f, known) ELSE {}
  /\ f \in known <=> f \in Existing

TablesFollow ==
  \A n \in Indexes, f \in Files : Order[n] # "includes" /\ Fresh(f, n) => RowsAre(Order[n], f)
EdgesFollow == \A f \in Files : Fresh(f, 2) => EdgesAre(f)

\* Nobody but main() is there before the server is.
OnlyMainBuilds ==
  main.at # "serving" => baseline = disk /\ events = {} /\ handling = None /\ analysis = None

Event(e) == e \in [file : Files, deleted : BOOLEAN] /\ (e.deleted <=> baseline[e.file] = Absent)

IndexTypes ==
  /\ disk \in [Files -> Contents \cup {Absent}] /\ baseline \in [Files -> Contents \cup {Absent}]
  /\ main.at \in {"scan", "read", "serving"}
  /\ main.at # "serving" => main.n \in Nat \ {0}
  /\ main.at = "read" => main.n \in Indexes /\ main.seen = Existing
  /\ DOMAIN tables = Tables
  /\ \A t \in Tables : \A r \in tables[t] : r.file \in Sources
  /\ \A e \in edges : e.file \in Sources /\ e = Edge(e.file, e.include, known)
  /\ known \subseteq Files
  /\ \A e \in events : Event(e)
  /\ handling # None =>
       /\ handling = [event |-> handling.event, n |-> handling.n]
       /\ handling.n \in Indexes /\ Event(handling.event)

IndexInv == IndexTypes /\ OnlyMainBuilds /\ TablesFollow /\ EdgesFollow

\* The list of the indexes names each of them once.
LEMMA OrderIs ==
  /\ Len(Order) = 6 /\ Order[2] = "includes"
  /\ \A n \in Indexes : Order[n] \in Tables \cup {"includes"} /\ (Order[n] = "includes" <=> n = 2)
  /\ \A m, n \in Indexes : Order[m] = Order[n] => m = n
BY DEF Order, Indexes, Tables

\* An edge knows its file and its include.
LEMMA EdgeFields ==
  ASSUME NEW f, NEW i, NEW paths
  PROVE  Edge(f, i, paths).file = f /\ Edge(f, i, paths).include = i
BY DEF Edge

\* A step that leaves the indexes alone and makes no file fresh that was not.
LEMMA StillFollow ==
  ASSUME TablesFollow, EdgesFollow, UNCHANGED indexVars,
         \A f \in Files, n \in Indexes : Fresh(f, n)' => Fresh(f, n) /\ disk'[f] = disk[f]
  PROVE  TablesFollow' /\ EdgesFollow'
<1> USE DEF indexVars
<1>1. ASSUME NEW f \in Files, disk'[f] = disk[f]
      PROVE  /\ (f \in SourcesNow)' <=> f \in SourcesNow
             /\ (f \in Existing)' <=> f \in Existing
             /\ \A t : RowsOf(t, f)' = RowsOf(t, f)
             /\ EdgesOf(f, known)' = EdgesOf(f, known)
  BY <1>1 DEF SourcesNow, Existing, RowsOf, EdgesOf
<1>2. TablesFollow'
  BY <1>1 DEF TablesFollow, RowsAre
<1>3. EdgesFollow'
  BY <1>1 DEF EdgesFollow, EdgesAre, Indexes
<1> QED BY <1>2, <1>3

\* At first main() has built nothing.
LEMMA InitIndexInv == InitIndexes => IndexInv
<1> SUFFICES ASSUME InitIndexes PROVE IndexInv
  OBVIOUS
<1>1. IndexTypes
  BY DisksAreDisks DEF InitIndexes, IndexTypes
<1>2. \A n \in Indexes : ~Built(n)
  BY DEF InitIndexes, Built, Indexes
<1> QED BY <1>1, <1>2, OrderIs DEF InitIndexes, IndexInv, OnlyMainBuilds, TablesFollow, EdgesFollow, Fresh, Indexes

\* An edited file is unseen until the watcher looks again.
LEMMA EditFollows ==
  ASSUME IndexInv, ~Reverts, NEW f \in Files, NEW c \in Contents \cup {Absent}, Edit(f, c)
  PROVE  IndexInv'
<1> USE DEF IndexInv, Edit, indexVars, watchVars
<1>1. \A g \in Files, n \in Indexes : Fresh(g, n)' => Fresh(g, n) /\ disk'[g] = disk[g]
  BY DEF Fresh, Built, Unseen, InHand, IndexTypes
<1>2. IndexTypes'
  <2>1. disk' \in [Files -> Contents \cup {Absent}]
    BY DEF IndexTypes
  <2> QED BY <2>1 DEF IndexTypes, Event
<1> QED BY <1>1, <1>2, StillFollow DEF OnlyMainBuilds

\* A scan lists the files there are.
LEMMA ScanFollows == IndexInv /\ Scan => IndexInv'
<1> SUFFICES ASSUME IndexInv, Scan PROVE IndexInv'
  OBVIOUS
<1> USE DEF IndexInv, Scan, indexVars, watchVars, diskVars
<1>1. \A g \in Files, n \in Indexes : Fresh(g, n)' => Fresh(g, n) /\ disk'[g] = disk[g]
  <2>1. main'.at = "read" /\ main'.n = main.n
    OBVIOUS
  <2>2. \A n : Built(n)' <=> Built(n)
    BY <2>1 DEF Built
  <2>3. \A g, n : (InHand(g, n)' <=> InHand(g, n)) /\ (Unseen(g)' <=> Unseen(g))
    BY DEF InHand, Unseen
  <2> QED BY <2>2, <2>3 DEF Fresh
<1>2. IndexTypes'
  <2>1. main'.n \in Indexes /\ main'.seen = Existing'
    BY OrderIs DEF IndexTypes, Existing, Indexes
  <2> QED BY <2>1 DEF IndexTypes, Event
<1> QED BY <1>1, <1>2, StillFollow DEF OnlyMainBuilds

\* A table that is built has the rows of all source files.
LEMMA BuildTableFollows ==
  ASSUME IndexInv, NEW t \in Tables, BuildTable(t)
  PROVE  IndexInv'
<1> USE DEF IndexInv, BuildTable, watchVars, diskVars, Building
<1>1. main.n \in Indexes /\ main.n # 2 /\ main.n + 1 \in Nat \ {0} /\ main'.at = "scan" /\ main'.n = main.n + 1
  BY OrderIs DEF IndexTypes, Indexes, Tables
<1>2. Readable = SourcesNow
  BY DEF IndexTypes, Readable, SourcesNow
<1>3. DOMAIN tables' = Tables /\ tables'[t] = RowsNow(t) /\ \A u \in Tables \ {t} : tables'[u] = tables[u]
  BY <1>2 DEF IndexTypes, RowsNow
<1>4. \A g \in Files, n \in Indexes : Fresh(g, n)' => n = main.n \/ Fresh(g, n)
  BY <1>1 DEF Fresh, Built, Unseen, InHand, Indexes
<1>5. \A u : \A g \in Files : RowsOf(u, g)' = RowsOf(u, g)
  BY DEF RowsOf
<1>6. SourcesNow' = SourcesNow /\ Existing' = Existing
  BY DEF SourcesNow, Existing
<1>7. ASSUME NEW n \in Indexes, NEW g \in Files, Order[n] # "includes", Fresh(g, n)'
      PROVE  RowsAre(Order[n], g)'
  <2>1. CASE n = main.n
    <3>1. \A r \in RowsNow(t) : r.file \in SourcesNow /\ r \in RowsOf(t, r.file)
      BY DEF RowsNow, RowsOf
    <3>2. g \in SourcesNow => RowsOf(t, g) \subseteq {r \in RowsNow(t) : r.file = g}
      BY DEF RowsNow, RowsOf
    <3>3. {r \in RowsNow(t) : r.file = g} = IF g \in SourcesNow THEN RowsOf(t, g) ELSE {}
      BY <3>1, <3>2
    <3> QED BY <2>1, <3>3, <1>3, <1>5, <1>6 DEF RowsAre
  <2>2. CASE n # main.n
    <3>1. Order[n] \in Tables \ {t} /\ RowsAre(Order[n], g)
      BY <2>2, <1>1, <1>4, <1>7, OrderIs DEF TablesFollow
    <3> QED BY <3>1, <1>3, <1>5, <1>6 DEF RowsAre
  <2> QED BY <2>1, <2>2
<1>8. EdgesFollow'
  <2> SUFFICES ASSUME NEW g \in Files, Fresh(g, 2)' PROVE EdgesAre(g)'
    BY DEF EdgesFollow
  <2>1. EdgesAre(g)
    BY <1>1, <1>4 DEF EdgesFollow, Indexes
  <2> QED BY <2>1, <1>6 DEF EdgesAre, EdgesOf
<1>9. IndexTypes'
  <2>1. \A r \in RowsNow(t) : r.file \in Sources
    BY DEF RowsNow, RowsOf, SourcesNow
  <2>2. \A u \in Tables : \A r \in tables'[u] : r.file \in Sources
    BY <2>1, <1>3 DEF IndexTypes
  <2> QED BY <2>2, <1>1, <1>3, <1>6 DEF IndexTypes, Event
<1> QED BY <1>7, <1>8, <1>9 DEF TablesFollow, OnlyMainBuilds

\* The graph that is built has the includes of all source files, resolved
\* among the files of the scan.
LEMMA BuildIncludesFollows == IndexInv /\ BuildIncludeGraph => IndexInv'
<1> SUFFICES ASSUME IndexInv, BuildIncludeGraph PROVE IndexInv'
  OBVIOUS
<1> USE DEF IndexInv, BuildIncludeGraph, watchVars, diskVars, Building
<1>1. main.n = 2 /\ main'.at = "scan" /\ main'.n = 3
  BY OrderIs DEF IndexTypes
<1>2. Readable = SourcesNow /\ main.seen = Existing
  BY DEF IndexTypes, Readable, SourcesNow
<1>4. \A g \in Files, n \in Indexes : Fresh(g, n)' => n = 2 \/ Fresh(g, n)
  BY <1>1 DEF Fresh, Built, Unseen, InHand, Indexes
<1>5. \A u : \A g \in Files : RowsOf(u, g)' = RowsOf(u, g)
  BY DEF RowsOf
<1>6. SourcesNow' = SourcesNow /\ Existing' = Existing
  BY DEF SourcesNow, Existing
<1>7. TablesFollow'
  BY <1>4, <1>5, <1>6, OrderIs DEF TablesFollow, RowsAre
<1>8. \A g \in Files : EdgesOf(g, known)' = EdgesOf(g, known')
  BY DEF EdgesOf
<1>9. \A e \in edges' : e.file \in SourcesNow /\ e \in EdgesOf(e.file, known') /\ e = Edge(e.file, e.include, known')
  <2> SUFFICES ASSUME NEW e \in edges'
               PROVE  e.file \in SourcesNow /\ e \in EdgesOf(e.file, known') /\ e = Edge(e.file, e.include, known')
    OBVIOUS
  <2>1. PICK g \in SourcesNow : e \in EdgesOf(g, known')
    BY <1>2
  <2>2. PICK i \in Rows[disk[g]].includes : e = Edge(g, i, known')
    BY <2>1 DEF EdgesOf
  <2> QED BY <2>1, <2>2, EdgeFields
<1>10. \A g \in SourcesNow : EdgesOf(g, known') \subseteq {e \in edges' : e.file = g}
  BY <1>2, EdgeFields DEF EdgesOf
<1>11. EdgesFollow'
  BY <1>2, <1>6, <1>8, <1>9, <1>10 DEF EdgesFollow, EdgesAre, SourcesNow
<1>12. IndexTypes'
  <2>1. known' \subseteq Files /\ main'.at = "scan" /\ main'.n \in Nat \ {0}
    BY <1>1, <1>2 DEF Existing
  <2>2. \A e \in edges' : e.file \in Sources /\ e = Edge(e.file, e.include, known)'
    BY <1>9 DEF SourcesNow, Edge
  <2> QED BY <2>1, <2>2, <1>6 DEF IndexTypes, Event
<1> QED BY <1>7, <1>11, <1>12 DEF OnlyMainBuilds

\* When the watcher takes its baseline, all indexes are built.
LEMMA ServeFollows == IndexInv /\ Serve => IndexInv'
<1> SUFFICES ASSUME IndexInv, Serve PROVE IndexInv'
  OBVIOUS
<1> USE DEF IndexInv, Serve, indexVars, diskVars
<1>1. \A g \in Files, n \in Indexes : Fresh(g, n)' => Fresh(g, n) /\ disk'[g] = disk[g]
  BY OrderIs DEF Fresh, Built, Unseen, InHand, Indexes, OnlyMainBuilds, IndexTypes
<1>2. IndexTypes'
  BY DEF IndexTypes, Event, OnlyMainBuilds
<1> QED BY <1>1, <1>2, StillFollow DEF OnlyMainBuilds

\* A poll makes an event of every file that differs from the baseline.
LEMMA PollFollows == IndexInv /\ Poll => IndexInv'
<1> SUFFICES ASSUME IndexInv, Poll PROVE IndexInv'
  OBVIOUS
<1> USE DEF IndexInv, Poll, indexVars, diskVars
<1>1. \A g \in Files : disk[g] # baseline[g] => [file |-> g, deleted |-> disk[g] = Absent] \in events'
  BY DEF IndexTypes
<1>2. \A g \in Files, n \in Indexes : Fresh(g, n)' => Fresh(g, n) /\ disk'[g] = disk[g]
  <2> SUFFICES ASSUME NEW g \in Files, NEW n \in Indexes, Fresh(g, n)' PROVE Fresh(g, n)
    OBVIOUS
  <2>1. disk[g] = baseline[g]
    BY <1>1 DEF Fresh, Unseen
  <2>2. ~Unseen(g) /\ ~InHand(g, n)
    BY <2>1 DEF Unseen, InHand
  <2> QED BY <2>2 DEF Fresh, Built
<1>3. ASSUME NEW e \in events' PROVE Event(e)'
  <2>1. PICK g \in Files : e = [file |-> g, deleted |-> disk[g] = Absent]
    OBVIOUS
  <2> QED BY <2>1 DEF Event
<1>4. IndexTypes'
  BY <1>3 DEF IndexTypes
<1> QED BY <1>2, <1>4, StillFollow DEF OnlyMainBuilds

\* A task in hand is not None.
LEMMA TaskIsThere ==
  ASSUME NEW e, Event(e), NEW n \in Nat
  PROVE  [event |-> e, n |-> n] # None
BY NoneIsNoTask DEF Event

\* The file of the event in hand is not fresh in any index yet.
LEMMA TakeEventFollows ==
  ASSUME IndexInv, NEW e \in events, TakeEvent(e)
  PROVE  IndexInv'
<1> USE DEF IndexInv, TakeEvent, indexVars, diskVars
<1>0. handling' # None /\ handling'.event = e /\ handling'.n = 1
  BY TaskIsThere DEF IndexTypes
<1>2. \A g \in Files, n \in Indexes : Fresh(g, n)' => Fresh(g, n) /\ disk'[g] = disk[g]
  <2> SUFFICES ASSUME NEW g \in Files, NEW n \in Indexes, Fresh(g, n)' PROVE Fresh(g, n)
    OBVIOUS
  <2>1. g # e.file
    BY <1>0 DEF Fresh, InHand, Indexes
  <2>2. ~Unseen(g) /\ ~InHand(g, n)
    BY <2>1 DEF Fresh, Unseen, InHand
  <2> QED BY <2>2 DEF Fresh, Built
<1>4. IndexTypes'
  <2>1. Event(e)' /\ \A d \in events' : Event(d)'
    BY DEF IndexTypes, Event
  <2>2. handling'.n \in Indexes
    BY <1>0 DEF Indexes
  <2> QED BY <1>0, <2>1, <2>2 DEF IndexTypes, Existing
<1> QED BY <1>2, <1>4, StillFollow DEF OnlyMainBuilds

\* What the update of a table makes of the rows of the file in hand; other
\* files keep theirs.
LEMMA UpdateFileIs ==
  ASSUME NEW t \in Tables, NEW f \in Files
  PROVE  /\ UpdateFile(t, f) = UpdateTable(t, f)
         /\ RemoveFile(t, f) = WithoutFile(tables[t], f)
BY Zenon DEF UpdateFile, RemoveFile, Tables, SymbolIndexUpdateFile, CallGraphUpdateFile, InheritanceGraphUpdateFile,
       ReferenceGraphUpdateFile, AstIndexUpdateFile, SymbolIndexRemoveFile, CallGraphRemoveFile,
       InheritanceGraphRemoveFile, ReferenceGraphRemoveFile, AstIndexRemoveFile

\* A file that is in hand and has not changed since is deleted exactly if the
\* event says so.
LEMMA DeletedIsGone ==
  ASSUME IndexTypes, handling # None, disk[handling.event.file] = baseline[handling.event.file]
  PROVE  handling.event.deleted <=> handling.event.file \notin Existing
BY DEF IndexTypes, Event, Existing

\* The next index takes the file in hand as it is on disk; where that is no
\* longer what the watcher saw, the file is unseen.
LEMMA ApplyFollows == IndexInv /\ Apply => IndexInv'
<1> SUFFICES ASSUME IndexInv, Apply PROVE IndexInv'
  OBVIOUS
<1> USE DEF IndexInv, diskVars
<1> DEFINE k == handling.n
           f == handling.event.file
           gone == handling.event.deleted
<1>0. /\ handling # None /\ k \in Indexes /\ f \in Files /\ Event(handling.event)
      /\ UNCHANGED <<disk, edits, main, baseline, events>>
      /\ handling' # None => handling'.event = handling.event /\ handling'.n = k + 1
      /\ handling' = None => k = 6
      /\ handling' # None => k # 6 /\ handling' = [event |-> handling'.event, n |-> handling'.n]
  <2>1. handling # None /\ k \in Indexes /\ Event(handling.event)
    BY DEF Apply, IndexTypes
  <2>2. handling' = IF k = 6 THEN None ELSE [handling EXCEPT !.n = k + 1]
    BY OrderIs DEF Apply
  <2>3. k # 6 => handling' = [event |-> handling.event, n |-> k + 1]
    BY <2>1, <2>2 DEF IndexTypes
  <2>4. k # 6 => handling'.event = handling.event /\ handling'.n = k + 1
    BY <2>3
  <2>5. k # 6 => handling' # None
    BY <2>1, <2>3, TaskIsThere DEF Indexes
  <2>6. UNCHANGED <<disk, edits, main, baseline, events>>
    BY DEF Apply
  <2> QED BY <2>1, <2>2, <2>3, <2>4, <2>5, <2>6 DEF Event
<1>1. main.at = "serving"
  BY <1>0 DEF OnlyMainBuilds
<1>2. ASSUME NEW g \in Files, NEW n \in Indexes, Fresh(g, n)'
      PROVE  /\ g # f \/ n < k => Fresh(g, n)
             /\ g = f => n <= k /\ disk[f] = baseline[f]
  BY <1>0, <1>2 DEF Fresh, Built, Unseen, InHand, Indexes
<1>3. SourcesNow' = SourcesNow /\ Existing' = Existing /\ \A u : \A g \in Files : RowsOf(u, g)' = RowsOf(u, g)
  BY <1>0 DEF SourcesNow, Existing, RowsOf
<1>4. CASE Order[k] # "includes"
  <2> DEFINE t == Order[k]
  <2>1. t \in Tables /\ UNCHANGED <<edges, known>>
    BY <1>0, <1>4, OrderIs DEF Apply
  <2>2. DOMAIN tables' = Tables /\ \A u \in Tables \ {t} : tables'[u] = tables[u]
    BY <1>4 DEF Apply, IndexTypes
  <2>3. tables'[t] = IF gone THEN WithoutFile(tables[t], f) ELSE UpdateTable(t, f)
    <3>1. tables'[t] = IF gone THEN RemoveFile(t, f) ELSE UpdateFile(t, f)
      BY <2>1, <1>4 DEF Apply, IndexTypes
    <3> QED BY <3>1, <1>0, <2>1, UpdateFileIs
  <2>4. \A r \in RowsOf(t, f) : r.file = f
    BY DEF RowsOf
  <2>5. ASSUME NEW g \in Files, g # f
        PROVE  {r \in tables'[t] : r.file = g} = {r \in tables[t] : r.file = g}
    BY <2>3, <2>4, <2>5 DEF WithoutFile, UpdateTable
  <2>6. ASSUME NEW n \in Indexes, NEW g \in Files, Order[n] # "includes", Fresh(g, n)'
        PROVE  RowsAre(Order[n], g)'
    <3>1. CASE n # k
      <4>1. Order[n] \in Tables \ {t} /\ RowsAre(Order[n], g)
        BY <3>1, <1>0, <1>2, <2>6, OrderIs DEF TablesFollow, Indexes
      <4> QED BY <4>1, <2>2, <1>3 DEF RowsAre
    <3>2. CASE n = k /\ g # f
      <4>1. RowsAre(t, g)
        BY <3>2, <1>2, <2>6, <1>4 DEF TablesFollow
      <4> QED BY <3>2, <4>1, <2>5, <1>3 DEF RowsAre
    <3>3. CASE n = k /\ g = f
      <4>1. gone <=> f \notin Existing
        BY <3>3, <1>0, <1>2, <2>6, DeletedIsGone
      <4>2. CASE f \in SourcesNow
        BY <3>3, <4>1, <4>2, <2>3, <2>4, <1>3 DEF RowsAre, UpdateTable, WithoutFile, SourcesNow
      <4>3. CASE f \notin Sources
        BY <3>3, <4>3, <2>1, <2>3, <1>3 DEF RowsAre, UpdateTable, WithoutFile, SourcesNow, IndexTypes
      <4>4. CASE f \notin Existing
        BY <3>3, <4>1, <4>4, <2>3, <1>3 DEF RowsAre, WithoutFile, SourcesNow
      <4> QED BY <4>2, <4>3, <4>4 DEF SourcesNow
    <3> QED BY <3>1, <3>2, <3>3
  <2>7. EdgesFollow'
    <3> SUFFICES ASSUME NEW g \in Files, Fresh(g, 2)' PROVE EdgesAre(g)'
      BY DEF EdgesFollow
    <3>1. 2 \in Indexes /\ k # 2
      BY <1>0, <1>4, OrderIs DEF Indexes
    <3>2. Fresh(g, 2) \/ (g = f /\ 2 < k)
      BY <3>1, <1>0, <1>2 DEF Indexes
    <3>3. EdgesAre(g)
      BY <3>1, <3>2, <1>2 DEF EdgesFollow
    <3> QED BY <3>3, <2>1, <1>0, <1>3 DEF EdgesAre, EdgesOf
  <2>8. IndexTypes'
    <3>1. \A r \in tables'[t] : r.file \in Sources
      BY <2>1, <2>3, <2>4 DEF IndexTypes, WithoutFile, UpdateTable
    <3>2. \A u \in Tables : \A r \in tables'[u] : r.file \in Sources
      BY <3>1, <2>2 DEF IndexTypes
    <3> QED BY <3>2, <2>1, <2>2, <1>0, <1>3 DEF IndexTypes, Event, Indexes
  <2> QED BY <2>6, <2>7, <2>8, <1>0, <1>1 DEF TablesFollow, OnlyMainBuilds
<1>5. CASE Order[k] = "includes"
  <2>1. k = 2 /\ UNCHANGED tables /\ (IF gone THEN RemoveIncludes(f) ELSE UpdateIncludes(f))
    BY <1>0, <1>5, OrderIs DEF Apply
  <2>2. TablesFollow'
    <3> SUFFICES ASSUME NEW n \in Indexes, NEW g \in Files, Order[n] # "includes", Fresh(g, n)'
                 PROVE  RowsAre(Order[n], g)'
      BY DEF TablesFollow
    <3>1. RowsAre(Order[n], g)
      BY <1>0, <1>2, <2>1, OrderIs DEF TablesFollow, Indexes
    <3> QED BY <3>1, <2>1, <1>3 DEF RowsAre
  <2> DEFINE own == IF f \in Sources THEN EdgesOf(f, known) ELSE {}
             base == IF gone THEN WithoutFile(edges, f)
                     ELSE (IF f \in Sources THEN WithoutFile(edges, f) ELSE edges) \cup own
  <2>3. CASE ~gone /\ f \in Sources \ Existing
    <3>1. UNCHANGED indexVars
      BY <2>1, <2>3 DEF UpdateIncludes, indexVars
    <3>2. \A g \in Files, n \in Indexes : Fresh(g, n)' => Fresh(g, n) /\ disk'[g] = disk[g]
      <4> SUFFICES ASSUME NEW g \in Files, NEW n \in Indexes, Fresh(g, n)' PROVE Fresh(g, n)
        BY <1>0
      <4>1. g # f
        BY <1>0, <1>2, <2>3, DeletedIsGone
      <4> QED BY <4>1, <1>2
    <3>3. IndexTypes'
      BY <3>1, <1>0, <1>3 DEF IndexTypes, Event, Indexes, indexVars
    <3> QED BY <3>1, <3>2, <3>3, StillFollow, <1>0, <1>1 DEF OnlyMainBuilds
  <2>4. CASE ~(~gone /\ f \in Sources \ Existing)
    <3>1. /\ edges' = ReResolveAllEdges(base, known')
          /\ known' = IF gone THEN known \ {f} ELSE known \cup {f}
      BY <2>1, <2>4 DEF UpdateIncludes, RemoveIncludes
    <3>2. \A e \in base : e.file \in Sources
      BY EdgeFields DEF IndexTypes, WithoutFile, EdgesOf
    <3>3. \A e \in edges' : e.file \in Sources /\ e = Edge(e.file, e.include, known')
      <4> SUFFICES ASSUME NEW e \in edges'
                   PROVE  e.file \in Sources /\ e = Edge(e.file, e.include, known')
        OBVIOUS
      <4>1. PICK d \in base : e = Edge(d.file, d.include, known')
        BY <3>1 DEF ReResolveAllEdges
      <4> QED BY <4>1, <3>2, EdgeFields
    <3>4. ASSUME NEW g \in Files
          PROVE  {e \in edges' : e.file = g} =
                   {Edge(g, i, known') : i \in {e.include : e \in {d \in base : d.file = g}}}
      <4> DEFINE new == {Edge(g, i, known') : i \in {e.include : e \in {d \in base : d.file = g}}}
      <4>1. ASSUME NEW e \in edges', e.file = g PROVE e \in new
        <5>1. PICK d \in base : e = Edge(d.file, d.include, known')
          BY <3>1 DEF ReResolveAllEdges
        <5>2. d.file = g
          BY <5>1, <4>1, EdgeFields
        <5> QED BY <5>1, <5>2
      <4>2. ASSUME NEW e \in new PROVE e \in edges' /\ e.file = g
        <5>1. PICK d \in base : d.file = g /\ e = Edge(g, d.include, known')
          OBVIOUS
        <5> QED BY <5>1, <3>1, EdgeFields DEF ReResolveAllEdges
      <4> QED BY <4>1, <4>2
    <3>5. \A g \in Files : EdgesOf(g, known)' = {Edge(g, i, known') : i \in Rows[disk[g]].includes}
      BY <1>0 DEF EdgesOf
    <3>6. ASSUME NEW g \in Files, Fresh(g, 2)' PROVE EdgesAre(g)'
      <4>1. CASE g # f
        <5>1. EdgesAre(g)
          BY <4>1, <3>6, <1>2 DEF EdgesFollow, Indexes
        <5>2. {d \in base : d.file = g} = {d \in edges : d.file = g}
          BY <4>1, EdgeFields DEF WithoutFile, EdgesOf
        <5>3. {e.include : e \in {d \in base : d.file = g}} = IF g \in SourcesNow THEN Rows[disk[g]].includes ELSE {}
          BY <5>1, <5>2, EdgeFields DEF EdgesAre, EdgesOf
        <5> QED BY <5>1, <5>3, <4>1, <3>1, <3>4, <3>5, <1>3 DEF EdgesAre
      <4>2. CASE g = f
        <5>1. gone <=> f \notin Existing
          BY <4>2, <1>0, <1>2, <3>6, DeletedIsGone DEF Indexes
        <5>2. {e.include : e \in {d \in base : d.file = f}} = IF f \in SourcesNow THEN Rows[disk[f]].includes ELSE {}
          <6>1. CASE f \in SourcesNow
            <7>1. ~gone /\ f \in Sources
              BY <5>1, <6>1 DEF SourcesNow
            <7>2. {d \in base : d.file = f} = EdgesOf(f, known)
              BY <7>1, EdgeFields DEF WithoutFile, EdgesOf
            <7> QED BY <6>1, <7>2, EdgeFields DEF EdgesOf
          <6>2. CASE f \notin SourcesNow
            <7>1. {d \in base : d.file = f} = {}
              BY <5>1, <6>2, <2>4 DEF WithoutFile, SourcesNow, IndexTypes
            <7> QED BY <6>2, <7>1
          <6> QED BY <6>1, <6>2
        <5>3. f \in known' <=> f \in Existing
          BY <5>1, <3>1
        <5> QED BY <5>2, <5>3, <4>2, <3>4, <3>5, <1>3 DEF EdgesAre
      <4> QED BY <4>1, <4>2
    <3>7. IndexTypes'
      <4>1. known' \subseteq Files
        BY <3>1, <1>0 DEF IndexTypes
      <4> QED BY <4>1, <3>3, <2>1, <1>0, <1>3 DEF IndexTypes, Event, Indexes
    <3> QED BY <3>6, <3>7, <2>2, <1>0, <1>1 DEF EdgesFollow, OnlyMainBuilds
  <2> QED BY <2>3, <2>4
<1> QED BY <1>4, <1>5

\* No step breaks what the indexes have of the files, but for a file that gets
\* back what the watcher saw last.
LEMMA NextIndexInv ==
  ASSUME IndexInv, ~Reverts, [NextIndexes]_codeVars
  PROVE  IndexInv'
<1>1. CASE \E f \in Files, c \in Contents \cup {Absent} : Edit(f, c)
  BY <1>1, EditFollows
<1>2. CASE Build
  BY <1>2, ScanFollows, BuildTableFollows, BuildIncludesFollows, ServeFollows
     DEF Build, BuildSymbolIndex, BuildCallGraph, BuildInheritanceGraph, BuildReferenceGraph, BuildAstIndex, Tables
<1>3. CASE Watch
  BY <1>3, PollFollows, TakeEventFollows, ApplyFollows DEF Watch
<1>4. ASSUME UNCHANGED <<diskVars, main, indexVars, watchVars>>, main.at = "serving" \/ analysis' = analysis
      PROVE  IndexInv'
  <2> USE <1>4 DEF diskVars, indexVars, watchVars, IndexInv
  <2>1. \A f \in Files, n \in Indexes : Fresh(f, n)' => Fresh(f, n) /\ disk'[f] = disk[f]
    BY DEF Fresh, Built, Unseen, InHand
  <2>2. IndexTypes'
    BY DEF IndexTypes, Event, Existing
  <2> QED BY <2>1, <2>2, StillFollow DEF OnlyMainBuilds
<1>5. CASE \/ \E f \in Files : AskFile(f)
           \/ \E d \in Diffs : AskChanges(d)
  BY <1>4, <1>5 DEF AskFile, AskChanges
<1>6. CASE Analyze
  <2>1. analysis # None /\ UNCHANGED <<diskVars, main, indexVars, watchVars>>
    BY <1>6 DEF Analyze, CollectIncluders, NextFrontier, SelectSymbols, FindCallers, Reply
  <2>2. main.at = "serving"
    BY <2>1 DEF IndexInv, OnlyMainBuilds
  <2> QED BY <1>4, <2>1, <2>2
<1>7. CASE UNCHANGED codeVars
  BY <1>4, <1>7 DEF codeVars
<1> QED BY <1>1, <1>2, <1>3, <1>5, <1>6, <1>7 DEF NextIndexes

-----------------------------------------------------------------------------
(* What the server answers from them. *)

\* Among any paths there is a shortest one.
LEMMA ShortestExists ==
  ASSUME NEW paths \in SUBSET Files, paths # {}
  PROVE  \E p \in paths : \A q \in paths : Longer[p] <= Longer[q]
<1> DEFINE lengths == {Longer[p] : p \in paths}
<1>1. lengths \subseteq Nat /\ lengths # {}
  BY FilesAreOrdered
<1> DEFINE less == {ss \in Nat \X Nat : ss[1] < ss[2]}
<1>2. IsWellFoundedOn(less, Nat)
  BY NatLessThanWellFounded DEF OpToRel
<1> HIDE DEF less
<1>3. PICK n \in lengths : \A m \in lengths : <<m, n>> \notin less
  BY <1>1, <1>2, WFMin
<1>4. \A m \in lengths : ~(m < n)
  BY <1>1, <1>3 DEF less
<1>5. PICK p \in paths : n = Longer[p]
  OBVIOUS
<1>6. \A q \in paths : Longer[q] \in lengths /\ Longer[q] \in Nat /\ ~(Longer[q] < Longer[p])
  BY <1>1, <1>4, <1>5
<1> QED BY <1>5, <1>6

\* An include resolves to the shortest of the paths that end with its text.
LEMMA ResolveIs ==
  ASSUME NEW g, NEW include, NEW paths \in SUBSET Files, NEW f \in Files
  PROVE  Edge(g, include, paths).path = f <=>
           /\ ~include.system /\ f \in paths /\ EndsWithPathSegment(f, include.text)
           /\ \A q \in paths : EndsWithPathSegment(q, include.text) => Longer[f] <= Longer[q]
<1> DEFINE fits == {p \in paths : EndsWithPathSegment(p, include.text)}
           Shortest(p) == \A q \in fits : Longer[p] <= Longer[q]
<1>1. f # None
  BY FilesAreOrdered
<1>2. CASE include.system
  BY <1>1, <1>2 DEF Edge
<1>3. CASE ~include.system /\ fits = {}
  BY <1>1, <1>3 DEF Edge, ResolveInclude
<1>4. CASE ~include.system /\ fits # {}
  <2>1. Edge(g, include, paths).path = CHOOSE p \in fits : Shortest(p)
    BY <1>4 DEF Edge, ResolveInclude
  <2>2. \E p \in fits : Shortest(p)
    BY <1>4, ShortestExists
  <2>3. \A p, q \in fits : Shortest(p) /\ Shortest(q) => p = q
    BY FilesAreOrdered
  <2> HIDE DEF Shortest
  <2>4. (CHOOSE p \in fits : Shortest(p)) = f <=> f \in fits /\ Shortest(f)
    BY <2>2, <2>3
  <2> QED BY <1>4, <2>1, <2>4 DEF Shortest
<1> QED BY <1>2, <1>3, <1>4

\* Once the watcher has told everything, the tables are the rows of the files
\* and the edges their includes, resolved among the files there are.
LEMMA AllFresh ==
  ASSUME IndexInv, UpToDate
  PROVE  /\ \A t \in Tables : tables[t] = RowsNow(t)
         /\ known = Existing
         /\ edges = UNION {EdgesOf(f, Existing) : f \in SourcesNow}
<1> USE DEF IndexInv
<1>1. \A f \in Files, n \in Indexes : Fresh(f, n)
  BY DEF UpToDate, Fresh, Built, Unseen, InHand
<1>2. ASSUME NEW t \in Tables PROVE tables[t] = RowsNow(t)
  <2>1. PICK n \in Indexes : Order[n] = t /\ t # "includes"
    <3>1. /\ Order[1] = "symbols" /\ Order[3] = "calls" /\ Order[4] = "bases"
          /\ Order[5] = "references" /\ Order[6] = "trees"
      BY DEF Order
    <3> QED BY <3>1 DEF Tables, Indexes
  <2>2. \A f \in Files : RowsAre(t, f)
    BY <1>1, <2>1 DEF TablesFollow
  <2>3. \A r \in tables[t] : r.file \in Files
    BY FilesAreOrdered DEF IndexTypes
  <2>4. \A f, r : r \in RowsOf(t, f) => r.file = f
    BY DEF RowsOf
  <2>5. ASSUME NEW r \in tables[t] PROVE r \in RowsNow(t)
    BY <2>2, <2>3 DEF RowsAre, RowsNow
  <2>6. ASSUME NEW r \in RowsNow(t) PROVE r \in tables[t]
    <3>1. PICK f \in SourcesNow : r \in RowsOf(t, f)
      BY DEF RowsNow
    <3> QED BY <3>1, <2>2 DEF RowsAre, SourcesNow, Existing
  <2> QED BY <2>5, <2>6
<1>3. \A f \in Files : EdgesAre(f)
  BY <1>1 DEF EdgesFollow, Indexes
<1>4. known = Existing
  BY <1>3 DEF EdgesAre, IndexTypes, Existing
<1>5. edges = UNION {EdgesOf(f, Existing) : f \in SourcesNow}
  <2>1. \A e \in edges : e.file \in Files
    BY FilesAreOrdered DEF IndexTypes
  <2>2. \A f : \A e \in EdgesOf(f, Existing) : e.file = f
    BY EdgeFields DEF EdgesOf
  <2> QED BY <2>1, <2>2, <1>3, <1>4 DEF EdgesAre, SourcesNow, Existing
<1> QED BY <1>2, <1>4, <1>5

\* Queries of tables and edges that are those of the disk answer as the disk.
LEMMA FreshAnswers == IndexInv => AnswersFollowDisk
<1> SUFFICES ASSUME IndexInv, UpToDate PROVE
      /\ \A n \in SymbolNames :
           /\ GetSymbols(n) = {r \in RowsNow("symbols") : r.row.name = n}
           /\ GetCalls(None, n) = {r \in RowsNow("calls") : r.row.callee = n \/ <<Last(r.row.callee)>> = n}
           /\ GetCalls(n, None) = {r \in RowsNow("calls") : r.row.caller = n}
           /\ GetInheritance(n, None) = {r \in RowsNow("bases") : r.row.derived = n}
           /\ GetInheritance(None, n) = {r \in RowsNow("bases") : r.row.base = n}
           /\ GetReferences(n) = {r \in RowsNow("references") : r.row.type = n}
      /\ \A f \in Files :
           /\ Includes(f) = {g \in Existing : f \in SourcesNow /\ \E i \in Rows[disk[f]].includes : ResolvesTo(i, g)}
           /\ {e.file : e \in GetIncludes(None, f)} =
                {g \in SourcesNow : \E i \in Rows[disk[g]].includes : ResolvesTo(i, f)}
           /\ GetAst(f) = IF f \in SourcesNow THEN RowsOf("trees", f) ELSE None
  BY DEF AnswersFollowDisk
<1>1. /\ tables.symbols = RowsNow("symbols") /\ tables.calls = RowsNow("calls")
      /\ tables.bases = RowsNow("bases") /\ tables.references = RowsNow("references")
      /\ tables.trees = RowsNow("trees")
  BY AllFresh DEF Tables
<1>2. ASSUME NEW n \in SymbolNames
      PROVE  /\ GetSymbols(n) = {r \in RowsNow("symbols") : r.row.name = n}
             /\ GetCalls(None, n) = {r \in RowsNow("calls") : r.row.callee = n \/ <<Last(r.row.callee)>> = n}
             /\ GetCalls(n, None) = {r \in RowsNow("calls") : r.row.caller = n}
             /\ GetInheritance(n, None) = {r \in RowsNow("bases") : r.row.derived = n}
             /\ GetInheritance(None, n) = {r \in RowsNow("bases") : r.row.base = n}
             /\ GetReferences(n) = {r \in RowsNow("references") : r.row.type = n}
  <2>1. n # None
    BY ContentsHaveRows DEF SymbolNames
  <2> QED BY <2>1, <1>1 DEF GetSymbols, FindByName, GetCalls, Callees, Callers, TrailingIdentifier,
                            GetInheritance, Bases, Derived, GetReferences, References
<1>3. ASSUME NEW g \in SourcesNow, NEW i, NEW f \in Files
      PROVE  Edge(g, i, Existing).path = f <=> ResolvesTo(i, f)
  <2>1. Existing \in SUBSET Files
    BY DEF Existing
  <2> QED BY <2>1, ResolveIs DEF ResolvesTo
<1>4. \A g, e : g \in SourcesNow /\ e \in EdgesOf(g, Existing) <=> e \in edges /\ e.file = g
  BY AllFresh, EdgeFields DEF EdgesOf
<1>5. ASSUME NEW e \in edges
      PROVE  e.path = None \/ e.path \in Existing
  <2>1. PICK g \in SourcesNow : \E i : e = Edge(g, i, Existing)
    BY AllFresh DEF EdgesOf
  <2>2. PICK i : e = Edge(g, i, Existing)
    BY <2>1
  <2>5. Existing \in SUBSET Files
    BY DEF Existing
  <2> DEFINE fits == {p \in Existing : EndsWithPathSegment(p, i.text)}
  <2>3. CASE i.system \/ fits = {}
    BY <2>2, <2>3 DEF Edge, ResolveInclude
  <2>4. CASE ~i.system /\ fits # {}
    <3>1. \E p \in fits : \A q \in fits : Longer[p] <= Longer[q]
      BY <2>4, <2>5, ShortestExists
    <3>2. e.path = CHOOSE p \in fits : \A q \in fits : Longer[p] <= Longer[q]
      BY <2>2, <2>4 DEF Edge, ResolveInclude
    <3> QED BY <3>1, <3>2
  <2> QED BY <2>3, <2>4
<1>6. ASSUME NEW f \in Files
      PROVE  /\ Includes(f) = {g \in Existing : f \in SourcesNow /\ \E i \in Rows[disk[f]].includes : ResolvesTo(i, g)}
             /\ {e.file : e \in GetIncludes(None, f)} =
                  {g \in SourcesNow : \E i \in Rows[disk[g]].includes : ResolvesTo(i, f)}
             /\ GetAst(f) = IF f \in SourcesNow THEN RowsOf("trees", f) ELSE None
  <2>0. f # None /\ Existing \subseteq Files /\ None \notin Existing
    BY FilesAreOrdered DEF Existing
  <2>1. ASSUME NEW g \in Includes(f)
        PROVE  g \in Existing /\ f \in SourcesNow /\ \E i \in Rows[disk[f]].includes : ResolvesTo(i, g)
    <3>1. PICK e \in edges : e.file = f /\ e.path # None /\ e.path = g
      BY <2>1 DEF Includes
    <3>2. g \in Existing /\ f \in SourcesNow
      BY <3>1, <1>4, <1>5
    <3>3. PICK i \in Rows[disk[f]].includes : e = Edge(f, i, Existing)
      BY <3>1, <1>4 DEF EdgesOf
    <3> QED BY <3>1, <3>2, <3>3, <1>3, <2>0
  <2>2. ASSUME NEW g \in Existing, f \in SourcesNow, NEW i \in Rows[disk[f]].includes, ResolvesTo(i, g)
        PROVE  g \in Includes(f)
    <3> DEFINE e == Edge(f, i, Existing)
    <3>1. e \in EdgesOf(f, Existing)
      BY DEF EdgesOf
    <3>2. e \in edges /\ e.file = f /\ e.path = g
      BY <3>1, <2>2, <1>3, <1>4, <2>0
    <3> HIDE DEF e
    <3> QED BY <3>2, <2>0 DEF Includes
  <2>3. Includes(f) = {g \in Existing : f \in SourcesNow /\ \E i \in Rows[disk[f]].includes : ResolvesTo(i, g)}
    BY <2>1, <2>2
  <2>4. GetIncludes(None, f) = {e \in edges : e.path = f}
    BY <2>0 DEF GetIncludes
  <2>5. ASSUME NEW e \in edges, e.path = f
        PROVE  e.file \in SourcesNow /\ \E i \in Rows[disk[e.file]].includes : ResolvesTo(i, f)
    <3>1. e.file \in SourcesNow /\ e \in EdgesOf(e.file, Existing)
      BY <1>4
    <3>2. PICK i \in Rows[disk[e.file]].includes : e = Edge(e.file, i, Existing)
      BY <3>1 DEF EdgesOf
    <3> QED BY <3>1, <3>2, <2>5, <1>3
  <2>6. ASSUME NEW g \in SourcesNow, NEW i \in Rows[disk[g]].includes, ResolvesTo(i, f)
        PROVE  \E e \in edges : e.path = f /\ e.file = g
    <3> DEFINE e == Edge(g, i, Existing)
    <3>1. e \in EdgesOf(g, Existing)
      BY DEF EdgesOf
    <3> QED BY <3>1, <2>6, <1>3, <1>4
  <2>7. {e.file : e \in GetIncludes(None, f)} =
          {g \in SourcesNow : \E i \in Rows[disk[g]].includes : ResolvesTo(i, f)}
    BY <2>4, <2>5, <2>6
  <2>8. Tree(f) = IF f \in SourcesNow THEN RowsOf("trees", f) ELSE {}
    <3>1. \A g, r : r \in RowsOf("trees", g) => r.file = g
      BY DEF RowsOf
    <3> QED BY <3>1, <1>1 DEF Tree, RowsNow
  <2>9. f \in SourcesNow => RowsOf("trees", f) # {}
    <3> SUFFICES ASSUME f \in SourcesNow PROVE RowsOf("trees", f) # {}
      OBVIOUS
    <3>1. disk[f] \in Contents
      BY DEF IndexInv, IndexTypes, SourcesNow, Existing
    <3>2. PICK r : r \in Rows[disk[f]].trees
      BY <3>1, ContentsHaveRows
    <3> QED BY <3>2 DEF RowsOf
  <2>10. GetAst(f) = IF f \in SourcesNow THEN RowsOf("trees", f) ELSE None
    BY <2>8, <2>9 DEF GetAst
  <2> QED BY <2>3, <2>7, <2>10
<1> QED BY <1>2, <1>6

-----------------------------------------------------------------------------
(* What an analysis finds while the graph changes under it. *)

\* Every set that has the seeds and whoever includes a file of it, by some edge
\* of the time, has the files visited; whoever includes one of those that were
\* looked at, by an edge that stayed, is visited.
AnalysisInv(a) ==
  /\ DOMAIN a = {"kind", "at", "seeds", "lines", "files", "visited", "frontier", "next",
                 "todo", "callers", "always", "ever"}
  /\ a.kind \in {"file", "changes"}
  /\ a.seeds \subseteq a.visited /\ a.visited \subseteq Files
  /\ a.frontier \subseteq a.visited /\ a.next \subseteq a.visited
  /\ a.always \subseteq edges /\ edges \subseteq a.ever
  /\ \A paths : a.seeds \subseteq paths /\ Closed(paths, a.ever) => a.visited \subseteq paths
  /\ \A e \in a.always : e.path \in a.visited \ (a.frontier \cup a.next) => e.file \in a.visited
  /\ a.at \in {"includers", "symbols", "callers", "done"}
  /\ a.at = "done" \/ (a.kind = "file" /\ a.at # "includers") => a.frontier = {} /\ a.next = {}

ImpactInv == analysis # None => AnalysisInv(analysis)

\* An analysis begins with its seeds.
LEMMA AskedInv ==
  ASSUME NEW kind \in {"file", "changes"}, NEW seeds \in SUBSET Files, NEW lines
  PROVE  AnalysisInv(Asked(kind, seeds, lines))
BY DEF AnalysisInv, Asked

\* A step that finds fresh includers of a file of the frontier.
LEMMA CollectKeeps ==
  ASSUME IndexTypes, ImpactInv, CollectIncluders
  PROVE  AnalysisInv(analysis')
<1> DEFINE a == analysis
<1>1. AnalysisInv(a) /\ a.at = "includers"
  BY DEF ImpactInv, CollectIncluders
<1>2. PICK f \in a.frontier :
        analysis' = [a EXCEPT !.visited = @ \cup (IncludedBy(f) \ a.visited),
                              !.next = @ \cup (IncludedBy(f) \ a.visited),
                              !.frontier = @ \ {f}]
  BY DEF CollectIncluders
<1> DEFINE fresh == IncludedBy(f) \ a.visited
           b == [a EXCEPT !.visited = @ \cup fresh, !.next = @ \cup fresh, !.frontier = @ \ {f}]
<1>3. /\ DOMAIN b = DOMAIN a
      /\ b.kind = a.kind /\ b.at = a.at /\ b.seeds = a.seeds /\ b.always = a.always /\ b.ever = a.ever
      /\ b.visited = a.visited \cup fresh /\ b.next = a.next \cup fresh /\ b.frontier = a.frontier \ {f}
  BY <1>1 DEF AnalysisInv
<1>4. IncludedBy(f) \subseteq Files
  BY FilesAreOrdered DEF IncludedBy, IndexTypes
<1>5. ASSUME NEW paths, a.seeds \subseteq paths, Closed(paths, a.ever) PROVE fresh \subseteq paths
  <2>1. a.visited \subseteq paths /\ f \in paths /\ edges \subseteq a.ever
    BY <1>1, <1>5 DEF AnalysisInv
  <2> QED BY <2>1, <1>5 DEF Closed, IncludedBy
<1>6. ASSUME NEW e \in a.always, e.path \in b.visited \ (b.frontier \cup b.next) PROVE e.file \in b.visited
  <2>1. e \in edges
    BY <1>1 DEF AnalysisInv
  <2>2. CASE e.path = f
    BY <2>1, <2>2, <1>3 DEF IncludedBy
  <2>3. CASE e.path # f
    BY <2>3, <1>1, <1>3, <1>6 DEF AnalysisInv
  <2> QED BY <2>2, <2>3
<1> HIDE DEF b, fresh
<1>7. AnalysisInv(b)
  BY <1>1, <1>3, <1>4, <1>5, <1>6 DEF AnalysisInv, fresh
<1> QED BY <1>2, <1>7 DEF b, fresh

\* The other steps of an analysis visit nothing.
LEMMA AnalyzeKeeps ==
  ASSUME IndexTypes, ImpactInv, Analyze
  PROVE  ImpactInv'
<1> DEFINE a == analysis
<1>0. AnalysisInv(a) /\ UNCHANGED edges
  BY DEF ImpactInv, Analyze, CollectIncluders, NextFrontier, SelectSymbols, FindCallers, Reply, indexVars
<1>1. CASE CollectIncluders
  BY <1>0, <1>1, CollectKeeps DEF ImpactInv, AnalysisInv
<1>2. ASSUME NEW b, analysis' = b, DOMAIN b = DOMAIN a,
             b.kind = a.kind, b.seeds = a.seeds, b.visited = a.visited, b.always = a.always, b.ever = a.ever,
             b.frontier \cup b.next = a.frontier \cup a.next,
             b.at \in {"includers", "symbols", "callers", "done"},
             b.at = "done" \/ (b.kind = "file" /\ b.at # "includers") => a.frontier = {} /\ a.next = {}
      PROVE  ImpactInv'
  BY <1>0, <1>2 DEF ImpactInv, AnalysisInv
<1>3. CASE NextFrontier
  <2>1. CASE a.next = {}
    BY <1>0, <1>2, <1>3, <2>1 DEF NextFrontier, AfterIncluders, AnalysisInv
  <2>2. CASE a.next # {}
    <3> DEFINE b == [a EXCEPT !.frontier = a.next, !.next = {}]
    <3>1. analysis' = b /\ a.at = "includers" /\ a.frontier = {}
      BY <1>3, <2>2 DEF NextFrontier
    <3>2. /\ DOMAIN b = DOMAIN a /\ b.kind = a.kind /\ b.at = a.at /\ b.seeds = a.seeds
          /\ b.visited = a.visited /\ b.always = a.always /\ b.ever = a.ever
          /\ b.frontier = a.next /\ b.next = {}
      BY <1>0 DEF AnalysisInv
    <3> HIDE DEF b
    <3> QED BY <1>0, <1>2, <3>1, <3>2
  <2> QED BY <2>1, <2>2
<1>4. CASE SelectSymbols
  <2>1. PICK rest, todo : analysis' = [a EXCEPT !.at = "callers", !.files = rest, !.todo = todo]
    BY <1>4 DEF SelectSymbols
  <2>2. a.at = "symbols"
    BY <1>4 DEF SelectSymbols
  <2> DEFINE b == [a EXCEPT !.at = "callers", !.files = rest, !.todo = todo]
  <2>3. /\ DOMAIN b = DOMAIN a /\ b.kind = a.kind /\ b.at = "callers" /\ b.seeds = a.seeds
        /\ b.visited = a.visited /\ b.always = a.always /\ b.ever = a.ever
        /\ b.frontier = a.frontier /\ b.next = a.next
    BY <1>0 DEF AnalysisInv
  <2>4. a.kind = "file" => a.frontier = {} /\ a.next = {}
    BY <1>0, <2>2 DEF AnalysisInv
  <2>5. analysis' = b
    BY <2>1
  <2> HIDE DEF b
  <2> QED BY <1>2, <2>3, <2>4, <2>5
<1>5. CASE FindCallers
  <2>1. a.at = "callers"
    BY <1>5 DEF FindCallers
  <2>2. CASE a.todo = {}
    BY <1>0, <1>2, <1>5, <2>1, <2>2 DEF FindCallers, AfterCallers, AnalysisInv
  <2>3. CASE a.todo # {}
    <3>1. PICK todo, callers : analysis' = [a EXCEPT !.todo = todo, !.callers = callers]
      BY <1>5, <2>3 DEF FindCallers
    <3> DEFINE b == [a EXCEPT !.todo = todo, !.callers = callers]
    <3>2. /\ DOMAIN b = DOMAIN a /\ b.kind = a.kind /\ b.at = "callers" /\ b.seeds = a.seeds
          /\ b.visited = a.visited /\ b.always = a.always /\ b.ever = a.ever
          /\ b.frontier = a.frontier /\ b.next = a.next
      BY <1>0, <2>1 DEF AnalysisInv
    <3>3. a.kind = "file" => a.frontier = {} /\ a.next = {}
      BY <1>0, <2>1 DEF AnalysisInv
    <3>4. analysis' = b
      BY <3>1
    <3> HIDE DEF b
    <3> QED BY <1>2, <3>2, <3>3, <3>4
  <2> QED BY <2>2, <2>3
<1>6. CASE Reply
  BY <1>6 DEF Reply, ImpactInv
<1> QED BY <1>1, <1>3, <1>4, <1>5, <1>6 DEF Analyze

\* An update of the graph leaves what stayed and adds to what ever was.
LEMMA NextImpactInv ==
  ASSUME IndexInv, ImpactInv, [NextIndexes]_codeVars
  PROVE  ImpactInv'
<1>1. ASSUME UNCHANGED <<edges, analysis>> PROVE ImpactInv'
  BY <1>1 DEF ImpactInv, AnalysisInv
<1>2. CASE Build
  <2>1. analysis' = analysis /\ analysis = None
    BY <1>2 DEF Build, Scan, BuildSymbolIndex, BuildCallGraph, BuildInheritanceGraph, BuildReferenceGraph, BuildAstIndex,
       BuildTable, Building, BuildIncludeGraph, Serve, IndexInv, OnlyMainBuilds
  <2> QED BY <2>1 DEF ImpactInv
<1>3. CASE Apply
  <2>1. CASE analysis = None
    BY <1>3, <2>1 DEF Apply, Witnessed, ImpactInv
  <2>2. CASE analysis # None
    <3> DEFINE a == analysis
               b == [a EXCEPT !.always = @ \cap edges', !.ever = @ \cup edges']
    <3>1. AnalysisInv(a) /\ analysis' = b
      BY <1>3, <2>2 DEF Apply, Witnessed, ImpactInv
    <3>2. /\ DOMAIN b = DOMAIN a
          /\ b.kind = a.kind /\ b.at = a.at /\ b.seeds = a.seeds /\ b.visited = a.visited
          /\ b.frontier = a.frontier /\ b.next = a.next
          /\ b.always = a.always \cap edges' /\ b.ever = a.ever \cup edges'
      BY <3>1 DEF AnalysisInv
    <3>3. \A paths : Closed(paths, b.ever) => Closed(paths, a.ever)
      BY <3>2 DEF Closed
    <3> HIDE DEF b
    <3>4. /\ b.always \subseteq edges' /\ edges' \subseteq b.ever
          /\ \A paths : b.seeds \subseteq paths /\ Closed(paths, b.ever) => b.visited \subseteq paths
          /\ \A e \in b.always : e.path \in b.visited \ (b.frontier \cup b.next) => e.file \in b.visited
      BY <3>1, <3>2, <3>3 DEF AnalysisInv
    <3>5. AnalysisInv(analysis)'
      BY <3>1, <3>2, <3>4 DEF AnalysisInv
    <3> QED BY <3>5 DEF ImpactInv
  <2> QED BY <2>1, <2>2
<1>4. CASE \/ \E f \in Files : AskFile(f)
           \/ \E d \in Diffs : AskChanges(d)
  <2>1. PICK kind \in {"file", "changes"}, seeds \in SUBSET Files :
          \E lines : analysis' = Asked(kind, seeds, lines) /\ UNCHANGED edges
    BY <1>4 DEF AskFile, AskChanges, indexVars
  <2>2. \A lines : AnalysisInv(Asked(kind, seeds, lines))
    BY <2>1, AskedInv
  <2> QED BY <2>1, <2>2 DEF ImpactInv, AnalysisInv
<1>5. CASE Analyze
  BY <1>5, AnalyzeKeeps DEF IndexInv
<1>6. CASE (\E f \in Files, c \in Contents \cup {Absent} : Edit(f, c)) \/ Poll \/ (\E e \in events : TakeEvent(e))
  BY <1>1, <1>6 DEF Edit, Poll, TakeEvent, indexVars
<1>7. CASE UNCHANGED codeVars
  BY <1>1, <1>7 DEF codeVars, indexVars
<1> QED BY <1>2, <1>3, <1>4, <1>5, <1>6, <1>7 DEF NextIndexes, Watch

\* When nothing is left to look at, what was visited is closed under the edges
\* that stayed.
LEMMA ImpactReaches == ImpactInv => ImpactIsReachable
<1> SUFFICES ASSUME ImpactInv, analysis # None, analysis.at = "done"
             PROVE  /\ Includers(analysis.seeds, analysis.always) \subseteq analysis.visited
                    /\ analysis.visited \subseteq Includers(analysis.seeds, analysis.ever)
  BY DEF ImpactIsReachable
<1> DEFINE a == analysis
<1>1. AnalysisInv(a)
  BY DEF ImpactInv
<1>2. a.seeds \subseteq a.visited /\ a.visited \in SUBSET Files /\ Closed(a.visited, a.always)
  BY <1>1 DEF AnalysisInv, Closed
<1>3. Includers(a.seeds, a.always) \subseteq a.visited
  BY <1>2 DEF Includers
<1>4. a.visited \subseteq Includers(a.seeds, a.ever)
  BY <1>1 DEF AnalysisInv, Includers
<1> QED BY <1>3, <1>4

\* Where no file gets back what the watcher saw last: once the watcher has told
\* everything, what the server answers from the indexes is what a reading of the
\* whole project gives, and an analysis that the watcher runs into reports all
\* files that kept including a seed and none that never did.
THEOREM IndexesFollowDisk ==
  ASSUME ~Reverts
  PROVE  SpecIndexes => []IndexesAreTrue
<1>1. InitIndexes => IndexInv /\ ImpactInv
  BY InitIndexInv DEF InitIndexes, ImpactInv
<1>2. IndexInv /\ ImpactInv /\ [NextIndexes]_codeVars => (IndexInv /\ ImpactInv)'
  BY NextIndexInv, NextImpactInv
<1>3. IndexInv /\ ImpactInv => IndexesAreTrue
  BY FreshAnswers, ImpactReaches DEF IndexesAreTrue
<1> QED BY <1>1, <1>2, <1>3, PTL DEF SpecIndexes
=============================================================================
