--------------------------- MODULE DispatchProofs ---------------------------
(***************************************************************************)
(* Proofs about what is accepted now and dispatched later.                 *)
(*                                                                         *)
(* TaskExecutor: the task queue keeps its order, progress and errors       *)
(* straight, and the executor over it runs each task once at a time, after *)
(* its dependencies, for every set of tasks and threads, every dependency  *)
(* relation (cyclic ones included) and every retry limit.  What holds only *)
(* without some of the calls says so in its hypotheses: the calls of a cfg *)
(* are the constant Calls.                                                 *)
(*                                                                         *)
(* BackendGateway: for any number of backends, plugins, threads and        *)
(* requests, no command is dispatched that was not approved, decisions     *)
(* are kept where their checks and writes have not overlapped, and what    *)
(* the registry reports and calls is there until it is destroyed.          *)
(***************************************************************************)
EXTENDS TaskExecutor, BackendGateway, TLAPS

-----------------------------------------------------------------------------
(* The queue.                                                              *)

\* The invariant needs no strengthening beyond its own parts: that a
\* Completed task never leaves its state makes DependenciesFirst inductive.
QueueInv == QueueTypeOK /\ DependenciesFirst /\ ProgressOfThisAttempt /\ FailuresOnRecord

\* Clamping yields a progress between none and all.
LEMMA ClampInRange == ASSUME NEW p \in Int PROVE Clamp(p) \in 0..Full
  BY FullIsPositive DEF Clamp

\* The empty queue satisfies the invariant.
LEMMA QueueInvInit == InitQueue => QueueInv
  BY MaxRetriesIsNatural, FullIsPositive, DependsOnIsFunction
     DEF InitQueue, QueueInv, QueueTypeOK, DependenciesFirst, ProgressOfThisAttempt, FailuresOnRecord,
         EverStarted, TaskStates

\* Every operation keeps the types.
LEMMA QueueTypeNext == QueueTypeOK /\ [NextQueue]_queueVars => QueueTypeOK'
<1> SUFFICES ASSUME QueueTypeOK, [NextQueue]_queueVars PROVE QueueTypeOK'
  OBVIOUS
<1> USE FullIsPositive DEF QueueTypeOK, TaskStates
<1>1. ASSUME NEW t \in Tasks, Enqueue(t) PROVE QueueTypeOK'
  BY <1>1 DEF Enqueue
<1>2. ASSUME NEW t \in Tasks, Start(t) \/ Pause(t) \/ Resume(t) \/ Cancel(t) PROVE QueueTypeOK'
  BY <1>2 DEF Start, Pause, Resume, Cancel
<1>3. ASSUME NEW t \in Tasks, Complete(t) PROVE QueueTypeOK'
  BY <1>3 DEF Complete
<1>4. ASSUME NEW t \in Tasks, Fail(t) PROVE QueueTypeOK'
  BY <1>4 DEF Fail
<1>5. ASSUME NEW t \in Tasks, Retry(t) PROVE QueueTypeOK'
  BY <1>5 DEF Retry
<1>6. ASSUME NEW t \in Tasks, NEW p \in Reports, ReportProgress(t, p) PROVE QueueTypeOK'
  <2>1. Clamp(p) \in 0..Full
    BY ReportsAreIntegers, ClampInRange
  <2> QED
    BY <1>6, <2>1 DEF ReportProgress
<1>7. ASSUME NEW expired \in SUBSET Timed, CheckTimeouts(expired) PROVE QueueTypeOK'
  BY <1>7 DEF CheckTimeouts
<1>8. CASE UNCHANGED queueVars
  BY <1>8 DEF queueVars
<1> QED
  BY <1>1, <1>2, <1>3, <1>4, <1>5, <1>6, <1>7, <1>8 DEF NextQueue

\* What one operation can do to a task: a Completed task keeps its state,
\* and only a task whose dependencies are Completed is started.
LEMMA StepOfTask ==
  ASSUME QueueTypeOK, [NextQueue]_queueVars, NEW t \in Tasks
  PROVE  /\ state[t] = "Completed" => state'[t] = "Completed"
         /\ EverStarted(t)' => EverStarted(t) \/ DependenciesSatisfied(t)
<1> DEFINE Goal ==
      /\ state[t] = "Completed" => state'[t] = "Completed"
      /\ EverStarted(t)' => EverStarted(t) \/ DependenciesSatisfied(t)
<1> USE DEF EverStarted, QueueTypeOK
<1>1. ASSUME NEW u \in Tasks, Enqueue(u) PROVE Goal
  BY <1>1 DEF Enqueue, Enqueued
<1>2. ASSUME NEW u \in Tasks, Start(u) PROVE Goal
  BY <1>2 DEF Start
<1>3. ASSUME NEW u \in Tasks, Pause(u) \/ Resume(u) PROVE Goal
  BY <1>3 DEF Pause, Resume
<1>4. ASSUME NEW u \in Tasks, Complete(u) PROVE Goal
  BY <1>4 DEF Complete
<1>5. ASSUME NEW u \in Tasks, Fail(u) PROVE Goal
  BY <1>5 DEF Fail
<1>6. ASSUME NEW u \in Tasks, Retry(u) PROVE Goal
  BY <1>6 DEF Retry
<1>7. ASSUME NEW u \in Tasks, Cancel(u) PROVE Goal
  BY <1>7 DEF Cancel, IsTerminal
<1>8. ASSUME NEW u \in Tasks, NEW p \in Reports, ReportProgress(u, p) PROVE Goal
  BY <1>8 DEF ReportProgress
<1>9. ASSUME NEW expired \in SUBSET Timed, CheckTimeouts(expired) PROVE Goal
  BY <1>9 DEF CheckTimeouts
<1>10. CASE UNCHANGED queueVars
  BY <1>10 DEF queueVars
<1> QED
  BY <1>1, <1>2, <1>3, <1>4, <1>5, <1>6, <1>7, <1>8, <1>9, <1>10 DEF NextQueue

\* Every operation keeps the order of dependencies.
LEMMA NextDependenciesFirst ==
  QueueTypeOK /\ DependenciesFirst /\ [NextQueue]_queueVars => DependenciesFirst'
<1> SUFFICES ASSUME QueueTypeOK, DependenciesFirst, [NextQueue]_queueVars,
                    NEW t \in Tasks, EverStarted(t)', NEW d \in DependsOn[t]
             PROVE  state'[d] = "Completed"
  BY DEF DependenciesFirst
<1>1. d \in Tasks
  BY DependsOnIsFunction
<1>2. state[d] = "Completed"
  BY StepOfTask DEF DependenciesFirst, DependenciesSatisfied
<1> QED
  BY <1>1, <1>2, StepOfTask

\* Every operation keeps progress and errors to the present attempt.
LEMMA NextRecords ==
  QueueInv /\ [NextQueue]_queueVars => ProgressOfThisAttempt' /\ FailuresOnRecord'
<1> SUFFICES ASSUME QueueInv, [NextQueue]_queueVars
             PROVE  ProgressOfThisAttempt' /\ FailuresOnRecord'
  OBVIOUS
<1> DEFINE Goal == ProgressOfThisAttempt' /\ FailuresOnRecord'
<1>t. QueueTypeOK /\ ProgressOfThisAttempt /\ FailuresOnRecord
  BY DEF QueueInv
<1> USE <1>t, MaxRetriesIsNatural, FullIsPositive DEF QueueTypeOK, ProgressOfThisAttempt, FailuresOnRecord
<1>1. ASSUME NEW t \in Tasks, Enqueue(t) PROVE Goal
  BY <1>1 DEF Enqueue
<1>2. ASSUME NEW t \in Tasks, Start(t) \/ Pause(t) \/ Resume(t) PROVE Goal
  BY <1>2 DEF Start, Pause, Resume
<1>3. ASSUME NEW t \in Tasks, Cancel(t) PROVE Goal
  BY <1>3 DEF Cancel
<1>4. ASSUME NEW t \in Tasks, Complete(t) PROVE Goal
  BY <1>4 DEF Complete
<1>5. ASSUME NEW t \in Tasks, Fail(t) PROVE Goal
  BY <1>5 DEF Fail
<1>6. ASSUME NEW t \in Tasks, Retry(t) PROVE Goal
  BY <1>6 DEF Retry
<1>7. ASSUME NEW t \in Tasks, NEW p \in Reports, ReportProgress(t, p) PROVE Goal
  BY <1>7 DEF ReportProgress
<1>8. ASSUME NEW expired \in SUBSET Timed, CheckTimeouts(expired) PROVE Goal
  BY <1>8 DEF CheckTimeouts
<1>9. CASE UNCHANGED queueVars
  BY <1>9 DEF queueVars
<1> QED
  BY <1>1, <1>2, <1>3, <1>4, <1>5, <1>6, <1>7, <1>8, <1>9 DEF NextQueue

\* Every operation keeps the invariant.
LEMMA QueueInvNext == QueueInv /\ [NextQueue]_queueVars => QueueInv'
  BY QueueTypeNext, NextDependenciesFirst, NextRecords DEF QueueInv

\* The invariant holds in every behaviour of the queue.
LEMMA QueueInvariance == QueueSpec => []QueueInv
  BY QueueInvInit, QueueInvNext, PTL DEF QueueSpec

\* No task has been started that does not have all its dependencies
\* Completed, now and then.
THEOREM DependenciesComeFirst == QueueSpec => []DependenciesFirst
<1>1. QueueInv => DependenciesFirst
  BY DEF QueueInv
<1> QED
  BY <1>1, QueueInvariance, PTL

\* Progress is that of the present attempt; failures leave their error, and
\* retries stay within their limit.
THEOREM RecordsAreCurrent == QueueSpec => [](ProgressOfThisAttempt /\ FailuresOnRecord)
<1>1. QueueInv => ProgressOfThisAttempt /\ FailuresOnRecord
  BY DEF QueueInv
<1> QED
  BY <1>1, QueueInvariance, PTL

-----------------------------------------------------------------------------
(* The executor: the inductive invariants.                                 *)

Registering(c, t) == call[c].at = "register" /\ call[c].task = t
Born(w) == call[w] # Unborn

\* Well typed; a task is registered once, after it was enqueued and before
\* any of its workers exist; a worker that reports has erased the job.
RegisteredOnce ==
  /\ \A t \in Tasks : ~Enqueued(t) =>
       /\ t \notin jobs /\ \A c \in Submitters : ~Registering(c, t)
       /\ \A w \in Workers : TaskOf(w) = t => ~Born(w)
  /\ \A t \in Tasks, c \in Submitters : Registering(c, t) =>
       /\ t \notin jobs
       /\ \A w \in Workers : TaskOf(w) = t => ~Born(w)
       /\ \A d \in Submitters : Registering(d, t) => c = d
  /\ \A w \in Workers : call[w].at = "report" => TaskOf(w) \notin jobs

BaseInv ==
  /\ TypeOK /\ DOMAIN call = Threads
  /\ QueueInv
  /\ RegisteredOnce
  /\ \A w \in Workers : Born(w) => DependenciesSatisfied(TaskOf(w))

\* The workers of a task that exist are those of its attempts so far.
AttemptsCounted ==
  \A w \in Workers :
    LET t == TaskOf(w)
    IN  /\ state[t] \in {"Absent", "Pending"} => (Born(w) <=> w[2] < retryCount[t])
        /\ state[t] \in {"Running", "Paused", "Completed", "Failed"} =>
             (Born(w) <=> w[2] <= retryCount[t])

\* Without timeouts: a task that waits or has failed has no worker that will
\* report, nor a job when it failed; a worker that will is of this attempt.
AttemptInv ==
  /\ OneWorker
  /\ \A w \in Workers : Owes(w) =>
       /\ state[TaskOf(w)] \notin {"Absent", "Pending", "Failed"}
       /\ w[2] = retryCount[TaskOf(w)]
  /\ \A t \in Tasks : state[t] = "Failed" => t \notin jobs

\* Without pauses: a Running task has a worker that reports, and that finds
\* the job when it begins.
OwnedInv ==
  /\ \A t \in Tasks : state[t] # "Paused"
  /\ \A t \in Tasks : state[t] = "Running" =>
       \E w \in Workers :
         TaskOf(w) = t /\ Owes(w) /\ (call[w].at = "spawned" => t \in jobs)

\* A task that could be started is about to be tried by a submitter, or by
\* the worker of one of its dependencies.
WillTry(th, t) ==
  call[th].at = "snapshot" \/ (call[th].at = "dispatch" /\ t \in call[th].todo)

NoneForgotten ==
  \A t \in jobs \cap Ready :
    \/ \E c \in Submitters : WillTry(c, t)
    \/ \E w \in Workers : TaskOf(w) \in DependsOn[t] /\ WillTry(w, t)

\* No task depends on one that depends on a third.
TwoLevels == \A t \in Tasks : \A d \in DependsOn[t] : DependsOn[d] = {}

\* The futures that the destructor waits for, now or next, are those of all
\* active workers; after its body, no worker is left that could make another
\* task ready.
FirstLevel(w) == DependsOn[TaskOf(w)] = {}
DestroyInv ==
  /\ owner.at # "using" => \A c \in Submitters : call[c] = NoCall
  /\ owner.at = "using" => \A w \in Workers : Active(w) => w \in futures
  /\ owner.at = "waiting" =>
       \A w \in Workers : Active(w) =>
         w \in owner.for \cup futures /\ (FirstLevel(w) => w \in owner.for)
  /\ owner.at = "destroyingMembers" =>
       \A w \in Workers : Active(w) => w \in owner.for /\ ~FirstLevel(w)
  /\ DestructorWaits

-----------------------------------------------------------------------------
(* Threads, and where they are.                                            *)

\* A worker is a task and the number of its attempt.
LEMMA WorkerFields ==
  ASSUME NEW w \in Workers
  PROVE  /\ w \in Threads /\ w \notin Submitters /\ TaskOf(w) \in Tasks
         /\ w[2] \in 0..MaxRetries[TaskOf(w)] /\ w = <<TaskOf(w), w[2]>>
<1>1. PICK t \in Tasks : w \in {t} \X (0..MaxRetries[t])
  BY DEF Workers
<1>2. QED
  BY <1>1, ThreadsApart DEF TaskOf, Threads

\* Every attempt that retries allow has its worker.
LEMMA WorkerNamed ==
  ASSUME NEW t \in Tasks, NEW n \in 0..MaxRetries[t]
  PROVE  <<t, n>> \in Workers /\ TaskOf(<<t, n>>) = t /\ <<t, n>>[2] = n
BY DEF Workers, TaskOf

\* What a thread carries from one step to the next.
LEMMA CallFields ==
  ASSUME TypeOK, NEW th \in Threads
  PROVE  /\ call[th].at = "dispatch" => call[th].todo \in SUBSET Tasks /\ call[th].todo # {}
         /\ th \in Submitters =>
              /\ call[th].at \in {"idle", "register", "snapshot", "dispatch"}
              /\ call[th].at = "idle" => call[th] = NoCall
              /\ call[th].at = "register" => call[th].task \in Tasks
         /\ th \in Workers =>
              /\ call[th].at \in {"unborn", "spawned", "running", "erase", "report",
                                  "snapshot", "dispatch", "finished"}
              /\ call[th].at = "unborn" <=> call[th] = Unborn
              /\ call[th].at = "finished" <=> call[th] = Finished
              /\ call[th].at \in {"erase", "report"} => call[th].ok \in BOOLEAN
<1>1. call[th] \in CallType(th) /\ (th \in Workers => th \notin Submitters)
  BY WorkerFields DEF TypeOK
<1>2. CASE call[th] \in [at : {"dispatch"}, todo : (SUBSET Tasks) \ {{}}]
  BY <1>2 DEF Unborn, Finished, NoCall
<1>3. CASE call[th] \in [at : {"snapshot"}]
  BY <1>3 DEF Unborn, Finished, NoCall
<1>4. CASE call[th] = Return(th)
  BY <1>1, <1>4 DEF Return, Unborn, Finished, NoCall
<1>5. CASE th \in Submitters /\ call[th] \in [at : {"register"}, task : Tasks]
  BY <1>1, <1>5 DEF Unborn, Finished, NoCall
<1>6. CASE th \notin Submitters /\ call[th] \in {Unborn, [at |-> "spawned"], [at |-> "running"]}
  BY <1>6 DEF Unborn, Finished, NoCall
<1>7. CASE th \notin Submitters /\ call[th] \in [at : {"erase", "report"}, ok : BOOLEAN]
  BY <1>7 DEF Unborn, Finished, NoCall
<1>8. QED
  BY <1>1, <1>2, <1>3, <1>4, <1>5, <1>6, <1>7 DEF CallType

\* Of the queue, a step of the executor is a step or nothing.
LEMMA ExecutorUsesQueue ==
  ASSUME TypeOK, [Next]_vars
  PROVE  [NextQueue]_queueVars
<1> USE DEF NextQueue
<1>1. CASE \E c \in Submitters : SubmitProceeds(c) \/ \E t \in Tasks : SubmitEnqueue(c, t)
  BY <1>1 DEF SubmitProceeds, SubmitEnqueue, SubmitRegister, ThreadProceeds, Snapshot,
     DispatchSkip, DispatchStart
<1>2. CASE \E w \in Workers : WorkerProceeds(w) \/ \E p \in Reports : JobReportsProgress(w, p)
  BY <1>2, WorkerFields DEF WorkerProceeds, JobReportsProgress, RunJobBegin, EraseJob,
     ReportOutcome, JobEnds, ThreadProceeds, Snapshot, DispatchSkip, DispatchStart
<1>3. CASE QueueCall
  BY <1>3 DEF QueueCall
<1>4. CASE DestructorTakesWorkers \/ DestructorBodyEnds \/ DestructorReturns
  BY <1>4 DEF DestructorTakesWorkers, DestructorBodyEnds, DestructorReturns
<1>5. CASE UNCHANGED vars
  BY <1>5 DEF vars
<1>6. QED
  BY <1>1, <1>2, <1>3, <1>4, <1>5 DEF Next

\* Where a thread goes with the ready tasks it has left.
LEMMA DispatchTyped ==
  ASSUME NEW th \in Threads, NEW rest \in SUBSET Tasks
  PROVE  Dispatch(th, rest) \in CallType(th)
BY DEF Dispatch, CallType

\* A step in which one thread moves on.
LEMMA OneMoves ==
  ASSUME TypeOK, DOMAIN call = Threads, NEW th \in Threads, NEW x \in CallType(th),
         call' = [call EXCEPT ![th] = x]
  PROVE  /\ \A u \in Threads : call'[u] \in CallType(u)
         /\ DOMAIN call' = Threads
         /\ call'[th] = x /\ \A u \in Threads \ {th} : call'[u] = call[u]
BY DEF TypeOK

\* A thread starts a worker, which moves on as well.
LEMMA StartMoves ==
  ASSUME TypeOK, DOMAIN call = Threads, NEW th \in Threads, NEW t \in Tasks,
         DispatchStart(th, t)
  PROVE  \E w \in Workers :
           /\ TaskOf(w) = t /\ NextUnborn(w) /\ w # th
           /\ call'[w] = [at |-> "spawned"]
           /\ call'[th] = Dispatch(th, call[th].todo \ {t})
           /\ \A u \in Threads \ {th, w} : call'[u] = call[u]
           /\ \A u \in Threads : call'[u] \in CallType(u)
           /\ DOMAIN call' = Threads
           /\ futures' = {v \in futures : call[v] # Finished} \cup {w}
<1>1. PICK w \in Workers :
        /\ TaskOf(w) = t /\ NextUnborn(w)
        /\ call' = [call EXCEPT ![th] = Dispatch(th, @.todo \ {t}), ![w] = [at |-> "spawned"]]
        /\ futures' = {v \in futures : call[v] # Finished} \cup {w}
  BY DEF DispatchStart
<1>2. call[th].at = "dispatch" /\ call[th].todo \in SUBSET Tasks
  BY CallFields DEF DispatchStart
<1>3. w # th /\ w \in Threads /\ w \notin Submitters
  BY <1>1, <1>2, WorkerFields DEF NextUnborn, Unborn
<1> DEFINE x == Dispatch(th, call[th].todo \ {t})
<1>4. x \in CallType(th) /\ [at |-> "spawned"] \in CallType(w)
  BY <1>2, <1>3, DispatchTyped DEF CallType
<1> HIDE DEF x
<1>5. call'[w] = [at |-> "spawned"] /\ call'[th] = x /\ \A u \in Threads \ {th, w} : call'[u] = call[u]
  BY <1>1, <1>3 DEF x
<1>6. \A u \in Threads : call'[u] \in CallType(u)
  BY <1>4, <1>5 DEF TypeOK
<1>7. QED
  BY <1>1, <1>3, <1>5, <1>6 DEF x

\* One thread's own step: what it moves to, and what becomes of the jobs.
LEMMA ThreadMoves ==
  ASSUME TypeOK, DOMAIN call = Threads, NEW th \in Threads
  PROVE  /\ Snapshot(th) =>
              /\ call' = [call EXCEPT ![th] = Dispatch(th, Ready)] /\ call[th].at = "snapshot"
              /\ Dispatch(th, Ready) \in CallType(th)
         /\ \A t \in Tasks : DispatchSkip(th, t) =>
              /\ call' = [call EXCEPT ![th] = Dispatch(th, call[th].todo \ {t})]
              /\ call[th].at = "dispatch"
              /\ Dispatch(th, call[th].todo \ {t}) \in CallType(th)
<1>1. Dispatch(th, Ready) \in CallType(th)
  BY DispatchTyped DEF Ready
<1>2. call[th].at = "dispatch" => call[th].todo \in SUBSET Tasks
  BY CallFields
<1>3. ASSUME NEW t \in Tasks, call[th].at = "dispatch"
      PROVE  Dispatch(th, call[th].todo \ {t}) \in CallType(th)
  BY <1>2, <1>3, DispatchTyped
<1>4. QED
  BY <1>1, <1>3 DEF Snapshot, DispatchSkip

\* Every step keeps the types.
LEMMA TypeNext ==
  ASSUME BaseInv, [Next]_vars
  PROVE  TypeOK' /\ DOMAIN call' = Threads
<1> USE DEF BaseInv
<1>1. QueueTypeOK'
  BY ExecutorUsesQueue, QueueTypeNext DEF QueueInv
<1> DEFINE Others == /\ jobs' \in SUBSET Tasks /\ futures' \in SUBSET Workers
                     /\ owner' \in [at : {"using", "destroyed"}]
                                     \cup [at : {"waiting", "destroyingMembers"}, for : SUBSET Workers]
           Goal == Others /\ DOMAIN call' = Threads /\ \A u \in Threads : call'[u] \in CallType(u)
<1>2. SUFFICES Goal
  BY <1>1 DEF TypeOK
<1>3. ASSUME NEW th \in Threads, NEW x \in CallType(th), call' = [call EXCEPT ![th] = x],
             UNCHANGED <<futures, owner>>, jobs' \in SUBSET Tasks
      PROVE  Goal
  BY <1>3, OneMoves DEF TypeOK
<1>4. ASSUME NEW th \in Threads, ThreadProceeds(th) PROVE Goal
  <2>1. CASE \E t \in Tasks : DispatchStart(th, t)
    BY <2>1, StartMoves DEF DispatchStart, TypeOK
  <2>2. CASE Snapshot(th)
    BY <1>3, <2>2, ThreadMoves DEF Snapshot, TypeOK
  <2>3. CASE \E t \in Tasks : DispatchSkip(th, t)
    BY <1>3, <2>3, ThreadMoves DEF DispatchSkip, TypeOK
  <2>4. QED
    BY <1>4, <2>1, <2>2, <2>3 DEF ThreadProceeds
<1>5. ASSUME NEW c \in Submitters, SubmitProceeds(c) \/ \E t \in Tasks : SubmitEnqueue(c, t) PROVE Goal
  <2>1. c \in Threads
    BY DEF Threads
  <2>2. CASE SubmitRegister(c)
    <3>1. [at |-> "snapshot"] \in CallType(c) /\ call[c].task \in Tasks
      BY <2>1, <2>2, CallFields DEF CallType, SubmitRegister
    <3>2. QED
      BY <1>3, <2>1, <2>2, <3>1 DEF SubmitRegister, TypeOK
  <2>3. CASE \E t \in Tasks : SubmitEnqueue(c, t)
    <3>1. PICK t \in Tasks : SubmitEnqueue(c, t)
      BY <2>3
    <3>2. [at |-> "register", task |-> t] \in CallType(c)
      BY DEF CallType
    <3>3. QED
      BY <1>3, <2>1, <3>1, <3>2 DEF SubmitEnqueue, TypeOK
  <2>4. QED
    BY <1>4, <1>5, <2>1, <2>2, <2>3 DEF SubmitProceeds
<1>6. ASSUME NEW w \in Workers, WorkerProceeds(w) \/ \E p \in Reports : JobReportsProgress(w, p) PROVE Goal
  <2>1. w \in Threads /\ w \notin Submitters /\ TaskOf(w) \in Tasks
    BY WorkerFields
  <2>2. CASE RunJobBegin(w)
    <3>1. (IF TaskOf(w) \in jobs THEN [at |-> "running"] ELSE Finished) \in CallType(w)
      BY <2>1 DEF CallType, Return
    <3>2. QED
      BY <1>3, <2>1, <2>2, <3>1 DEF RunJobBegin, TypeOK
  <2>3. CASE \E ok \in BOOLEAN : JobEnds(w, ok)
    <3>1. PICK ok \in BOOLEAN : JobEnds(w, ok)
      BY <2>3
    <3>2. [at |-> "erase", ok |-> ok] \in CallType(w)
      BY <2>1 DEF CallType
    <3>3. QED
      BY <1>3, <2>1, <3>1, <3>2 DEF JobEnds, TypeOK
  <2>4. CASE EraseJob(w)
    <3>1. [at |-> "report", ok |-> call[w].ok] \in CallType(w)
      BY <2>1, <2>4, CallFields DEF CallType, EraseJob
    <3>2. call' = [call EXCEPT ![w] = [at |-> "report", ok |-> call[w].ok]]
      BY <2>4 DEF EraseJob
    <3>3. QED
      BY <1>3, <2>1, <2>4, <3>1, <3>2 DEF EraseJob, TypeOK
  <2>5. CASE ReportOutcome(w)
    <3>1. [at |-> "snapshot"] \in CallType(w)
      BY DEF CallType
    <3>2. QED
      BY <1>3, <2>1, <2>5, <3>1 DEF ReportOutcome, TypeOK
  <2>6. CASE \E p \in Reports : JobReportsProgress(w, p)
    BY <2>6 DEF JobReportsProgress, execVars, TypeOK
  <2>7. QED
    BY <1>4, <1>6, <2>1, <2>2, <2>3, <2>4, <2>5, <2>6 DEF WorkerProceeds
<1>7. CASE QueueCall \/ UNCHANGED vars
  BY <1>7 DEF QueueCall, execVars, vars, TypeOK
<1>8. CASE DestructorTakesWorkers \/ DestructorBodyEnds \/ DestructorReturns
  BY <1>8 DEF DestructorTakesWorkers, DestructorBodyEnds, DestructorReturns, TypeOK
<1>9. QED
  BY <1>5, <1>6, <1>7, <1>8 DEF Next

\* With nothing left, it is done.
LEMMA DispatchAt ==
  ASSUME NEW th \in Threads, NEW rest
  PROVE  /\ Dispatch(th, rest).at \in {"idle", "finished", "dispatch"}
         /\ Dispatch(th, rest) # Unborn
         /\ Dispatch(th, rest).at = "dispatch" =>
              rest # {} /\ Dispatch(th, rest).todo = rest
         /\ Dispatch(th, rest).at # "dispatch" =>
              rest = {} /\ Dispatch(th, rest) = Return(th)
BY DEF Dispatch, Return, Unborn, NoCall, Finished

\* A thread goes on through its snapshot, and starts nobody.
GoesOn(th) ==
  /\ UNCHANGED <<queueVars, jobs, futures, owner>>
  /\ DOMAIN call' = Threads /\ \A u \in Threads \ {th} : call'[u] = call[u]
  /\ call[th].at \in {"snapshot", "dispatch"} /\ call[th] # Unborn
  /\ call'[th].at \in {"idle", "finished", "dispatch"} /\ call'[th] # Unborn
  /\ \A t \in jobs \cap Ready : WillTry(th, t) => WillTry(th, t)'

\* Taking a snapshot or skipping a task starts nothing.
LEMMA GoesOnSteps ==
  ASSUME TypeOK, DOMAIN call = Threads, NEW th \in Threads,
         Snapshot(th) \/ \E t \in Tasks : DispatchSkip(th, t)
  PROVE  GoesOn(th)
<1>1. CASE Snapshot(th)
  <2>1. call' = [call EXCEPT ![th] = Dispatch(th, Ready)] /\ call[th].at = "snapshot"
        /\ Dispatch(th, Ready) \in CallType(th)
    BY <1>1, ThreadMoves
  <2>2. QED
    BY <1>1, <2>1, OneMoves, DispatchAt DEF Snapshot, GoesOn, WillTry, Unborn, Ready
<1>2. CASE \E t \in Tasks : DispatchSkip(th, t)
  <2>1. PICK t \in Tasks : DispatchSkip(th, t)
    BY <1>2
  <2>2. call' = [call EXCEPT ![th] = Dispatch(th, call[th].todo \ {t})]
        /\ call[th].at = "dispatch" /\ Dispatch(th, call[th].todo \ {t}) \in CallType(th)
    BY <2>1, ThreadMoves
  <2>3. call[th] # Unborn /\ call'[th] # Unborn
    BY <2>2, OneMoves, DispatchAt DEF Unborn
  <2>4. \A u \in jobs \cap Ready : WillTry(th, u) => WillTry(th, u)'
    <3> SUFFICES ASSUME NEW u \in jobs \cap Ready, WillTry(th, u) PROVE WillTry(th, u)'
      OBVIOUS
    <3>1. u # t /\ u \in call[th].todo
      BY <2>1, <2>2 DEF DispatchSkip, WillTry
    <3>2. call'[th] = Dispatch(th, call[th].todo \ {t}) /\ u \in call[th].todo \ {t}
      BY <2>2, <3>1, OneMoves
    <3>3. QED
      BY <3>2, DispatchAt DEF WillTry
  <2>5. QED
    BY <2>1, <2>2, <2>3, <2>4, OneMoves, DispatchAt DEF DispatchSkip, GoesOn
<1>3. QED
  BY <1>1, <1>2

\* No task is registered twice.
LEMMA RegisteredNext ==
  ASSUME BaseInv, [Next]_vars
  PROVE  RegisteredOnce'
<1> USE DEF BaseInv, Registering, Enqueued, Born
<1>1. Submitters \subseteq Threads /\ Workers \subseteq Threads /\ Submitters \cap Workers = {}
  BY ThreadsApart DEF Threads
<1>2. ASSUME UNCHANGED <<jobs, call>>, \A t \in Tasks : Enqueued(t) => Enqueued(t)'
      PROVE  RegisteredOnce'
  BY <1>2 DEF RegisteredOnce
<1>3. \A t \in Tasks : Enqueued(t) => Enqueued(t)'
  <2>1. [NextQueue]_queueVars /\ QueueTypeOK
    BY ExecutorUsesQueue DEF QueueInv
  <2>2. QED
    BY <2>1 DEF NextQueue, queueVars, QueueTypeOK, Enqueue, Start, Pause, Resume, Complete, Fail,
       Retry, Cancel, ReportProgress, CheckTimeouts
<1>4. ASSUME NEW th \in Threads, ThreadProceeds(th) PROVE RegisteredOnce'
  <2>1. CASE Snapshot(th) \/ \E t \in Tasks : DispatchSkip(th, t)
    <3>1. GoesOn(th)
      BY <2>1, GoesOnSteps
    <3>2. QED
      BY <1>1, <3>1 DEF GoesOn, RegisteredOnce, queueVars, Unborn
  <2>2. CASE \E t \in Tasks : DispatchStart(th, t)
    <3>1. PICK t \in Tasks : DispatchStart(th, t)
      BY <2>2
    <3>2. PICK w \in Workers :
           /\ TaskOf(w) = t /\ NextUnborn(w) /\ w # th
           /\ call'[w] = [at |-> "spawned"]
           /\ call'[th] = Dispatch(th, call[th].todo \ {t})
           /\ \A u \in Threads \ {th, w} : call'[u] = call[u]
      BY <3>1, StartMoves
    <3>3. /\ t \in jobs /\ Enqueued(t) /\ jobs' = jobs /\ call[th].at = "dispatch"
          /\ \A c \in Submitters : ~Registering(c, t)
      BY <3>1 DEF DispatchStart, RegisteredOnce, Start
    <3>4. call'[th].at \in {"idle", "finished", "dispatch"} /\ call[th] # Unborn
      BY <3>2, <3>3, DispatchAt DEF Unborn
    <3>5. \A u \in Workers \ {w} : Born(u)' => Born(u)
      BY <1>1, <3>2, <3>4
    <3>6. /\ \A c \in Submitters : call'[c].at = "register" => c # th /\ call'[c] = call[c]
          /\ \A u \in Workers : call'[u].at = "report" => call'[u] = call[u]
      BY <1>1, <3>2, <3>4
    <3>7. QED
      BY <1>1, <1>3, <3>2, <3>3, <3>5, <3>6 DEF RegisteredOnce
  <2>3. QED
    BY <1>4, <2>1, <2>2 DEF ThreadProceeds
<1>5. ASSUME NEW c \in Submitters, SubmitRegister(c) PROVE RegisteredOnce'
  <2>1. /\ call[c].at = "register" /\ call[c].task \in Tasks /\ jobs' = jobs \cup {call[c].task}
        /\ call'[c] = [at |-> "snapshot"] /\ \A u \in Threads \ {c} : call'[u] = call[u]
        /\ state' = state
    BY <1>1, <1>5, CallFields DEF SubmitRegister, queueVars
  <2>2. Enqueued(call[c].task)
    BY <2>1 DEF RegisteredOnce
  <2>3. \A w \in Workers : TaskOf(w) = call[c].task => call[w].at = "unborn"
    BY <2>1 DEF RegisteredOnce, Unborn
  <2>4. QED
    BY <1>1, <2>1, <2>2, <2>3 DEF RegisteredOnce
<1>6. ASSUME NEW c \in Submitters, NEW t \in Tasks, SubmitEnqueue(c, t) PROVE RegisteredOnce'
  <2>1. /\ call[c].at = "idle" /\ ~Enqueued(t) /\ jobs' = jobs
        /\ call'[c] = [at |-> "register", task |-> t] /\ \A u \in Threads \ {c} : call'[u] = call[u]
        /\ state' = [state EXCEPT ![t] = "Pending"] /\ state \in [Tasks -> TaskStates \cup {"Absent"}]
    BY <1>1, <1>6 DEF SubmitEnqueue, Enqueue, NoCall, QueueInv, QueueTypeOK
  <2>2. QED
    BY <1>1, <2>1 DEF RegisteredOnce
<1>7. ASSUME NEW w \in Workers, RunJobBegin(w) \/ \E ok \in BOOLEAN : JobEnds(w, ok)
      PROVE  RegisteredOnce'
  <2>1. /\ jobs' = jobs /\ state' = state /\ \A u \in Threads \ {w} : call'[u] = call[u]
        /\ call[w] # Unborn /\ call'[w].at # "report"
    BY <1>1, <1>7 DEF RunJobBegin, JobEnds, queueVars, Unborn, Finished
  <2>2. QED
    BY <1>1, <2>1 DEF RegisteredOnce
<1>8. ASSUME NEW w \in Workers, EraseJob(w) PROVE RegisteredOnce'
  <2>1. /\ jobs' = jobs \ {TaskOf(w)} /\ state' = state /\ \A u \in Threads \ {w} : call'[u] = call[u]
        /\ call[w] # Unborn
    BY <1>1, <1>8 DEF EraseJob, queueVars, Unborn
  <2>2. QED
    BY <1>1, <2>1 DEF RegisteredOnce
<1>9. ASSUME NEW w \in Workers, ReportOutcome(w) PROVE RegisteredOnce'
  <2>1. /\ jobs' = jobs /\ \A u \in Threads \ {w} : call'[u] = call[u]
        /\ call[w] # Unborn /\ call'[w].at = "snapshot"
    BY <1>1, <1>9 DEF ReportOutcome, Unborn
  <2>2. QED
    BY <1>1, <1>3, <2>1 DEF RegisteredOnce
<1>10. CASE (\E w \in Workers, p \in Reports : JobReportsProgress(w, p)) \/ QueueCall
             \/ UNCHANGED vars
  BY <1>2, <1>3, <1>10 DEF JobReportsProgress, QueueCall, execVars, vars
<1>11. CASE DestructorTakesWorkers \/ DestructorBodyEnds \/ DestructorReturns
  BY <1>2, <1>3, <1>11 DEF DestructorTakesWorkers, DestructorBodyEnds, DestructorReturns
<1>12. QED
  BY <1>1, <1>4, <1>5, <1>6, <1>7, <1>8, <1>9, <1>10, <1>11
     DEF Next, SubmitProceeds, WorkerProceeds

\* The other steps of the threads, likewise.
Starts(th, t, w) ==
  /\ t \in jobs /\ Start(t) /\ UNCHANGED <<jobs, owner>>
  /\ TaskOf(w) = t /\ NextUnborn(w) /\ w # th
  /\ DOMAIN call' = Threads /\ \A u \in Threads \ {th, w} : call'[u] = call[u]
  /\ call'[w] = [at |-> "spawned"]
  /\ call[th].at = "dispatch" /\ call[th] # Unborn
  /\ call'[th].at \in {"idle", "finished", "dispatch"} /\ call'[th] # Unborn
  /\ \A u \in Tasks \ {t} : WillTry(th, u) => WillTry(th, u)'
  /\ futures' = {v \in futures : call[v] # Finished} \cup {w}

Runs(w) ==
  /\ UNCHANGED <<queueVars, jobs, futures, owner>>
  /\ DOMAIN call' = Threads /\ \A u \in Threads \ {w} : call'[u] = call[u]
  /\ call[w] # Unborn /\ call'[w] # Unborn /\ call[w] # Finished
  /\ \/ call[w].at = "spawned" /\ TaskOf(w) \in jobs /\ call'[w].at = "running"
     \/ call[w].at = "spawned" /\ TaskOf(w) \notin jobs /\ call'[w].at = "finished"
     \/ call[w].at = "running" /\ call'[w].at = "erase"

Erases(w) ==
  /\ UNCHANGED <<queueVars, futures, owner>> /\ jobs' = jobs \ {TaskOf(w)}
  /\ DOMAIN call' = Threads /\ \A u \in Threads \ {w} : call'[u] = call[u]
  /\ call[w] # Unborn /\ call'[w] # Unborn /\ call[w] # Finished
  /\ call[w].at = "erase" /\ call'[w].at = "report"

Ends(w) ==
  /\ UNCHANGED <<jobs, futures, owner>>
  /\ Complete(TaskOf(w)) \/ Fail(TaskOf(w)) \/ (state[TaskOf(w)] # "Running" /\ UNCHANGED queueVars)
  /\ DOMAIN call' = Threads /\ \A u \in Threads \ {w} : call'[u] = call[u]
  /\ call[w] # Unborn /\ call'[w] # Unborn /\ call[w] # Finished
  /\ call[w].at = "report" /\ call'[w].at = "snapshot"

Submits(c, t) ==
  /\ UNCHANGED <<jobs, futures, owner>> /\ Enqueue(t) /\ owner.at = "using"
  /\ DOMAIN call' = Threads /\ \A u \in Threads \ {c} : call'[u] = call[u]
  /\ call[c].at = "idle" /\ call'[c].at = "register"

Registers(c, t) ==
  /\ UNCHANGED <<queueVars, futures, owner>> /\ jobs' = jobs \cup {t}
  /\ DOMAIN call' = Threads /\ \A u \in Threads \ {c} : call'[u] = call[u]
  /\ Registering(c, t) /\ call'[c].at = "snapshot"

QueueOnly ==
  /\ UNCHANGED execVars
  /\ QueueCall \/ (\E t \in Tasks, p \in Reports : ReportProgress(t, p)) \/ UNCHANGED queueVars

Destroys ==
  /\ UNCHANGED <<queueVars, jobs, call>>
  /\ DestructorTakesWorkers \/ DestructorBodyEnds \/ DestructorReturns

\* Every step is one of these.
LEMMA StepKinds ==
  ASSUME BaseInv, [Next]_vars
  PROVE  \/ \E th \in Threads : GoesOn(th)
         \/ \E th \in Threads, t \in Tasks, w \in Workers : Starts(th, t, w)
         \/ \E w \in Workers : Runs(w) \/ Erases(w) \/ Ends(w)
         \/ \E c \in Submitters, t \in Tasks : Submits(c, t) \/ Registers(c, t)
         \/ QueueOnly \/ Destroys
<1> DEFINE Goal ==
      \/ \E th \in Threads : GoesOn(th)
      \/ \E th \in Threads, t \in Tasks, w \in Workers : Starts(th, t, w)
      \/ \E w \in Workers : Runs(w) \/ Erases(w) \/ Ends(w)
      \/ \E c \in Submitters, t \in Tasks : Submits(c, t) \/ Registers(c, t)
      \/ QueueOnly \/ Destroys
<1> TypeOK /\ DOMAIN call = Threads
  BY DEF BaseInv
<1>1. ASSUME NEW th \in Threads, ThreadProceeds(th) PROVE Goal
  <2>1. CASE Snapshot(th) \/ \E t \in Tasks : DispatchSkip(th, t)
    BY <2>1, GoesOnSteps
  <2>2. CASE \E t \in Tasks : DispatchStart(th, t)
    <3>1. PICK t \in Tasks : DispatchStart(th, t)
      BY <2>2
    <3>2. PICK w \in Workers :
           /\ TaskOf(w) = t /\ NextUnborn(w) /\ w # th
           /\ call'[w] = [at |-> "spawned"]
           /\ call'[th] = Dispatch(th, call[th].todo \ {t})
           /\ \A u \in Threads \ {th, w} : call'[u] = call[u]
           /\ DOMAIN call' = Threads
           /\ futures' = {v \in futures : call[v] # Finished} \cup {w}
      BY <3>1, StartMoves
    <3>3. /\ call[th].at = "dispatch" /\ t \in jobs /\ Start(t) /\ UNCHANGED <<jobs, owner>>
          /\ call[th] # Unborn
      BY <3>1 DEF DispatchStart, Unborn
    <3>4. /\ call'[th].at \in {"idle", "finished", "dispatch"} /\ call'[th] # Unborn
          /\ \A u \in Tasks \ {t} : WillTry(th, u) => WillTry(th, u)'
      BY <3>2, <3>3, DispatchAt DEF WillTry
    <3>5. Starts(th, t, w)
      BY <3>2, <3>3, <3>4 DEF Starts
    <3>6. QED
      BY <3>5
  <2>3. QED
    BY <1>1, <2>1, <2>2 DEF ThreadProceeds
<1>2. ASSUME NEW w \in Workers, RunJobBegin(w) \/ \E ok \in BOOLEAN : JobEnds(w, ok) PROVE Runs(w)
  BY <1>2, WorkerFields DEF RunJobBegin, JobEnds, Runs, Unborn, Finished
<1>3. ASSUME NEW w \in Workers, EraseJob(w) PROVE Erases(w)
  BY <1>3, WorkerFields DEF EraseJob, Erases, Unborn, Finished
<1>4. ASSUME NEW w \in Workers, ReportOutcome(w) PROVE Ends(w)
  BY <1>4, WorkerFields DEF ReportOutcome, Ends, Unborn, Finished
<1>5. ASSUME NEW c \in Submitters, SubmitRegister(c) PROVE \E t \in Tasks : Registers(c, t)
  <2>1. c \in Threads /\ call[c].task \in Tasks
    BY <1>5, CallFields DEF SubmitRegister, Threads
  <2>2. Registers(c, call[c].task)
    BY <1>5, <2>1 DEF SubmitRegister, Registers, Registering
  <2>3. QED
    BY <2>1, <2>2
<1>6. ASSUME NEW c \in Submitters, NEW t \in Tasks, SubmitEnqueue(c, t) PROVE Submits(c, t)
  BY <1>6 DEF SubmitEnqueue, Submits, NoCall, Threads
<1>7. ASSUME NEW w \in Workers, NEW p \in Reports, JobReportsProgress(w, p) PROVE QueueOnly
  BY <1>7, WorkerFields DEF JobReportsProgress, QueueOnly
<1>8. CASE QueueCall \/ UNCHANGED vars
  BY <1>8 DEF QueueOnly, QueueCall, vars
<1>9. CASE DestructorTakesWorkers \/ DestructorBodyEnds \/ DestructorReturns
  BY <1>9 DEF Destroys, DestructorTakesWorkers, DestructorBodyEnds, DestructorReturns
<1>10. Submitters \subseteq Threads /\ Workers \subseteq Threads
  BY DEF Threads
<1>11. CASE \E c \in Submitters : SubmitProceeds(c) \/ \E t \in Tasks : SubmitEnqueue(c, t)
  <2>1. PICK c \in Submitters : SubmitProceeds(c) \/ \E t \in Tasks : SubmitEnqueue(c, t)
    BY <1>11
  <2>2. CASE ThreadProceeds(c)
    BY <1>1, <1>10, <2>2
  <2>3. CASE SubmitRegister(c)
    BY <1>5, <2>3 DEF Goal
  <2>4. CASE \E t \in Tasks : SubmitEnqueue(c, t)
    BY <1>6, <2>4 DEF Goal
  <2>5. QED
    BY <2>1, <2>2, <2>3, <2>4 DEF SubmitProceeds
<1>12. CASE \E w \in Workers : WorkerProceeds(w) \/ \E p \in Reports : JobReportsProgress(w, p)
  <2>1. PICK w \in Workers : WorkerProceeds(w) \/ \E p \in Reports : JobReportsProgress(w, p)
    BY <1>12
  <2>2. CASE ThreadProceeds(w)
    BY <1>1, <1>10, <2>2
  <2>3. CASE RunJobBegin(w) \/ (\E ok \in BOOLEAN : JobEnds(w, ok)) \/ EraseJob(w) \/ ReportOutcome(w)
    BY <1>2, <1>3, <1>4, <2>3 DEF Goal
  <2>4. CASE \E p \in Reports : JobReportsProgress(w, p)
    BY <1>7, <2>4 DEF Goal
  <2>5. QED
    BY <2>1, <2>2, <2>3, <2>4 DEF WorkerProceeds
<1>13. QED
  BY <1>8, <1>9, <1>11, <1>12 DEF Next

\* A satisfied dependency stays satisfied, and workers are born by Start() only.
LEMMA DependenciesStay ==
  ASSUME QueueTypeOK, [NextQueue]_queueVars, NEW t \in Tasks, DependenciesSatisfied(t)
  PROVE  DependenciesSatisfied(t)'
<1>1. ASSUME NEW d \in DependsOn[t] PROVE state'[d] = "Completed"
  BY StepOfTask, DependsOnIsFunction DEF DependenciesSatisfied
<1>2. QED
  BY <1>1 DEF DependenciesSatisfied

\* A worker is born when its task is started, one at a time.
LEMMA BornNext ==
  ASSUME BaseInv, [Next]_vars
  PROVE  \/ \A v \in Workers : Born(v)' <=> Born(v)
         \/ \E th \in Threads, t \in Tasks, w \in Workers :
              Starts(th, t, w) /\ \A v \in Workers : Born(v)' <=> Born(v) \/ v = w
<1> USE DEF Born
<1>1. /\ Submitters \subseteq Threads /\ Workers \subseteq Threads /\ Submitters \cap Workers = {}
      /\ Unborn.at = "unborn"
  BY ThreadsApart DEF Threads, Unborn
<1>2. CASE \E th \in Threads, t \in Tasks, w \in Workers : Starts(th, t, w)
  <2>1. PICK th \in Threads, t \in Tasks, w \in Workers : Starts(th, t, w)
    BY <1>2
  <2>2. \A v \in Workers : Born(v)' <=> Born(v) \/ v = w
    BY <1>1, <2>1 DEF Starts, Unborn
  <2>3. QED
    BY <2>1, <2>2
<1>3. CASE \E th \in Threads : GoesOn(th)
  BY <1>1, <1>3 DEF GoesOn
<1>4. CASE \E w \in Workers : Runs(w) \/ Erases(w) \/ Ends(w)
  BY <1>1, <1>4 DEF Runs, Erases, Ends
<1>5. CASE \E c \in Submitters, t \in Tasks : Submits(c, t) \/ Registers(c, t)
  BY <1>1, <1>5 DEF Submits, Registers
<1>6. CASE QueueOnly \/ Destroys
  BY <1>6 DEF QueueOnly, Destroys, execVars
<1>7. QED
  BY <1>2, <1>3, <1>4, <1>5, <1>6, StepKinds

\* Every step keeps the basic invariant.
LEMMA BaseInvNext ==
  ASSUME BaseInv, [Next]_vars
  PROVE  BaseInv'
<1>1. [NextQueue]_queueVars /\ QueueInv /\ QueueTypeOK
  BY ExecutorUsesQueue DEF BaseInv, QueueInv
<1>2. ASSUME NEW w \in Workers, Born(w)' PROVE DependenciesSatisfied(TaskOf(w))'
  <2>1. TaskOf(w) \in Tasks
    BY WorkerFields
  <2>2. CASE Born(w)
    BY <1>1, <2>1, <2>2, DependenciesStay DEF BaseInv
  <2>3. CASE ~Born(w)
    <3>1. DependenciesSatisfied(TaskOf(w))
      BY <1>2, <2>3, BornNext DEF Starts, Start
    <3>2. QED
      BY <1>1, <2>1, <3>1, DependenciesStay
  <2>4. QED
    BY <2>2, <2>3
<1>3. QED
  BY <1>1, <1>2, TypeNext, RegisteredNext, QueueInvNext DEF BaseInv

\* It holds at first.
LEMMA BaseInvInit == Init => BaseInv
<1> SUFFICES ASSUME Init PROVE BaseInv
  OBVIOUS
<1>1. /\ QueueInv /\ jobs = {} /\ futures = {} /\ owner = [at |-> "using"]
      /\ call = [th \in Threads |-> IF th \in Submitters THEN NoCall ELSE Unborn]
      /\ \A t \in Tasks : state[t] = "Absent"
  BY QueueInvInit DEF Init, InitQueue
<1>2. \A th \in Threads : call[th] \in CallType(th)
  BY <1>1 DEF CallType, Return
<1>3. TypeOK
  BY <1>1, <1>2 DEF TypeOK, QueueInv
<1>4. \A w \in Workers : w \in Threads /\ w \notin Submitters
  BY WorkerFields
<1>5. \A c \in Submitters : c \in Threads
  BY DEF Threads
<1>6. RegisteredOnce /\ \A w \in Workers : ~Born(w)
  BY <1>1, <1>4, <1>5 DEF RegisteredOnce, Registering, Enqueued, Born, Unborn, NoCall
<1>7. QED
  BY <1>1, <1>3, <1>6 DEF BaseInv

\* It holds in every behaviour.
LEMMA BaseInvariance == Spec => []BaseInv
  BY BaseInvInit, BaseInvNext, PTL DEF Spec

\* A job runs only when every dependency of its task is Completed, whatever
\* happened to its task meanwhile.
THEOREM JobsWaitForDependencies == Spec => []JobAfterDependencies
<1>1. BaseInv => JobAfterDependencies
  <2> SUFFICES ASSUME BaseInv, NEW w \in Workers, call[w].at = "running"
               PROVE  DependenciesSatisfied(TaskOf(w))
    BY DEF JobAfterDependencies, DependenciesSatisfied
  <2> QED
    BY DEF BaseInv, Born, Unborn
<1>2. QED
  BY <1>1, BaseInvariance, PTL

\* The executor's queue is a task queue: what is proved of the queue holds
\* under the executor.
THEOREM ExecutorImplementsQueue == Spec => QueueSpec
<1>1. Init => InitQueue
  BY DEF Init
<1>2. BaseInv /\ [Next]_vars => [NextQueue]_queueVars
  BY ExecutorUsesQueue DEF BaseInv
<1>3. QED
  BY <1>1, <1>2, BaseInvariance, PTL DEF Spec, QueueSpec

-----------------------------------------------------------------------------
(* Attempts and their workers.                                             *)

\* A step that starts no task leaves a task's attempt as it is, or gives a
\* failed task another one.
LEMMA AttemptKept ==
  ASSUME BaseInv, [Next]_vars, NEW t \in Tasks,
         ~\E th \in Threads, w \in Workers : Starts(th, t, w)
  PROVE  /\ state'[t] \in {"Running", "Paused", "Completed", "Failed"} =>
              state[t] \in {"Running", "Paused", "Completed", "Failed"} /\ retryCount'[t] = retryCount[t]
         /\ state'[t] \in {"Absent", "Pending"} =>
              \/ state[t] \in {"Absent", "Pending"} /\ retryCount'[t] = retryCount[t]
              \/ "Retry" \in Calls /\ state[t] = "Failed" /\ retryCount'[t] = retryCount[t] + 1
         /\ state'[t] = "Failed" =>
              \/ state[t] = "Failed"
              \/ "CheckTimeouts" \in Calls
              \/ \E w \in Workers : TaskOf(w) = t /\ Ends(w)
<1> DEFINE Goal ==
      /\ state'[t] \in {"Running", "Paused", "Completed", "Failed"} =>
           state[t] \in {"Running", "Paused", "Completed", "Failed"} /\ retryCount'[t] = retryCount[t]
      /\ state'[t] \in {"Absent", "Pending"} =>
           \/ state[t] \in {"Absent", "Pending"} /\ retryCount'[t] = retryCount[t]
           \/ "Retry" \in Calls /\ state[t] = "Failed" /\ retryCount'[t] = retryCount[t] + 1
      /\ state'[t] = "Failed" =>
           \/ state[t] = "Failed"
           \/ "CheckTimeouts" \in Calls
           \/ \E w \in Workers : TaskOf(w) = t /\ Ends(w)
<1>t. state \in [Tasks -> TaskStates \cup {"Absent"}] /\ retryCount \in [Tasks -> Nat]
  BY DEF BaseInv, QueueInv, QueueTypeOK
<1>1. ASSUME UNCHANGED queueVars PROVE Goal
  BY <1>t, <1>1 DEF queueVars, TaskStates
<1>2. ASSUME NEW w \in Workers, Ends(w) PROVE Goal
  <2>1. TaskOf(w) \in Tasks
    BY WorkerFields
  <2>2. CASE UNCHANGED queueVars
    BY <1>1, <2>2
  <2>3. CASE Complete(TaskOf(w))
    BY <1>t, <2>1, <2>3 DEF Complete, TaskStates
  <2>4. CASE Fail(TaskOf(w))
    BY <1>t, <1>2, <2>1, <2>4 DEF Fail, TaskStates
  <2>5. QED
    BY <1>2, <2>2, <2>3, <2>4 DEF Ends
<1>3. ASSUME NEW th \in Threads, NEW u \in Tasks, NEW w \in Workers, Starts(th, u, w) PROVE Goal
  BY <1>t, <1>3 DEF Starts, Start, TaskStates
<1>4. ASSUME NEW c \in Submitters, NEW u \in Tasks, Submits(c, u) PROVE Goal
  BY <1>t, <1>4 DEF Submits, Enqueue, Enqueued, TaskStates
<1>5. CASE QueueOnly
  <2>1. ASSUME NEW u \in Tasks, NEW p \in Reports, ReportProgress(u, p) PROVE Goal
    BY <1>t, <2>1 DEF ReportProgress, TaskStates
  <2>2. ASSUME NEW u \in Tasks, Pause(u) \/ Resume(u) PROVE Goal
    BY <1>t, <2>2 DEF Pause, Resume, TaskStates
  <2>3. ASSUME NEW u \in Tasks, Cancel(u) PROVE Goal
    BY <1>t, <2>3 DEF Cancel, TaskStates
  <2>4. ASSUME NEW u \in Tasks, "Retry" \in Calls, Retry(u) PROVE Goal
    BY <1>t, <2>4 DEF Retry, TaskStates
  <2>5. ASSUME "CheckTimeouts" \in Calls, NEW expired \in SUBSET Timed, CheckTimeouts(expired) PROVE Goal
    BY <1>t, <2>5 DEF CheckTimeouts, TaskStates
  <2>6. QED
    BY <1>1, <1>5, <2>1, <2>2, <2>3, <2>4, <2>5 DEF QueueOnly, QueueCall
<1>6. CASE (\E th \in Threads : GoesOn(th)) \/ (\E w \in Workers : Runs(w) \/ Erases(w))
             \/ (\E c \in Submitters, u \in Tasks : Registers(c, u)) \/ Destroys
  BY <1>1, <1>6 DEF GoesOn, Runs, Erases, Registers, Destroys
<1>7. QED
  BY <1>2, <1>3, <1>4, <1>5, <1>6, StepKinds

\* The worker that Start() is given is that of the present attempt.
LEMMA StartedWorker ==
  ASSUME BaseInv, AttemptsCounted, NEW th \in Threads, NEW t \in Tasks, NEW w \in Workers,
         Starts(th, t, w)
  PROVE  w[2] = retryCount[t]
<1>1. /\ TaskOf(w) = t /\ ~Born(w) /\ \A n \in 0..(w[2] - 1) : Born(<<t, n>>)
      /\ state[t] = "Pending" /\ w[2] \in Nat /\ w[2] <= MaxRetries[t]
      /\ retryCount[t] \in Nat /\ MaxRetries[t] \in Nat
  <2>1. retryCount[t] \in Nat /\ MaxRetries[t] \in Nat
    BY MaxRetriesIsNatural DEF BaseInv, QueueInv, QueueTypeOK
  <2>2. TaskOf(w) = t /\ NextUnborn(w) /\ state[t] = "Pending"
    BY DEF Starts, Start
  <2>3. w[2] \in Nat /\ w[2] <= MaxRetries[t]
    BY <2>1, <2>2, WorkerFields
  <2>4. QED
    BY <2>1, <2>2, <2>3 DEF NextUnborn, Born
<1>2. w[2] >= retryCount[t]
  BY <1>1 DEF AttemptsCounted
<1>3. ASSUME w[2] > retryCount[t] PROVE FALSE
  <2>1. retryCount[t] \in 0..MaxRetries[t] /\ retryCount[t] \in 0..(w[2] - 1)
    BY <1>1, <1>3
  <2>2. /\ <<t, retryCount[t]>> \in Workers /\ TaskOf(<<t, retryCount[t]>>) = t
        /\ <<t, retryCount[t]>>[2] = retryCount[t]
    BY <2>1, WorkerNamed
  <2>3. Born(<<t, retryCount[t]>>)
    BY <1>1, <2>1
  <2>4. Born(<<t, retryCount[t]>>) <=> <<t, retryCount[t]>>[2] < retryCount[t]
    BY <1>1, <2>2 DEF AttemptsCounted
  <2>5. QED
    BY <1>1, <2>2, <2>3, <2>4
<1>4. QED
  BY <1>1, <1>2, <1>3

\* The workers of a task that were born are the attempts it has had.
LEMMA AttemptsCountedNext ==
  ASSUME BaseInv, AttemptsCounted, [Next]_vars
  PROVE  AttemptsCounted'
<1> DEFINE Counted(w) ==
      /\ state'[TaskOf(w)] \in {"Absent", "Pending"} =>
           (Born(w)' <=> w[2] < retryCount'[TaskOf(w)])
      /\ state'[TaskOf(w)] \in {"Running", "Paused", "Completed", "Failed"} =>
           (Born(w)' <=> w[2] <= retryCount'[TaskOf(w)])
<1>t. state \in [Tasks -> TaskStates \cup {"Absent"}] /\ retryCount \in [Tasks -> Nat]
  BY DEF BaseInv, QueueInv, QueueTypeOK
<1>1. ASSUME NEW v \in Workers PROVE Counted(v)
  <2>1. TaskOf(v) \in Tasks /\ v[2] \in Nat
    BY WorkerFields, MaxRetriesIsNatural
  <2>2. /\ state[TaskOf(v)] \in {"Absent", "Pending"} => (Born(v) <=> v[2] < retryCount[TaskOf(v)])
        /\ state[TaskOf(v)] \in {"Running", "Paused", "Completed", "Failed"} =>
             (Born(v) <=> v[2] <= retryCount[TaskOf(v)])
    BY DEF AttemptsCounted
  <2>3. CASE \E th \in Threads, w \in Workers : Starts(th, TaskOf(v), w)
    <3>1. PICK th \in Threads, w \in Workers : Starts(th, TaskOf(v), w)
      BY <2>3
    <3>2. /\ w[2] = retryCount[TaskOf(v)] /\ state[TaskOf(v)] = "Pending"
          /\ state'[TaskOf(v)] = "Running" /\ retryCount' = retryCount
      BY <1>t, <2>1, <3>1, StartedWorker DEF Starts, Start
    <3>3. Born(v)' <=> Born(v) \/ v = w
      BY <3>1, ThreadsApart DEF Starts, Born, Unborn, Threads
    <3>4. v = w <=> v[2] = w[2]
      BY <3>1, WorkerFields DEF Starts
    <3>5. QED
      BY <1>t, <2>1, <2>2, <3>2, <3>3, <3>4
  <2>4. CASE ~\E th \in Threads, w \in Workers : Starts(th, TaskOf(v), w)
    <3>1. Born(v)' <=> Born(v)
      BY <2>4, BornNext DEF Starts
    <3>2. QED
      BY <1>t, <2>1, <2>2, <2>4, <3>1, AttemptKept
  <2>5. QED
    BY <2>3, <2>4
<1>2. QED
  BY <1>1 DEF AttemptsCounted

\* No attempt was made at first.
LEMMA AttemptsCountedInit == Init => BaseInv /\ AttemptsCounted
<1> SUFFICES ASSUME Init, NEW w \in Workers
             PROVE  ~Born(w) /\ retryCount[TaskOf(w)] = 0 /\ w[2] \in Nat /\ state[TaskOf(w)] = "Absent"
  BY BaseInvInit DEF AttemptsCounted
<1>1. w \in Threads /\ w \notin Submitters /\ TaskOf(w) \in Tasks /\ w[2] \in Nat
  BY WorkerFields, MaxRetriesIsNatural
<1>2. QED
  BY <1>1 DEF Init, InitQueue, Born

\* Workers are numbered by attempts in every behaviour.
LEMMA CountedInvariance == Spec => [](BaseInv /\ AttemptsCounted)
  BY AttemptsCountedInit, AttemptsCountedNext, BaseInvNext, PTL DEF Spec

\* Threads that move on owe no report, and are not active, that did and were
\* not before, but for the one that is started.
LEMMA OwesNext ==
  ASSUME BaseInv, [Next]_vars, NEW v \in Workers
  PROVE  /\ Owes(v)' => Owes(v) \/ \E th \in Threads, t \in Tasks : Starts(th, t, v)
         /\ Active(v)' => Active(v) \/ \E th \in Threads, t \in Tasks : Starts(th, t, v)
<1> DEFINE Goal ==
      /\ Owes(v)' => Owes(v) \/ \E th \in Threads, t \in Tasks : Starts(th, t, v)
      /\ Active(v)' => Active(v) \/ \E th \in Threads, t \in Tasks : Starts(th, t, v)
<1> USE DEF Owes, Active
<1>1. /\ Submitters \subseteq Threads /\ Workers \subseteq Threads /\ Submitters \cap Workers = {}
      /\ Unborn.at = "unborn" /\ Finished.at = "finished"
  BY ThreadsApart DEF Threads, Unborn, Finished
<1>2. ASSUME NEW th \in Threads, NEW t \in Tasks, NEW w \in Workers, Starts(th, t, w) PROVE Goal
  BY <1>1, <1>2 DEF Starts
<1>3. ASSUME NEW th \in Threads, GoesOn(th) PROVE Goal
  BY <1>1, <1>3 DEF GoesOn
<1>4. ASSUME NEW w \in Workers, Runs(w) \/ Erases(w) \/ Ends(w) PROVE Goal
  BY <1>1, <1>4 DEF Runs, Erases, Ends
<1>5. ASSUME NEW c \in Submitters, NEW t \in Tasks, Submits(c, t) \/ Registers(c, t) PROVE Goal
  BY <1>1, <1>5 DEF Submits, Registers
<1>6. CASE QueueOnly \/ Destroys
  BY <1>6 DEF QueueOnly, Destroys, execVars
<1>7. QED
  BY <1>2, <1>3, <1>4, <1>5, <1>6, StepKinds

\* Without timeouts a task fails only by the report of its worker.
LEMMA AttemptInvNext ==
  ASSUME "CheckTimeouts" \notin Calls, BaseInv, AttemptsCounted, AttemptInv, [Next]_vars
  PROVE  AttemptInv'
<1>t. state \in [Tasks -> TaskStates \cup {"Absent"}] /\ retryCount \in [Tasks -> Nat]
  BY DEF BaseInv, QueueInv, QueueTypeOK
<1>1. ASSUME NEW v \in Workers, Owes(v)'
      PROVE  /\ state'[TaskOf(v)] \notin {"Absent", "Pending", "Failed"}
             /\ v[2] = retryCount'[TaskOf(v)]
  <2>1. TaskOf(v) \in Tasks
    BY WorkerFields
  <2>2. CASE \E th \in Threads, t \in Tasks : Starts(th, t, v)
    <3>1. PICK th \in Threads, t \in Tasks : Starts(th, t, v)
      BY <2>2
    <3>2. v[2] = retryCount[t] /\ TaskOf(v) = t
      BY <3>1, StartedWorker DEF Starts
    <3>3. state'[t] = "Running" /\ retryCount' = retryCount
      BY <1>t, <3>1 DEF Starts, Start
    <3>4. QED
      BY <3>2, <3>3
  <2>3. CASE ~\E th \in Threads, t \in Tasks : Starts(th, t, v)
    <3>1. Owes(v)
      BY <1>1, <2>3, OwesNext
    <3>2. state[TaskOf(v)] \notin {"Absent", "Pending", "Failed"} /\ v[2] = retryCount[TaskOf(v)]
      BY <3>1 DEF AttemptInv
    <3>3. ~\E th \in Threads, w \in Workers : Starts(th, TaskOf(v), w)
      BY <3>2 DEF Starts, Start
    <3>4. ASSUME NEW w \in Workers, TaskOf(w) = TaskOf(v), Ends(w) PROVE FALSE
      <4>1. Owes(w)
        BY <3>4 DEF Ends, Owes
      <4>2. w = v
        BY <3>1, <3>4, <4>1 DEF AttemptInv, OneWorker
      <4>3. QED
        BY <1>1, <3>4, <4>2 DEF Ends, Owes
    <3>5. state'[TaskOf(v)] \notin {"Absent", "Pending", "Failed"}
      BY <2>1, <3>2, <3>3, <3>4, AttemptKept
    <3>6. CASE state'[TaskOf(v)] = "Cancelled"
      <4>1. retryCount'[TaskOf(v)] = retryCount[TaskOf(v)]
        BY <1>t, <2>1, <3>2, <3>6, ExecutorUsesQueue
           DEF BaseInv, NextQueue, queueVars, Enqueue, Start, Pause, Resume, Complete, Fail, Retry,
               Cancel, ReportProgress, CheckTimeouts
      <4>2. QED
        BY <3>2, <3>5, <4>1
    <3>7. CASE state'[TaskOf(v)] # "Cancelled"
      <4>1. QueueTypeOK'
        BY TypeNext DEF TypeOK
      <4>2. state'[TaskOf(v)] \in {"Running", "Paused", "Completed", "Failed"}
        BY <2>1, <3>5, <3>7, <4>1 DEF QueueTypeOK, TaskStates
      <4>3. QED
        BY <2>1, <3>2, <3>3, <3>5, <4>2, AttemptKept
    <3>8. QED
      BY <3>6, <3>7
  <2>4. QED
    BY <2>2, <2>3
<1>2. OneWorker'
  <2>1. SUFFICES ASSUME NEW w \in Workers, NEW v \in Workers, TaskOf(w) = TaskOf(v),
                        Owes(w)', Owes(v)'
                 PROVE  w = v
    BY DEF OneWorker
  <2>2. w[2] = v[2]
    BY <1>1, <2>1
  <2>3. QED
    BY <2>1, <2>2, WorkerFields
<1>3. ASSUME NEW t \in Tasks, state'[t] = "Failed" PROVE t \notin jobs'
  <2>1. ~\E th \in Threads, w \in Workers : Starts(th, t, w)
    BY <1>t, <1>3 DEF Starts, Start
  <2>2. t \notin jobs
    BY <1>3, <2>1, AttemptKept DEF AttemptInv, Ends, BaseInv, RegisteredOnce
  <2>3. ASSUME NEW c \in Submitters, Registers(c, t) PROVE FALSE
    <3>1. state[t] = "Failed" /\ Registering(c, t)
      BY <1>3, <2>3 DEF Registers, queueVars
    <3>2. <<t, 0>> \in Workers /\ TaskOf(<<t, 0>>) = t /\ <<t, 0>>[2] = 0
      BY WorkerNamed, MaxRetriesIsNatural
    <3>3. Born(<<t, 0>>)
      BY <1>t, <3>1, <3>2 DEF AttemptsCounted
    <3>4. QED
      BY <3>1, <3>2, <3>3 DEF BaseInv, RegisteredOnce
  <2>4. QED
    BY <2>2, <2>3, StepKinds DEF GoesOn, Starts, Runs, Erases, Ends, Submits, Registers, QueueOnly,
       Destroys, execVars
<1>4. QED
  BY <1>1, <1>2, <1>3 DEF AttemptInv

\* No worker owes a report at first.
LEMMA AttemptInvInit == Init => AttemptInv
<1> SUFFICES ASSUME Init PROVE AttemptInv
  OBVIOUS
<1>1. ASSUME NEW w \in Workers PROVE call[w] = Unborn
  BY WorkerFields DEF Init
<1>2. \A t \in Tasks : t \notin jobs
  BY DEF Init
<1>3. QED
  BY <1>1, <1>2 DEF AttemptInv, OneWorker, Owes, Unborn

\* Where no timeout fails a task whose job still runs, every task is run by
\* one worker at a time: the one of its present attempt.
THEOREM OneWorkerAtATime ==
  ASSUME "CheckTimeouts" \notin Calls
  PROVE  Spec => []OneWorker
<1> DEFINE Inv == BaseInv /\ AttemptsCounted /\ AttemptInv
<1>1. Init => Inv
  BY AttemptsCountedInit, AttemptInvInit
<1>2. Inv /\ [Next]_vars => Inv'
  BY BaseInvNext, AttemptsCountedNext, AttemptInvNext
<1>3. Inv => OneWorker
  BY DEF AttemptInv
<1>4. QED
  BY <1>1, <1>2, <1>3, PTL DEF Spec

\* Under the same condition only the present attempt completes a task.
THEOREM PresentAttemptCompletes ==
  ASSUME "CheckTimeouts" \notin Calls
  PROVE  Spec => CompletedByPresentAttempt
<1> DEFINE Inv == BaseInv /\ AttemptsCounted /\ AttemptInv
           Present == \A w \in Workers :
             ReportOutcome(w) /\ state'[TaskOf(w)] = "Completed" /\ state[TaskOf(w)] # "Completed"
               => w[2] = retryCount[TaskOf(w)]
<1>1. Init => Inv
  BY AttemptsCountedInit, AttemptInvInit
<1>2. Inv /\ [Next]_vars => Inv'
  BY BaseInvNext, AttemptsCountedNext, AttemptInvNext
<1>3. Inv => Present
  BY DEF AttemptInv, Owes, ReportOutcome
<1>4. Inv /\ [Next]_vars => [Present]_vars
  BY <1>3
<1>5. QED
  BY <1>1, <1>2, <1>4, PTL DEF Spec, CompletedByPresentAttempt

-----------------------------------------------------------------------------
(* Owners of Running tasks.                                                *)

\* Without pauses a Running task keeps its worker until it reports.
LEMMA OwnedInvNext ==
  ASSUME "Pause" \notin Calls, BaseInv, OwnedInv, [Next]_vars
  PROVE  OwnedInv'
<1>t. state \in [Tasks -> TaskStates \cup {"Absent"}]
  BY DEF BaseInv, QueueInv, QueueTypeOK
<1>0. /\ Submitters \subseteq Threads /\ Workers \subseteq Threads /\ Submitters \cap Workers = {}
      /\ Unborn.at = "unborn"
  BY ThreadsApart DEF Threads, Unborn
<1> DEFINE Owner(w, t) == TaskOf(w) = t /\ Owes(w) /\ (call[w].at = "spawned" => t \in jobs)
           Owned(t) == state'[t] = "Running" => \E w \in Workers : Owner(w, t)'
\* What the step does to a task's state.
<1>1. ASSUME NEW t \in Tasks
      PROVE  /\ state'[t] # "Paused"
             /\ state'[t] = "Running" =>
                  state[t] = "Running" \/ \E th \in Threads, w \in Workers : Starts(th, t, w)
  <2> DEFINE Goal == /\ state'[t] # "Paused"
                     /\ state'[t] = "Running" =>
                          \/ state[t] = "Running"
                          \/ \E th \in Threads, w \in Workers : Starts(th, t, w)
  <2>1. state[t] # "Paused"
    BY DEF OwnedInv
  <2>2. ASSUME UNCHANGED queueVars PROVE Goal
    BY <2>1, <2>2 DEF queueVars
  <2>3. ASSUME NEW th \in Threads, NEW u \in Tasks, NEW w \in Workers, Starts(th, u, w) PROVE Goal
    BY <1>t, <2>1, <2>3 DEF Starts, Start
  <2>4. ASSUME NEW w \in Workers, Ends(w) PROVE Goal
    BY <1>t, <2>1, <2>2, <2>4, WorkerFields DEF Ends, Complete, Fail
  <2>5. ASSUME NEW c \in Submitters, NEW u \in Tasks, Submits(c, u) PROVE Goal
    BY <1>t, <2>1, <2>5 DEF Submits, Enqueue
  <2>6. CASE QueueOnly
    BY <1>t, <2>1, <2>2, <2>6 DEF QueueOnly, QueueCall, Cancel, Retry, CheckTimeouts, ReportProgress
  <2>7. CASE (\E th \in Threads : GoesOn(th)) \/ (\E w \in Workers : Runs(w) \/ Erases(w))
             \/ (\E c \in Submitters, u \in Tasks : Registers(c, u)) \/ Destroys
    BY <2>2, <2>7 DEF GoesOn, Runs, Erases, Registers, Destroys
  <2>8. QED
    BY <2>3, <2>4, <2>5, <2>6, <2>7, StepKinds
<1>2. ASSUME NEW t \in Tasks, state'[t] = "Running" PROVE \E w \in Workers : Owner(w, t)'
  <2>1. CASE \E th \in Threads, w \in Workers : Starts(th, t, w)
    BY <2>1 DEF Starts, Owes
  <2>2. CASE state[t] = "Running"
    <3>1. PICK w \in Workers : Owner(w, t)
      BY <2>2 DEF OwnedInv
    <3>2. ASSUME NEW v \in Workers, Erases(v) PROVE \E x \in Workers : Owner(x, t)'
      <4>1. CASE TaskOf(v) = t
        BY <3>2, <4>1 DEF Erases, Owes
      <4>2. CASE TaskOf(v) # t
        BY <1>0, <3>1, <3>2, <4>2 DEF Erases, Owes
      <4>3. QED
        BY <4>1, <4>2
    <3>3. ASSUME NEW v \in Workers, Ends(v) PROVE Owner(w, t)'
      <4>1. TaskOf(v) # t
        <5>1. SUFFICES ASSUME TaskOf(v) = t PROVE FALSE
          OBVIOUS
        <5>2. QED
          BY <1>t, <1>2, <2>2, <3>3, <5>1 DEF Ends, Complete, Fail
      <4>2. QED
        BY <1>0, <3>1, <3>3, <4>1 DEF Ends, Owes
    <3>4. ASSUME NEW v \in Workers, Runs(v) PROVE Owner(w, t)'
      BY <1>0, <3>1, <3>4 DEF Runs, Owes
    <3>5. ASSUME NEW th \in Threads, NEW u \in Tasks, NEW v \in Workers, Starts(th, u, v)
          PROVE  Owner(w, t)'
      BY <1>0, <3>1, <3>5 DEF Starts, Owes, NextUnborn
    <3>6. ASSUME NEW th \in Threads, GoesOn(th) PROVE Owner(w, t)'
      BY <1>0, <3>1, <3>6 DEF GoesOn, Owes
    <3>7. ASSUME NEW c \in Submitters, NEW u \in Tasks, Submits(c, u) \/ Registers(c, u)
          PROVE  Owner(w, t)'
      BY <1>0, <3>1, <3>7 DEF Submits, Registers, Owes
    <3>8. CASE QueueOnly \/ Destroys
      BY <3>1, <3>8 DEF QueueOnly, Destroys, execVars, Owes
    <3>9. QED
      BY <3>2, <3>3, <3>4, <3>5, <3>6, <3>7, <3>8, StepKinds
  <2>3. QED
    BY <1>1, <1>2, <2>1, <2>2
<1>3. QED
  BY <1>1, <1>2 DEF OwnedInv

\* Where nothing is paused, a Running task has a worker that will report its
\* outcome: no task stays Running for ever.
THEOREM RunningIsOwned ==
  ASSUME "Pause" \notin Calls
  PROVE  Spec => []RunningHasWorker
<1>1. Init => BaseInv /\ OwnedInv
  BY BaseInvInit DEF Init, InitQueue, OwnedInv
<1>2. BaseInv /\ OwnedInv /\ [Next]_vars => (BaseInv /\ OwnedInv)'
  BY BaseInvNext, OwnedInvNext
<1>3. OwnedInv => RunningHasWorker
  BY DEF OwnedInv, RunningHasWorker
<1>4. QED
  BY <1>1, <1>2, <1>3, PTL DEF Spec

-----------------------------------------------------------------------------
(* Ready tasks and their starters.                                         *)

\* What becomes ready does so because a dependency was completed just now,
\* or because its task had no job.
LEMMA ReadyNext ==
  ASSUME BaseInv, [Next]_vars, NEW t \in jobs \cap Ready', t \notin Ready,
         "Retry" \in Calls => \A u \in Tasks : state[u] = "Failed" => u \notin jobs
  PROVE  \E w \in Workers : Ends(w) /\ TaskOf(w) \in DependsOn[t]
<1>t. /\ state \in [Tasks -> TaskStates \cup {"Absent"}] /\ t \in Tasks
      /\ \A u \in Tasks : DependsOn[u] \subseteq Tasks
  BY DependsOnIsFunction DEF BaseInv, QueueInv, QueueTypeOK, Ready
<1>0. state'[t] = "Pending" /\ \A d \in DependsOn[t] : state'[d] = "Completed"
  BY DEF Ready, DependenciesSatisfied
<1>n. state[t] # "Pending" \/ \E d \in DependsOn[t] : state[d] # "Completed"
  BY <1>t DEF Ready, DependenciesSatisfied
<1> DEFINE Goal == \E w \in Workers : Ends(w) /\ TaskOf(w) \in DependsOn[t]
<1>1. ASSUME UNCHANGED queueVars PROVE FALSE
  BY <1>0, <1>n, <1>1 DEF queueVars
<1>2. ASSUME NEW w \in Workers, Ends(w) PROVE Goal
  <2>1. TaskOf(w) \in Tasks
    BY WorkerFields
  <2>2. CASE Complete(TaskOf(w))
    BY <1>t, <1>0, <1>n, <1>2, <2>1, <2>2 DEF Complete
  <2>3. CASE Fail(TaskOf(w))
    BY <1>t, <1>0, <1>n, <2>1, <2>3 DEF Fail
  <2>4. QED
    BY <1>1, <1>2, <2>2, <2>3 DEF Ends
<1>3. ASSUME NEW th \in Threads, NEW u \in Tasks, NEW w \in Workers, Starts(th, u, w) PROVE FALSE
  BY <1>t, <1>0, <1>n, <1>3 DEF Starts, Start
<1>4. ASSUME NEW c \in Submitters, NEW u \in Tasks, Submits(c, u) PROVE FALSE
  <2>1. ~Enqueued(u) /\ state' = [state EXCEPT ![u] = "Pending"]
    BY <1>4 DEF Submits, Enqueue
  <2>2. t # u
    BY <2>1 DEF BaseInv, RegisteredOnce
  <2>3. QED
    BY <1>t, <1>0, <1>n, <1>4, <2>1, <2>2 DEF Enqueued
<1>5. ASSUME QueueOnly PROVE FALSE
  <2>1. ASSUME NEW u \in Tasks, Retry(u), "Retry" \in Calls PROVE FALSE
    BY <1>t, <1>0, <1>n, <2>1 DEF Retry
  <2>2. ASSUME NEW u \in Tasks, Pause(u) \/ Resume(u) \/ Cancel(u) PROVE FALSE
    BY <1>t, <1>0, <1>n, <2>2 DEF Pause, Resume, Cancel
  <2>3. ASSUME NEW expired \in SUBSET Timed, CheckTimeouts(expired) PROVE FALSE
    BY <1>t, <1>0, <1>n, <2>3 DEF CheckTimeouts
  <2>4. ASSUME NEW u \in Tasks, NEW p \in Reports, ReportProgress(u, p) PROVE FALSE
    BY <1>t, <1>0, <1>n, <2>4 DEF ReportProgress
  <2>5. QED
    BY <1>1, <1>5, <2>1, <2>2, <2>3, <2>4 DEF QueueOnly, QueueCall
<1>6. ASSUME \/ (\E th \in Threads : GoesOn(th)) \/ (\E w \in Workers : Runs(w) \/ Erases(w))
             \/ (\E c \in Submitters, u \in Tasks : Registers(c, u)) \/ Destroys
      PROVE  FALSE
  BY <1>1, <1>6 DEF GoesOn, Runs, Erases, Registers, Destroys
<1>7. QED
  BY <1>2, <1>3, <1>4, <1>5, <1>6, StepKinds

\* Whatever makes a task ready has its thread look for ready tasks.
LEMMA NoneForgottenNext ==
  ASSUME BaseInv, NoneForgotten, [Next]_vars,
         "Retry" \in Calls => \A u \in Tasks : state[u] = "Failed" => u \notin jobs
  PROVE  NoneForgotten'
<1>0. /\ Submitters \subseteq Threads /\ Workers \subseteq Threads /\ Submitters \cap Workers = {}
      /\ Unborn.at = "unborn"
  BY ThreadsApart DEF Threads, Unborn
<1> DEFINE Tried(t) == \/ \E c \in Submitters : WillTry(c, t)
                       \/ \E w \in Workers : TaskOf(w) \in DependsOn[t] /\ WillTry(w, t)
<1> SUFFICES ASSUME NEW t \in jobs' \cap Ready' PROVE Tried(t)'
  BY DEF NoneForgotten
<1>1. CASE t \notin jobs
  <2>1. \E c \in Submitters : Registers(c, t)
    BY <1>1, StepKinds DEF GoesOn, Starts, Runs, Erases, Ends, Submits, Registers, QueueOnly,
       Destroys, execVars
  <2>2. QED
    BY <2>1 DEF Registers, WillTry
<1>2. CASE t \in jobs /\ t \notin Ready
  <2>1. PICK w \in Workers : Ends(w) /\ TaskOf(w) \in DependsOn[t]
    BY <1>2, ReadyNext
  <2>2. QED
    BY <2>1 DEF Ends, WillTry
<1>3. CASE t \in jobs /\ t \in Ready
  <2>1. PICK th \in Threads :
          /\ WillTry(th, t)
          /\ th \in Submitters \/ (th \in Workers /\ TaskOf(th) \in DependsOn[t])
    BY <1>0, <1>3 DEF NoneForgotten
  <2>2. SUFFICES WillTry(th, t)'
    BY <2>1
  <2>3. ASSUME NEW u \in Threads, GoesOn(u) PROVE WillTry(th, t)'
    <3>1. CASE u = th
      BY <1>3, <2>1, <2>3, <3>1 DEF GoesOn, WillTry
    <3>2. CASE u # th
      BY <2>1, <2>3, <3>2 DEF GoesOn, WillTry
    <3>3. QED
      BY <3>1, <3>2
  <2>4. ASSUME NEW u \in Threads, NEW s \in Tasks, NEW w \in Workers, Starts(u, s, w)
        PROVE  WillTry(th, t)'
    <3>1. s # t
      <4>1. state'[t] = "Pending" /\ t \in Tasks /\ state \in [Tasks -> TaskStates \cup {"Absent"}]
        BY <1>3 DEF Ready, BaseInv, QueueInv, QueueTypeOK
      <4>2. state' = [state EXCEPT ![s] = "Running"]
        BY <2>4 DEF Starts, Start
      <4>3. QED
        BY <4>1, <4>2
    <3>2. CASE u = th
      BY <1>3, <2>1, <2>4, <3>1, <3>2 DEF Starts, Ready, WillTry
    <3>3. CASE u # th
      BY <2>1, <2>4, <3>3 DEF Starts, WillTry, NextUnborn, Unborn
    <3>4. QED
      BY <3>2, <3>3
  <2>5. ASSUME NEW w \in Workers, Runs(w) \/ Erases(w) \/ Ends(w) PROVE WillTry(th, t)'
    BY <2>1, <2>5 DEF Runs, Erases, Ends, WillTry
  <2>6. ASSUME NEW c \in Submitters, NEW u \in Tasks, Submits(c, u) \/ Registers(c, u)
        PROVE  WillTry(th, t)'
    BY <2>1, <2>6 DEF Submits, Registers, Registering, WillTry
  <2>7. CASE QueueOnly \/ Destroys
    BY <2>1, <2>7 DEF QueueOnly, Destroys, execVars, WillTry
  <2>8. QED
    BY <2>3, <2>4, <2>5, <2>6, <2>7, StepKinds
<1>4. QED
  BY <1>1, <1>2, <1>3

\* Without a way back from Failed, or without a failure that leaves the job
\* where it is, none is forgotten.
NoLostJobs == "Retry" \notin Calls \/ "CheckTimeouts" \notin Calls

ReadyInv ==
  /\ BaseInv /\ NoneForgotten
  /\ "CheckTimeouts" \notin Calls => AttemptsCounted /\ AttemptInv

\* With timeouts or retries but not both, no job is lost.
LEMMA ReadyInvNext ==
  ASSUME NoLostJobs, ReadyInv, [Next]_vars
  PROVE  ReadyInv'
<1>1. "Retry" \in Calls => \A u \in Tasks : state[u] = "Failed" => u \notin jobs
  BY DEF NoLostJobs, ReadyInv, AttemptInv
<1>2. NoneForgotten'
  BY <1>1, NoneForgottenNext DEF ReadyInv
<1>3. QED
  BY <1>2, BaseInvNext, AttemptsCountedNext, AttemptInvNext DEF ReadyInv

\* There are no jobs at first.
LEMMA ReadyInvInit == Init => ReadyInv
<1>1. Init => NoneForgotten
  BY DEF Init, NoneForgotten
<1>2. QED
  BY <1>1, AttemptsCountedInit, AttemptInvInit DEF ReadyInv

\* A task with a job that could be started is in some thread's hands: one
\* that has yet to take its snapshot of the ready tasks, or has it in it.
THEOREM NoReadyTaskIsForgotten ==
  ASSUME NoLostJobs
  PROVE  Spec => []NoneForgotten
<1>1. ReadyInv => NoneForgotten
  BY DEF ReadyInv
<1>2. QED
  BY <1>1, ReadyInvInit, ReadyInvNext, PTL DEF Spec

-----------------------------------------------------------------------------
(* The destructor.                                                         *)

\* While the destructor runs, only a worker of a second level is started,
\* and none once its body has ended.
LEMMA StartedLate ==
  ASSUME TwoLevels, ReadyInv, DestroyInv, owner.at # "using",
         NEW th \in Threads, NEW t \in Tasks, NEW w \in Workers, Starts(th, t, w)
  PROVE  owner.at \notin {"destroyingMembers", "destroyed"} /\ ~FirstLevel(w) /\ TaskOf(w) = t
<1>1. t \in jobs \cap Ready
  BY DEF Starts, Start, Ready
<1>2. ~\E c \in Submitters : WillTry(c, t)
  BY DEF DestroyInv, WillTry, NoCall
<1>3. PICK v \in Workers : TaskOf(v) \in DependsOn[t] /\ WillTry(v, t)
  BY <1>1, <1>2 DEF ReadyInv, NoneForgotten
<1>4. FirstLevel(v) /\ Active(v)
  BY <1>3 DEF TwoLevels, FirstLevel, WillTry, Active, Unborn, Finished
<1>5. owner.at \notin {"destroyingMembers", "destroyed"}
  BY <1>4 DEF DestroyInv, DestructorWaits
<1>6. TaskOf(w) = t
  BY DEF Starts
<1>7. QED
  BY <1>3, <1>5, <1>6 DEF FirstLevel

\* Only workers of the first level start others, and those are waited for.
LEMMA DestroyInvNext ==
  ASSUME TwoLevels, ReadyInv, DestroyInv, [Next]_vars
  PROVE  DestroyInv'
<1>0. /\ Submitters \subseteq Threads /\ Workers \subseteq Threads /\ Submitters \cap Workers = {}
      /\ BaseInv /\ TypeOK
  BY ThreadsApart DEF Threads, ReadyInv, BaseInv
<1>1. ASSUME UNCHANGED <<futures, owner>>,
             ~\E th \in Threads, t \in Tasks, w \in Workers : Starts(th, t, w),
             owner.at # "using" => \A c \in Submitters : call'[c] = call[c]
      PROVE  DestroyInv'
  <2>1. \A w \in Workers : Active(w)' => Active(w)
    BY <1>0, <1>1, OwesNext
  <2>2. QED
    BY <1>1, <2>1 DEF DestroyInv, DestructorWaits, FirstLevel
<1>2. ASSUME NEW th \in Threads, NEW t \in Tasks, NEW w \in Workers, Starts(th, t, w)
      PROVE  DestroyInv'
  <2>1. /\ owner' = owner /\ futures' = {v \in futures : call[v] # Finished} \cup {w}
        /\ Submitters \cap {w} = {} /\ \A u \in Threads \ {th, w} : call'[u] = call[u]
        /\ call[th].at = "dispatch"
    BY <1>0, <1>2 DEF Starts
  <2>2. \A v \in Workers : Active(v)' => Active(v) \/ v = w
    BY <1>0, <1>2, OwesNext DEF Starts, Active, NextUnborn
  <2>3. \A v \in Workers : Active(v) /\ v \in futures => v \in futures'
    BY <2>1 DEF Active
  <2>4. owner.at # "using" => \A c \in Submitters : call'[c] = NoCall
    BY <1>0, <2>1 DEF DestroyInv, NoCall
  <2>5. owner.at = "using" => \A v \in Workers : Active(v)' => v \in futures'
    BY <2>1, <2>2, <2>3 DEF DestroyInv
  <2>6. owner.at # "using" => owner.at \notin {"destroyingMembers", "destroyed"} /\ ~FirstLevel(w)
    BY <1>2, StartedLate
  <2>7. owner.at = "waiting" =>
          \A v \in Workers : Active(v)' =>
            v \in owner.for \cup futures' /\ (FirstLevel(v) => v \in owner.for)
    BY <2>1, <2>2, <2>3, <2>6 DEF DestroyInv
  <2>8. QED
    BY <2>1, <2>4, <2>5, <2>6, <2>7 DEF DestroyInv, DestructorWaits, FirstLevel
<1>3. CASE Destroys
  <2>1. \A w \in Workers : Active(w)' <=> Active(w)
    BY <1>3 DEF Destroys, Active
  <2>2. CASE DestructorTakesWorkers
    <3>1. /\ owner.at = "using" /\ \A c \in Submitters : call'[c] = NoCall
          /\ owner'.at = "waiting" /\ owner'.for = futures
      BY <2>2 DEF DestructorTakesWorkers
    <3>2. QED
      BY <2>1, <3>1 DEF DestroyInv, DestructorWaits, FirstLevel
  <2>3. CASE DestructorBodyEnds
    <3>1. /\ owner.at = "waiting" /\ (\A w \in owner.for : ~Active(w)) /\ call' = call
          /\ owner'.at = "destroyingMembers" /\ owner'.for = futures
      BY <2>3 DEF DestructorBodyEnds, AllFinished, Active
    <3>2. QED
      BY <2>1, <3>1 DEF DestroyInv, DestructorWaits, FirstLevel
  <2>4. CASE DestructorReturns
    <3>1. /\ owner.at = "destroyingMembers" /\ (\A w \in owner.for : ~Active(w)) /\ call' = call
          /\ owner'.at = "destroyed"
      BY <2>4 DEF DestructorReturns, AllFinished, Active
    <3>2. QED
      BY <2>1, <3>1 DEF DestroyInv, DestructorWaits, FirstLevel
  <2>5. QED
    BY <1>3, <2>2, <2>3, <2>4 DEF Destroys
<1>4. ASSUME NEW th \in Threads, GoesOn(th) PROVE DestroyInv'
  <2>1. owner.at # "using" => th \notin Submitters
    BY <1>4 DEF GoesOn, DestroyInv, NoCall
  <2>2. UNCHANGED <<futures, owner, queueVars>> /\ \A u \in Threads \ {th} : call'[u] = call[u]
    BY <1>4 DEF GoesOn
  <2>3. \A u \in Threads, t \in Tasks, w \in Workers : ~Starts(u, t, w)
    BY <2>2, <1>0 DEF Starts, Start, queueVars, BaseInv, QueueInv, QueueTypeOK
  <2>4. QED
    BY <1>0, <1>1, <2>1, <2>2, <2>3
<1>5. ASSUME NEW w \in Workers, Runs(w) \/ Erases(w) \/ Ends(w) PROVE DestroyInv'
  <2>1. UNCHANGED <<futures, owner>> /\ \A c \in Submitters : call'[c] = call[c]
    BY <1>0, <1>5 DEF Runs, Erases, Ends
  <2>2. \A u \in Threads, t \in Tasks, v \in Workers : ~Starts(u, t, v)
    BY <1>5, <1>0 DEF Starts, Runs, Erases, Ends
  <2>3. QED
    BY <1>1, <2>1, <2>2
<1>6. ASSUME NEW c \in Submitters, NEW t \in Tasks, Submits(c, t) \/ Registers(c, t) PROVE DestroyInv'
  <2>1. UNCHANGED <<futures, owner>> /\ owner.at = "using"
    BY <1>6 DEF Submits, Registers, Registering, DestroyInv, NoCall
  <2>2. \A u \in Threads, s \in Tasks, v \in Workers : ~Starts(u, s, v)
    BY <1>6, <1>0 DEF Starts, Submits, Registers, Registering, Start, Enqueue
  <2>3. QED
    BY <1>1, <2>1, <2>2
<1>7. CASE QueueOnly
  <2>1. UNCHANGED <<futures, owner, call>>
    BY <1>7 DEF QueueOnly, execVars
  <2>2. \A u \in Threads, s \in Tasks, v \in Workers : ~Starts(u, s, v)
    BY <2>1, <1>0 DEF Starts, NextUnborn, Unborn
  <2>3. QED
    BY <1>1, <2>1, <2>2
<1>8. QED
  BY <1>0, <1>2, <1>3, <1>4, <1>5, <1>6, <1>7, StepKinds

\* The executor is in use at first.
LEMMA DestroyInvInit == Init => DestroyInv
<1>1. ASSUME Init, NEW w \in Workers PROVE ~Active(w)
  BY <1>1, WorkerFields DEF Init, Active
<1>2. QED
  BY <1>1 DEF Init, DestroyInv, DestructorWaits

\* When the tasks depend on each other at two levels at most, the destructor
\* leaves no worker behind, whatever it overtakes.
THEOREM DestructorLeavesNoWorker ==
  ASSUME NoLostJobs, TwoLevels
  PROVE  Spec => []DestructorWaits
<1>1. ReadyInv /\ DestroyInv /\ [Next]_vars => (ReadyInv /\ DestroyInv)'
  BY ReadyInvNext, DestroyInvNext
<1>2. DestroyInv => DestructorWaits
  BY DEF DestroyInv
<1>3. QED
  BY <1>1, <1>2, ReadyInvInit, DestroyInvInit, PTL DEF Spec

\* What a run checks at once: types, owners, dependencies and the destructor.
THEOREM JobsAreAlwaysOwned ==
  ASSUME NoLostJobs, TwoLevels, "Pause" \notin Calls
  PROVE  Spec => []JobsAreOwned
<1>1. BaseInv => TypeOK
  BY DEF BaseInv
<1>2. QED
  BY <1>1, BaseInvariance, RunningIsOwned, JobsWaitForDependencies, DestructorLeavesNoWorker, PTL
     DEF JobsAreOwned

-----------------------------------------------------------------------------
(* The gateway. *)

Places ==
  {"idle", "start", "mayStart", "starting", "stop", "mayStop", "stopping",
   "mayApprove", "mayReject", "dispatch", "approved", "dispatchApproved", "resolved"}

\* A thread is about to decide a request, or has decided it and not yet removed it.
Resolves(t) == doing[t] \in {"mayApprove", "mayReject", "approved", "dispatchApproved", "resolved"}

\* The types of the state of calls.
CallTypes ==
  /\ doing \in [HttpCallers -> Places]
  /\ target \in [HttpCallers -> Ids \cup {Unset}]
  /\ request \in [HttpCallers -> Requests \cup {Unset}]
  /\ command \in [Requests -> Command \cup {Unset}]
  /\ \A t \in HttpCallers : Resolves(t) => request[t] \in Requests

\* What the present loop of main() runs over.
Loops ==
  /\ phase = "natives" => todo \subseteq Native
  /\ phase \in {"load", "register"} => todo \subseteq Plugins
  /\ phase = "start" => todo \subseteq Ids

Types == GatewayTypeOK /\ CallTypes /\ Loops

\* The request of such a thread was granted if it dispatches the command.  Where no
\* other resolution has overlapped, the status is what this thread has read or
\* set, and the command was not dispatched before.
Deciders ==
  \A t \in HttpCallers : Resolves(t) =>
    /\ doing[t] \in {"approved", "dispatchApproved"} => request[t] \in granted
    /\ request[t] \notin spoiled =>
         /\ doing[t] \in {"mayApprove", "mayReject"} => approval[request[t]] = "pending"
         /\ doing[t] \in {"approved", "dispatchApproved"} => approval[request[t]] = "approved"
         /\ doing[t] = "resolved" => approval[request[t]] \in {"approved", "rejected"}
         /\ doing[t] = "approved" => ran[request[t]] = 0

\* Nobody else deals with it any more.
OneDecider ==
  \A t, u \in HttpCallers :
    (Resolves(t) /\ Resolves(u) /\ request[t] = request[u] /\ request[t] \notin spoiled) => t = u

DecisionInv == Types /\ Deciders /\ OneDecider /\ DecisionsAreKept

-----------------------------------------------------------------------------
\* Nothing is decided at first.
LEMMA InitDecision == InitGateway => DecisionInv
BY GatewayAssumption
   DEF InitGateway, DecisionInv, Types, GatewayTypeOK, CallTypes, Loops, Deciders, OneDecider, DecisionsAreKept,
       Resolves, Places, Unregistered, Requests, HttpCallers

\* What main() does on its way keeps the types.
LEMMA TypesOfMain == ASSUME Types, Boot \/ Leave PROVE Types'
<1> USE GatewayAssumption
    DEF Types, GatewayTypeOK, CallTypes, Resolves, Loops, bootVars, registryVars, approvalVars, callVars, decisions, history, Enter, Visited, LifecycleStates
<1>1. CASE RegisterNative
  BY <1>1 DEF RegisterNative, Register
<1>2. CASE LoadPlugin
  BY <1>2 DEF LoadPlugin, Load, LoadPluginBackend
<1>3. CASE RegisterPlugin
  BY <1>3 DEF RegisterPlugin, Register, RegisterManifest, DestroyAdapters, Registrants, Registered
<1>4. CASE StartAll
  BY <1>4 DEF StartAll, Becomes, Places, Registered
<1>5. CASE Ping
  BY <1>5 DEF Ping
<1>6. CASE Prepare
  BY <1>6 DEF Prepare
<1>7. CASE ListenEnds
  BY <1>7 DEF ListenEnds
<1>8. CASE FreeLibraries
  BY <1>8 DEF FreeLibraries
<1>9. CASE DestroyRegistry
  BY <1>9 DEF DestroyRegistry, DestroyAdapters, Unregistered
<1> QED
  BY <1>1, <1>2, <1>3, <1>4, <1>5, <1>6, <1>7, <1>8, <1>9 DEF Boot, Leave

\* So does every step of a call.
LEMMA TypesOfCalls ==
  ASSUME Types, NEW t \in HttpCallers, Accept(t) \/ Proceed(t)
  PROVE  Types'
<1> USE GatewayAssumption
    DEF Types, GatewayTypeOK, CallTypes, Resolves, Loops, bootVars, registryVars, approvalVars, callVars, decisions, history, LifecycleStates, Places,
        Becomes, Done, TransitionTo, Registered
<1>1. CASE StartCheck(t)
  BY <1>1 DEF StartCheck
<1>2. CASE StartBegins(t)
  BY <1>2 DEF StartBegins
<1>3. CASE StartReturns(t)
  BY <1>3 DEF StartReturns
<1>4. CASE StopCheck(t)
  BY <1>4 DEF StopCheck
<1>5. CASE StopBegins(t)
  BY <1>5 DEF StopBegins
<1>6. CASE StopReturns(t)
  BY <1>6 DEF StopReturns
<1>7. CASE DispatchApproved(t)
  BY <1>7 DEF DispatchApproved, DispatchCommand
<1>8. CASE Dispatched(t)
  BY <1>8 DEF Dispatched
<1>9. CASE RemoveRequest(t)
  BY <1>9 DEF RemoveRequest, RemoveFromQueue
<1>10. CASE PostStart(t) \/ PostStop(t) \/ PostQuery(t)
  BY <1>10 DEF PostStart, PostStop, PostQuery, DispatchTo
<1>11. CASE PostCommand(t)
  BY <1>11 DEF PostCommand, DispatchTo, Submit
<1>12. CASE PostApprove(t) \/ PostReject(t)
  BY <1>12 DEF PostApprove, PostReject, FindPending, Pending
<1>13. CASE Approve(t) \/ Reject(t)
  <2>1. PICK s \in {"approved", "rejected"} : SetStatus(request[t], s)
    BY <1>13 DEF Approve, Reject
  <2>2. /\ phase' = phase \/ phase' = "aborted"
        /\ approval' \in [Requests -> {"none", "pending", "approved", "rejected", "removed"}]
        /\ spoiled' \subseteq Requests
    BY <2>1 DEF SetStatus, Pending
  <2>3. granted' \subseteq Requests
    BY <1>13 DEF Approve, Reject
  <2> QED
    BY <1>13, <2>2, <2>3 DEF Approve, Reject
<1> QED
  BY <1>1, <1>2, <1>3, <1>4, <1>5, <1>6, <1>7, <1>8, <1>9, <1>10, <1>11, <1>12, <1>13 DEF Accept, Proceed

-----------------------------------------------------------------------------
(* Decisions.                                                               *)

\* A call that is not about a request leaves those alone that are.
LEMMA OthersKeepDecisions ==
  ASSUME DecisionInv, NEW t \in HttpCallers,
         UNCHANGED decisions,
         ~Resolves(t)', \A u \in HttpCallers \ {t} : doing'[u] = doing[u] /\ request'[u] = request[u],
         \A r \in Requests : approval'[r] = approval[r] \/ (approval[r] = "none" /\ approval'[r] = "pending")
  PROVE  (Deciders /\ OneDecider /\ DecisionsAreKept)'
<1>1. Deciders'
  BY DEF DecisionInv, Types, CallTypes, Deciders, Resolves, decisions
<1>2. OneDecider'
  BY DEF DecisionInv, OneDecider, Resolves, decisions
<1>3. DecisionsAreKept'
  BY DEF DecisionInv, DecisionsAreKept, decisions
<1> QED
  BY <1>1, <1>2, <1>3

\* To look whether a request is pending is to be the only one that deals with it,
\* or to spoil it.
LEMMA FindsPending ==
  ASSUME DecisionInv, Types', NEW t \in HttpCallers, PostApprove(t) \/ PostReject(t)
  PROVE  (Deciders /\ OneDecider /\ DecisionsAreKept)'
<1>1. PICK r \in Requests :
        /\ approval[r] = "pending"
        /\ doing' = [doing EXCEPT ![t] = "mayApprove"] \/ doing' = [doing EXCEPT ![t] = "mayReject"]
        /\ request' = [request EXCEPT ![t] = r]
        /\ spoiled' = IF Resolving(r) = {} THEN spoiled ELSE spoiled \cup {r}
        /\ UNCHANGED <<approval, ran, granted>>
  BY DEF PostApprove, PostReject, FindPending, Pending, Becomes, approvalVars
<1>2. r \notin spoiled' => \A u \in HttpCallers \ {t} : Resolves(u) => request[u] # r
  BY <1>1 DEF DecisionInv, Deciders, Resolves, Resolving
<1>3. \A u \in HttpCallers \ {t} : doing'[u] = doing[u] /\ request'[u] = request[u]
  BY <1>1 DEF DecisionInv, Types, CallTypes
<1>4. request'[t] = r /\ doing'[t] \in {"mayApprove", "mayReject"}
  BY <1>1 DEF DecisionInv, Types, CallTypes
<1>5. spoiled \subseteq spoiled'
  BY <1>1
<1>6. Deciders'
  BY <1>1, <1>3, <1>4, <1>5 DEF DecisionInv, Deciders, Resolves
<1>7. OneDecider'
  BY <1>2, <1>3, <1>4, <1>5 DEF DecisionInv, OneDecider, Resolves
<1>8. DecisionsAreKept'
  BY <1>1, <1>5 DEF DecisionInv, DecisionsAreKept
<1> QED
  BY <1>6, <1>7, <1>8

\* To set the status of a request that nobody else deals with is to decide it; what
\* was removed in the meantime is spoiled already.
LEMMA SetsStatus ==
  ASSUME DecisionInv, Types', NEW t \in HttpCallers, Approve(t) \/ Reject(t)
  PROVE  (Deciders /\ OneDecider /\ DecisionsAreKept)'
<1> DEFINE r == request[t]
<1>1. PICK s \in {"approved", "rejected"} :
        /\ SetStatus(r, s)
        /\ doing' = [doing EXCEPT ![t] = IF s = "approved" THEN "approved" ELSE "resolved"]
        /\ granted' = IF s = "approved" THEN granted \cup {r} ELSE granted
        /\ UNCHANGED <<request, ran>>
  BY DEF Approve, Reject, Becomes
<1>2. r \in Requests /\ Resolves(t) /\ doing[t] \in {"mayApprove", "mayReject"}
  BY DEF Approve, Reject, Resolves, DecisionInv, Types, CallTypes
<1>3. /\ \A u \in HttpCallers \ {t} : doing'[u] = doing[u]
      /\ doing'[t] \in {"approved", "resolved"}
      /\ doing'[t] = "approved" => s = "approved"
  BY <1>1 DEF DecisionInv, Types, CallTypes
<1>4. granted \subseteq granted' /\ (s = "approved" => r \in granted')
  BY <1>1
<1>5. /\ spoiled \subseteq spoiled'
      /\ \A q \in Requests \ {r} : q \notin spoiled' => approval'[q] = approval[q]
      /\ r \notin spoiled' => approval'[r] = s
  <2>1. CASE approval[r] # "removed"
    BY <1>1, <1>2, <2>1 DEF SetStatus, DecisionInv, Types, GatewayTypeOK
  <2>2. CASE approval[r] = "removed"
    <3>1. r \in spoiled
      BY <1>2, <2>2 DEF DecisionInv, Deciders
    <3> QED
      BY <1>1, <2>2, <3>1 DEF SetStatus, DecisionInv, Types, GatewayTypeOK
  <2> QED
    BY <2>1, <2>2
<1>6. r \notin spoiled => ran[r] = 0
  BY <1>2 DEF DecisionInv, Deciders, DecisionsAreKept
<1>7. r \notin spoiled => \A u \in HttpCallers \ {t} : Resolves(u) => request[u] # r
  BY <1>2 DEF DecisionInv, OneDecider
<1>8. Deciders'
  <2> SUFFICES ASSUME NEW u \in HttpCallers, Resolves(u)'
               PROVE  /\ doing'[u] \in {"approved", "dispatchApproved"} => request'[u] \in granted'
                      /\ request'[u] \notin spoiled' =>
                           /\ doing'[u] \in {"mayApprove", "mayReject"} => approval'[request'[u]] = "pending"
                           /\ doing'[u] \in {"approved", "dispatchApproved"} => approval'[request'[u]] = "approved"
                           /\ doing'[u] = "resolved" => approval'[request'[u]] \in {"approved", "rejected"}
                           /\ doing'[u] = "approved" => ran'[request'[u]] = 0
    BY DEF Deciders
  <2>1. CASE u = t
    BY <1>1, <1>2, <1>3, <1>4, <1>5, <1>6, <2>1
  <2>2. CASE u # t
    <3>1. doing'[u] = doing[u] /\ request'[u] = request[u] /\ Resolves(u) /\ request[u] \in Requests
      BY <1>1, <1>3, <2>2 DEF Resolves, DecisionInv, Types, CallTypes
    <3>2. request[u] \notin spoiled' => approval'[request[u]] = approval[request[u]]
      BY <1>5, <1>7, <2>2, <3>1
    <3> QED
      BY <1>1, <1>4, <1>5, <3>1, <3>2 DEF DecisionInv, Deciders
  <2> QED
    BY <2>1, <2>2
<1>9. OneDecider'
  BY <1>1, <1>2, <1>3, <1>5 DEF DecisionInv, OneDecider, Resolves
<1>10. DecisionsAreKept'
  BY <1>1, <1>2, <1>4, <1>5, <1>6 DEF DecisionInv, DecisionsAreKept
<1> QED
  BY <1>8, <1>9, <1>10

\* The command that is dispatched is that of the request, or of one that is spoiled
\* thereby.
LEMMA DispatchesGranted ==
  ASSUME DecisionInv, Types', NEW t \in HttpCallers, DispatchApproved(t)
  PROVE  (Deciders /\ OneDecider /\ DecisionsAreKept)'
<1> DEFINE r == request[t]
<1>1. /\ r \in Requests /\ r \in granted /\ Resolves(t)
      /\ r \notin spoiled => approval[r] = "approved" /\ ran[r] = 0
  BY DEF DispatchApproved, DecisionInv, Types, CallTypes, Deciders, Resolves
<1>2. /\ UNCHANGED <<approval, request, granted>>
      /\ \A u \in HttpCallers \ {t} : doing'[u] = doing[u]
      /\ doing'[t] \in {"approved", "dispatchApproved", "resolved"}
      /\ doing'[t] = "approved" => doing' = doing /\ ran' = ran
  BY DEF DispatchApproved, DispatchCommand, Becomes, approvalVars, DecisionInv, Types, CallTypes
<1>3. /\ spoiled \subseteq spoiled'
      /\ \A q \in Requests \ {r} : q \notin spoiled' => ran'[q] = ran[q]
      /\ \A q \in Requests : ran'[q] > 0 => q \in granted
      /\ r \notin spoiled' => ran'[r] <= 1
  <2>1. CASE approval[r] # "removed"
    BY <1>1, <2>1 DEF DispatchApproved, DispatchCommand, DecisionInv, DecisionsAreKept, Types, GatewayTypeOK
  <2>2. CASE approval[r] = "removed"
    <3>1. r \in spoiled
      BY <1>1, <2>2
    <3> QED
      BY <1>1, <2>2, <3>1 DEF DispatchApproved, DispatchCommand, DecisionInv, DecisionsAreKept, Types, GatewayTypeOK
  <2> QED
    BY <2>1, <2>2
<1>4. r \notin spoiled => \A u \in HttpCallers \ {t} : Resolves(u) => request[u] # r
  BY <1>1 DEF DecisionInv, OneDecider
<1>5. Deciders'
  <2> SUFFICES ASSUME NEW u \in HttpCallers, Resolves(u)'
               PROVE  /\ doing'[u] \in {"approved", "dispatchApproved"} => request[u] \in granted
                      /\ request[u] \notin spoiled' =>
                           /\ doing'[u] \in {"mayApprove", "mayReject"} => approval[request[u]] = "pending"
                           /\ doing'[u] \in {"approved", "dispatchApproved"} => approval[request[u]] = "approved"
                           /\ doing'[u] = "resolved" => approval[request[u]] \in {"approved", "rejected"}
                           /\ doing'[u] = "approved" => ran'[request[u]] = 0
    BY <1>2 DEF Deciders
  <2>1. CASE u = t
    BY <1>1, <1>2, <1>3, <2>1
  <2>2. CASE u # t
    <3>1. doing'[u] = doing[u] /\ Resolves(u) /\ request[u] \in Requests
      BY <1>2, <2>2 DEF Resolves, DecisionInv, Types, CallTypes
    <3>2. request[u] \notin spoiled' => ran'[request[u]] = ran[request[u]]
      BY <1>3, <1>4, <2>2, <3>1
    <3> QED
      BY <1>3, <3>1, <3>2 DEF DecisionInv, Deciders
  <2> QED
    BY <2>1, <2>2
<1>6. OneDecider'
  BY <1>1, <1>2, <1>3 DEF DecisionInv, OneDecider, Resolves
<1>7. DecisionsAreKept'
  BY <1>1, <1>2, <1>3 DEF DecisionInv, DecisionsAreKept
<1> QED
  BY <1>5, <1>6, <1>7

\* A request is removed by the only one that deals with it, unless it is spoiled.
LEMMA RemovesOwn ==
  ASSUME DecisionInv, Types', NEW t \in HttpCallers, RemoveRequest(t)
  PROVE  (Deciders /\ OneDecider /\ DecisionsAreKept)'
<1> DEFINE r == request[t]
<1>1. r \in Requests /\ Resolves(t)
  BY DEF RemoveRequest, DecisionInv, Types, CallTypes, Resolves
<1>2. /\ ~Resolves(t)'
      /\ \A u \in HttpCallers \ {t} : doing'[u] = doing[u] /\ request'[u] = request[u]
      /\ approval'[r] = "removed"
      /\ \A s \in Requests \ {r} : approval'[s] = approval[s]
      /\ UNCHANGED <<ran, granted, spoiled>>
  BY <1>1 DEF RemoveRequest, RemoveFromQueue, Done, Resolves, DecisionInv, Types, CallTypes, GatewayTypeOK, history, decisions
<1>3. r \notin spoiled => \A u \in HttpCallers \ {t} : Resolves(u) => request[u] # r
  BY <1>1 DEF DecisionInv, OneDecider
<1>4. Deciders' /\ OneDecider'
  BY <1>2, <1>3 DEF DecisionInv, Types, CallTypes, Deciders, OneDecider, Resolves
<1>5. DecisionsAreKept'
  BY <1>1, <1>2 DEF DecisionInv, DecisionsAreKept
<1> QED
  BY <1>4, <1>5

\* No step dispatches what was not approved, and none decides a request twice but
\* where two resolutions of it overlap.
LEMMA DecisionStep ==
  ASSUME DecisionInv, [NextGateway]_gatewayVars
  PROVE  DecisionInv'
<1> USE DEF bootVars, registryVars, approvalVars, callVars, decisions, history
<1>1. CASE UNCHANGED gatewayVars
  BY <1>1 DEF gatewayVars, DecisionInv, Types, GatewayTypeOK, CallTypes, Loops, Deciders, OneDecider, DecisionsAreKept, Resolves
<1>2. CASE Boot \/ Leave
  <2>1. Types'
    BY <1>2, TypesOfMain DEF DecisionInv
  <2>2. /\ UNCHANGED <<approvalVars, request, decisions>>
        /\ \A t \in HttpCallers : Resolves(t)' = Resolves(t) /\ (Resolves(t) => doing'[t] = doing[t])
    <3>1. CASE StartAll
      BY <3>1, GatewayAssumption
         DEF StartAll, Becomes, Resolves, DecisionInv, Types, CallTypes, Places, HttpCallers
    <3>2. CASE ~StartAll
      BY <1>2, <3>2, GatewayAssumption
         DEF Boot, Leave, RegisterNative, LoadPlugin, RegisterPlugin, Ping, Prepare, ListenEnds, FreeLibraries,
             DestroyRegistry, Resolves
    <3> QED
      BY <3>1, <3>2
  <2>3. (Deciders /\ OneDecider)'
    BY <2>2 DEF DecisionInv, Deciders, OneDecider, Resolves
  <2>4. DecisionsAreKept'
    BY <2>2 DEF DecisionInv, DecisionsAreKept
  <2> QED
    BY <2>1, <2>3, <2>4 DEF DecisionInv
<1>3. ASSUME NEW t \in HttpCallers, Accept(t) \/ Proceed(t)
      PROVE  DecisionInv'
  <2>1. Types'
    BY <1>3, TypesOfCalls DEF DecisionInv
  <2>2. CASE PostApprove(t) \/ PostReject(t)
    BY <2>1, <2>2, FindsPending DEF DecisionInv
  <2>3. CASE Approve(t) \/ Reject(t)
    BY <2>1, <2>3, SetsStatus DEF DecisionInv
  <2>4. CASE DispatchApproved(t)
    BY <2>1, <2>4, DispatchesGranted DEF DecisionInv
  <2>5. CASE RemoveRequest(t)
    BY <2>1, <2>5, RemovesOwn DEF DecisionInv
  <2>6. CASE Dispatched(t) /\ doing[t] = "dispatchApproved"
    <3>1. /\ UNCHANGED <<decisions, approval, request>>
          /\ doing'[t] = "resolved"
          /\ \A u \in HttpCallers \ {t} : doing'[u] = doing[u]
      BY <2>6 DEF Dispatched, Becomes, DecisionInv, Types, CallTypes
    <3> QED
      BY <2>1, <2>6, <3>1 DEF DecisionInv, Types, CallTypes, Deciders, OneDecider, DecisionsAreKept, Resolves
  <2>7. CASE \/ StartCheck(t) \/ StartBegins(t) \/ StartReturns(t) \/ StopCheck(t) \/ StopBegins(t) \/ StopReturns(t)
             \/ PostStart(t) \/ PostStop(t) \/ PostQuery(t) \/ PostCommand(t) \/ (Dispatched(t) /\ doing[t] = "dispatch")
    <3>1. /\ UNCHANGED decisions
          /\ ~Resolves(t)'
          /\ \A u \in HttpCallers \ {t} : doing'[u] = doing[u] /\ request'[u] = request[u]
      BY <2>7
         DEF StartCheck, StartBegins, StartReturns, StopCheck, StopBegins, StopReturns, PostStart, PostStop, PostQuery,
             PostCommand, Dispatched, DispatchTo, Becomes, Done, Serves, Resolves, DecisionInv, Types, CallTypes
    <3>2. \A r \in Requests : approval'[r] = approval[r] \/ (approval[r] = "none" /\ approval'[r] = "pending")
      BY <2>7
         DEF StartCheck, StartBegins, StartReturns, StopCheck, StopBegins, StopReturns, PostStart, PostStop, PostQuery,
             PostCommand, Dispatched, Submit, DecisionInv, Types, GatewayTypeOK
    <3>3. (Deciders /\ OneDecider /\ DecisionsAreKept)'
      BY <3>1, <3>2, OthersKeepDecisions
    <3> QED
      BY <2>1, <3>3 DEF DecisionInv
  <2> QED
    BY <1>3, <2>2, <2>3, <2>4, <2>5, <2>6, <2>7 DEF Accept, Proceed, Dispatched
<1> QED
  BY <1>1, <1>2, <1>3 DEF NextGateway, HttpCallers

\* However approvals and rejections race, a command is dispatched only if Approve() said
\* Ok of its request; and where no two resolutions of the request have overlapped, it is
\* dispatched at most once, and never if it was rejected.
THEOREM DecisionsKept == SpecGateway => []DecisionsAreKept
<1>1. DecisionInv => DecisionsAreKept
  BY DEF DecisionInv
<1> QED
  BY InitDecision, DecisionStep, <1>1, PTL DEF SpecGateway

-----------------------------------------------------------------------------
(* What is registered is there.                                             *)

\* A thread is in the middle of something about a backend.
AboutBackend(t) ==
  doing[t] \in {"start", "mayStart", "starting", "stop", "mayStop", "stopping", "dispatch", "dispatchApproved"}

\* Where main() is, who may be busy and what is loaded.
Stages ==
  /\ phase \in {"natives", "load", "register"} => up = {}
  /\ phase \notin {"start", "aborted"} => doing[Main] = "idle"
  /\ phase \notin {"serving", "aborted"} => \A t \in HttpThreads : doing[t] = "idle"
  /\ phase = "start" => todo \subseteq Registered
  /\ phase \notin {"unloaded", "exited", "aborted"} => adapter \subseteq library
  /\ phase \notin {"exited", "aborted"} => calledFreed = {}
  /\ phase = "register" => todo \subseteq adapter

\* The backends that are registered are linked or loaded, until main() leaves.
CodeIsThere == phase \notin {"unloaded", "exited", "aborted"} => \A i \in Registered : backend[i] \in Native \cup library

\* Nobody is busy with a backend that is not registered.
TargetsRegistered == \A t \in HttpCallers : AboutBackend(t) => target[t] \in Registered

\* Where no two starts or stops have overlapped, there is one at most.
Moves(t, i) == target[t] = i /\ doing[t] \in {"mayStart", "starting", "mayStop", "stopping"}

OneMover == \A i \in Ids \ raced : \A t, u \in HttpCallers : (Moves(t, i) /\ Moves(u, i)) => t = u

\* What the registry reports is true between them ...
ReportIsTrue(i) ==
  /\ lifecycle[i] = "Running" => i \in up
  /\ lifecycle[i] \in {"Registered", "Stopped"} => i \notin up

Truthful == \A i \in Registered \ raced : (\A t \in HttpCallers : ~Moves(t, i)) => ReportIsTrue(i)

\* ... and a passing state is one that some thread will end, overlapped or not.
Passing(i) == lifecycle[i] \in {"Starting", "Stopping"}

NobodyStuck == \A i \in Registered : Passing(i) => \E t \in HttpCallers : Moves(t, i)

BackendInv == Types /\ Stages /\ CodeIsThere /\ TargetsRegistered /\ OneMover /\ Truthful /\ NobodyStuck

\* No backend is registered at first.
LEMMA InitBackend == InitGateway => BackendInv
<1> SUFFICES ASSUME InitGateway PROVE BackendInv
  OBVIOUS
<1>1. Types
  BY InitDecision DEF DecisionInv
<1> QED
  BY <1>1, GatewayAssumption
     DEF InitGateway, BackendInv, Stages, CodeIsThere, TargetsRegistered, OneMover, Truthful, NobodyStuck, Passing,
         Registered, Unregistered, AboutBackend, Moves, HttpCallers

\* What main() does keeps it, as nobody is busy with a backend that main() registers
\* or destroys.
LEMMA BackendMain == ASSUME BackendInv, Boot \/ Leave PROVE BackendInv'
<1> USE GatewayAssumption DEF bootVars, registryVars, approvalVars, callVars, decisions, history, HttpCallers, Enter, Visited
<1>1. Types'
  BY TypesOfMain DEF BackendInv
<1>2. CASE RegisterNative \/ RegisterPlugin
  <2>1. /\ \A t \in HttpCallers : doing[t] = "idle"
        /\ up = {}
        /\ UNCHANGED <<doing, target, up, raced, library>>
    BY <1>2 DEF RegisterNative, RegisterPlugin, BackendInv, Stages
  <2>2. (TargetsRegistered /\ OneMover)'
    BY <2>1 DEF TargetsRegistered, OneMover, AboutBackend, Moves
  <2>3. CASE UNCHANGED registryVars
    <3>1. (CodeIsThere /\ Truthful /\ NobodyStuck)'
      BY <1>2, <2>1, <2>3
         DEF RegisterNative, RegisterPlugin, BackendInv, CodeIsThere, Truthful, NobodyStuck, Passing, ReportIsTrue,
             Registered, Moves
    <3>2. Stages'
      BY <1>2, <2>1, <2>3
         DEF RegisterNative, RegisterPlugin, Register, DestroyAdapters, BackendInv, Stages, Registered
    <3> QED
      BY <1>1, <2>2, <3>1, <3>2 DEF BackendInv
  <2>4. CASE \E b \in Native \cup library : Register(b)
    <3>1. PICK b \in Native \cup library : Register(b)
      BY <2>4
    <3>2. \A i \in Ids \ {IdOf[b]} : backend'[i] = backend[i] /\ lifecycle'[i] = lifecycle[i]
      BY <3>1 DEF Register, BackendInv, Types, GatewayTypeOK
    <3>3. IdOf[b] \in Ids => backend'[IdOf[b]] = b /\ lifecycle'[IdOf[b]] = "Registered"
      BY <3>1 DEF Register, BackendInv, Types, GatewayTypeOK
    <3>4. CodeIsThere'
      BY <1>2, <2>1, <3>2, <3>3 DEF RegisterNative, RegisterPlugin, BackendInv, CodeIsThere, Registered
    <3>5. (Truthful /\ NobodyStuck)'
      BY <2>1, <3>2, <3>3 DEF BackendInv, Truthful, NobodyStuck, Passing, ReportIsTrue, Registered, Moves
    <3>6. Stages'
      BY <1>2, <2>1, <3>1 DEF RegisterNative, RegisterPlugin, DestroyAdapters, BackendInv, Stages, Registered, Registrants
    <3> QED
      BY <1>1, <2>2, <3>4, <3>5, <3>6 DEF BackendInv
  <2> QED
    BY <1>2, <2>3, <2>4 DEF RegisterNative, RegisterPlugin, BackendInv, Types, Loops, Stages
<1>3. CASE LoadPlugin
  BY <1>1, <1>3 DEF LoadPlugin, Load, LoadPluginBackend, BackendInv, Stages, CodeIsThere, TargetsRegistered, OneMover,
     Truthful, NobodyStuck, Passing, ReportIsTrue, Registered, AboutBackend, Moves
<1>4. CASE StartAll
  <2>1. UNCHANGED <<registryVars, library, adapter, up, raced>>
    BY <1>4 DEF StartAll
  <2>2. \A t \in HttpCallers, i \in Ids : Moves(t, i)' => Moves(t, i)
    BY <1>4 DEF StartAll, Becomes, Moves, BackendInv, Types, CallTypes
  <2>3. \A t \in HttpCallers, i \in Ids : Moves(t, i) => Moves(t, i)'
    BY <1>4 DEF StartAll, Becomes, Moves, BackendInv, Types, CallTypes
  <2>4. TargetsRegistered'
    BY <1>4, <2>1 DEF StartAll, Becomes, BackendInv, Types, CallTypes, Stages, TargetsRegistered, AboutBackend, Registered
  <2>5. Stages'
    BY <1>4, <2>1 DEF StartAll, Becomes, BackendInv, Types, CallTypes, Stages, Registered
  <2>6. CodeIsThere'
    BY <1>4, <2>1 DEF StartAll, BackendInv, CodeIsThere, Registered
  <2>7. OneMover'
    BY <2>1, <2>2 DEF BackendInv, OneMover
  <2>8. (Truthful /\ NobodyStuck)'
    BY <2>1, <2>3 DEF BackendInv, Truthful, NobodyStuck, Passing, ReportIsTrue, Registered
  <2> QED
    BY <1>1, <2>4, <2>5, <2>6, <2>7, <2>8 DEF BackendInv
<1>5. CASE Ping \/ Prepare \/ ListenEnds
  <2>1. /\ UNCHANGED <<todo, library, adapter, registryVars, callVars, history>>
        /\ phase \in {"ping", "prepare", "serving"}
        /\ phase' \in {"prepare", "aborted", "serving", "leaving"}
        /\ phase' # "serving" => \A t \in HttpThreads : doing[t] = "idle"
    BY <1>5 DEF Ping, Prepare, ListenEnds, BackendInv, Stages
  <2> QED
    BY <1>1, <2>1 DEF BackendInv, Stages, CodeIsThere, TargetsRegistered, OneMover, Truthful, NobodyStuck, Passing,
       ReportIsTrue, Registered, AboutBackend, Moves
<1>6. CASE FreeLibraries
  BY <1>1, <1>6 DEF FreeLibraries, BackendInv, Stages, CodeIsThere, TargetsRegistered, OneMover, Truthful, NobodyStuck,
     Passing, ReportIsTrue, Registered, AboutBackend, Moves
<1>7. CASE DestroyRegistry
  BY <1>1, <1>7 DEF DestroyRegistry, DestroyAdapters, BackendInv, Stages, CodeIsThere, TargetsRegistered, OneMover, Truthful,
     NobodyStuck, Registered, Unregistered, AboutBackend, Moves
<1> QED
  BY <1>2, <1>3, <1>4, <1>5, <1>6, <1>7 DEF Boot, Leave

\* A call changes neither what main() does, unless the process dies of it, nor what
\* is registered.
LEMMA CallsChangeNoBackend ==
  ASSUME NEW t \in HttpCallers, Accept(t) \/ Proceed(t)
  PROVE  /\ UNCHANGED <<todo, library, adapter, backend, calledFreed>>
         /\ phase' = phase \/ phase' = "aborted"
<1> USE DEF bootVars, registryVars, decisions, history
<1>1. CASE Accept(t)
  BY <1>1 DEF Accept, PostStart, PostStop, PostCommand, PostQuery, PostApprove, PostReject
<1>2. CASE Proceed(t)
  BY <1>2 DEF Proceed, StartCheck, StartBegins, StartReturns, StopCheck, StopBegins, StopReturns, Approve, Reject, SetStatus,
     DispatchApproved, DispatchCommand, Dispatched, RemoveRequest
<1> QED
  BY <1>1, <1>2

\* What the threads of the server do to backends.
LEMMA BackendCalls ==
  ASSUME BackendInv, NEW t \in HttpCallers, (t \in HttpThreads /\ Accept(t)) \/ Proceed(t)
  PROVE  BackendInv'
<1> USE DEF bootVars, registryVars, approvalVars, callVars, decisions, history, Becomes, Done
<1>1. Types'
  BY TypesOfCalls DEF BackendInv
<1>2. /\ UNCHANGED <<todo, library, adapter, backend, calledFreed>>
      /\ phase' = phase \/ phase' = "aborted"
      /\ Registered' = Registered
  BY CallsChangeNoBackend DEF Registered
<1>3. \A u \in HttpCallers \ {t} : doing'[u] = doing[u] /\ target'[u] = target[u]
  BY DEF BackendInv, Types, CallTypes, Accept, Proceed, PostStart, PostStop, PostCommand, PostQuery, PostApprove, PostReject,
     StartCheck, StartBegins, StartReturns, StopCheck, StopBegins, StopReturns, Approve, Reject, DispatchApproved,
     DispatchCommand, Dispatched, RemoveRequest, FindPending, DispatchTo
<1>4. AboutBackend(t)' => target'[t] \in Registered
  BY DEF BackendInv, Types, CallTypes, TargetsRegistered, AboutBackend, Accept, Proceed, PostStart, PostStop, PostCommand,
     PostQuery, PostApprove, PostReject, StartCheck, StartBegins, StartReturns, StopCheck, StopBegins, StopReturns,
     Approve, Reject, DispatchApproved, DispatchCommand, Dispatched, RemoveRequest, DispatchTo, Serves
<1>5. TargetsRegistered'
  BY <1>2, <1>3, <1>4 DEF BackendInv, TargetsRegistered, AboutBackend
<1>6. \/ phase = "serving" /\ t \in HttpThreads
      \/ phase = "start" /\ t = Main
  <2>1. CASE t \in HttpThreads /\ Accept(t)
    BY <2>1, GatewayAssumption DEF Accept, PostStart, PostStop, PostCommand, PostQuery, PostApprove, PostReject, Serves,
       BackendInv, Stages, HttpCallers
  <2>2. CASE Proceed(t)
    <3>1. doing[t] # "idle" /\ phase # "aborted"
      BY <2>2 DEF Proceed, StartCheck, StartBegins, StartReturns, StopCheck, StopBegins, StopReturns, Approve, Reject,
         DispatchApproved, Dispatched, RemoveRequest
    <3> QED
      BY <3>1 DEF BackendInv, Stages, HttpCallers
  <2> QED
    BY <2>1, <2>2
<1>7. Stages'
  BY <1>2, <1>3, <1>6, GatewayAssumption DEF BackendInv, Stages, HttpCallers
<1>8. CodeIsThere'
  BY <1>2 DEF BackendInv, CodeIsThere
<1>9. (OneMover /\ Truthful /\ NobodyStuck)'
  <2>1. \A u \in HttpCallers \ {t} : \A i \in Ids : Moves(u, i)' <=> Moves(u, i)
    BY <1>3 DEF Moves
  <2>2. CASE StartCheck(t) \/ StopCheck(t)
    <3>1. UNCHANGED <<lifecycle, up>>
      BY <2>2 DEF StartCheck, StopCheck
    <3>2. \A i \in Ids : ~Moves(t, i)
      BY <2>2 DEF StartCheck, StopCheck, Moves
    <3>3. \/ raced' = raced /\ \A i \in Ids : ~Moves(t, i)'
          \/ /\ \A i \in Ids \ {target[t]} : ~Moves(t, i)'
             /\ target[t] \in Ids => Moves(t, target[t])'
             /\ raced' = IF \A u \in HttpCallers : ~Moves(u, target[t]) THEN raced ELSE raced \cup {target[t]}
      BY <2>2 DEF StartCheck, StopCheck, Moves, Moving, BackendInv, Types, CallTypes
    <3>4. OneMover'
      BY <2>1, <3>2, <3>3 DEF BackendInv, OneMover
    <3>5. (Truthful /\ NobodyStuck)'
      BY <1>2, <2>1, <3>1, <3>2, <3>3 DEF BackendInv, Truthful, NobodyStuck, Passing, ReportIsTrue, Registered
    <3> QED
      BY <3>4, <3>5
  <2>3. CASE StartBegins(t) \/ StopBegins(t)
    <3>1. /\ UNCHANGED <<up, raced>>
          /\ \A i \in Ids \ {target[t]} : lifecycle'[i] = lifecycle[i]
      BY <2>3 DEF StartBegins, StopBegins, TransitionTo, BackendInv, Types, GatewayTypeOK
    <3>2. \A i \in Ids : Moves(t, i)' <=> Moves(t, i)
      BY <2>3 DEF StartBegins, StopBegins, Moves, BackendInv, Types, CallTypes
    <3>3. \A i \in Ids : target[t] = i => Moves(t, i)
      BY <2>3 DEF StartBegins, StopBegins, Moves
    <3>4. OneMover'
      BY <2>1, <3>1, <3>2 DEF BackendInv, OneMover
    <3>5. (Truthful /\ NobodyStuck)'
      BY <1>2, <2>1, <3>1, <3>2, <3>3 DEF BackendInv, Truthful, NobodyStuck, Passing, ReportIsTrue, Registered
    <3> QED
      BY <3>4, <3>5
  <2>4. CASE StartReturns(t) \/ StopReturns(t)
    <3>1. /\ UNCHANGED raced
          /\ \A i \in Ids \ {target[t]} : lifecycle'[i] = lifecycle[i] /\ (i \in up' <=> i \in up)
          /\ \A i \in Ids : target[t] = i => ReportIsTrue(i)' /\ ~Passing(i)'
      BY <2>4 DEF StartReturns, StopReturns, TransitionTo, ReportIsTrue, Passing, BackendInv, Types, GatewayTypeOK
    <3>2. \A i \in Ids : ~Moves(t, i)'
      BY <2>4 DEF StartReturns, StopReturns, Moves, BackendInv, Types, CallTypes
    <3>3. \A i \in Ids \ {target[t]} : ~Moves(t, i)
      BY DEF Moves
    <3>4. OneMover'
      BY <2>1, <3>1, <3>2 DEF BackendInv, OneMover
    <3>5. \A i \in Ids \ {target[t]} : ReportIsTrue(i) => ReportIsTrue(i)'
      BY <3>1 DEF ReportIsTrue
    <3>6. Truthful'
      BY <1>2, <2>1, <3>1, <3>3, <3>5 DEF BackendInv, Truthful, Registered
    <3>7. NobodyStuck'
      BY <1>2, <2>1, <3>1, <3>3 DEF BackendInv, NobodyStuck, Passing, Registered
    <3> QED
      BY <3>4, <3>6, <3>7
  <2>5. CASE Accept(t) \/ Approve(t) \/ Reject(t) \/ DispatchApproved(t) \/ Dispatched(t) \/ RemoveRequest(t)
    <3>1. UNCHANGED <<lifecycle, up, raced>>
      BY <2>5 DEF Accept, PostStart, PostStop, PostCommand, PostQuery, PostApprove, PostReject, Approve, Reject,
         DispatchApproved, Dispatched, RemoveRequest
    <3>2. \A i \in Ids : ~Moves(t, i) /\ ~Moves(t, i)'
      BY <2>5 DEF Accept, PostStart, PostStop, PostCommand, PostQuery, PostApprove, PostReject, Approve, Reject,
         DispatchApproved, DispatchCommand, Dispatched, RemoveRequest, DispatchTo, Serves, Moves, BackendInv, Types, CallTypes
    <3>3. OneMover'
      BY <2>1, <3>1, <3>2 DEF BackendInv, OneMover
    <3>4. (Truthful /\ NobodyStuck)'
      BY <1>2, <2>1, <3>1, <3>2 DEF BackendInv, Truthful, NobodyStuck, Passing, ReportIsTrue, Registered
    <3> QED
      BY <3>3, <3>4
  <2> QED
    BY <2>2, <2>3, <2>4, <2>5 DEF Proceed
<1> QED
  BY <1>1, <1>5, <1>7, <1>8, <1>9 DEF BackendInv

\* Nor does main(), which is alone when it registers and unloads.
LEMMA BackendStep == ASSUME BackendInv, [NextGateway]_gatewayVars PROVE BackendInv'
<1>1. CASE UNCHANGED gatewayVars
  BY <1>1 DEF gatewayVars, bootVars, registryVars, approvalVars, callVars, decisions, history, BackendInv, Types,
     GatewayTypeOK, CallTypes, Resolves, Loops, Stages, CodeIsThere, TargetsRegistered, OneMover, Truthful, NobodyStuck,
     Passing, ReportIsTrue, Registered, AboutBackend, Moves
<1>2. CASE Boot \/ Leave
  BY <1>2, BackendMain
<1>3. ASSUME NEW t \in HttpCallers, (t \in HttpThreads /\ Accept(t)) \/ Proceed(t)
      PROVE  BackendInv'
  BY <1>3, BackendCalls
<1> QED
  BY <1>1, <1>2, <1>3 DEF NextGateway, HttpCallers

\* A backend that is reported as running was started and not stopped since, but where
\* two calls about it overlapped; none is reported as starting or stopping when no call
\* does either; and until main() destroys the registry, no call and no destructor of an
\* adapter goes to a library that is unloaded.
THEOREM BackendsThere == SpecGateway => []BackendsAreThere
<1>1. BackendInv => GatewayTypeOK
  BY DEF BackendInv, Types
<1>2. BackendInv => LifecycleIsTrue
  BY DEF BackendInv, LifecycleIsTrue, Truthful, NobodyStuck, Passing, ReportIsTrue, Moving, Moves
<1>3. BackendInv => CallsReachLoadedCode
  <2> SUFFICES ASSUME BackendInv PROVE CallsReachLoadedCode
    OBVIOUS
  <2>1. phase \notin {"exited", "aborted"} => calledFreed = {}
    BY DEF BackendInv, Stages
  <2>2. ASSUME NEW t \in HttpCallers, doing[t] \in {"starting", "stopping", "dispatch", "dispatchApproved"},
               phase # "aborted"
        PROVE  backend[target[t]] \in Native \cup library
    <3>1. target[t] \in Registered
      BY <2>2 DEF BackendInv, TargetsRegistered, AboutBackend
    <3>2. phase \notin {"unloaded", "exited"}
      BY <2>2 DEF BackendInv, Stages, HttpCallers
    <3> QED
      BY <2>2, <3>1, <3>2 DEF BackendInv, CodeIsThere
  <2> QED
    BY <2>1, <2>2 DEF CallsReachLoadedCode
<1>4. BackendInv => BackendsAreThere
  BY <1>1, <1>2, <1>3 DEF BackendsAreThere
<1> QED
  BY InitBackend, BackendStep, <1>4, PTL DEF SpecGateway
=============================================================================
