---------------------------- MODULE TaskExecutor ----------------------------
(***************************************************************************)
(* TaskExecutor (Core/Task): runs the jobs of the tasks in the TaskQueue   *)
(* it wraps, one thread for each task it starts.  Submitting threads and   *)
(* workers race in DispatchReady(), which takes a snapshot of the ready    *)
(* tasks and then handles them one by one under the executor's mutex;      *)
(* other threads call the queue directly, and the owner may destroy the    *)
(* executor while jobs run.                                                *)
(***************************************************************************)
EXTENDS TaskQueue

CONSTANTS
  Submitters,   \* threads that call Submit()
  Calls         \* calls made to the queue and the executor besides Submit()

ASSUME CallsAreKnown ==
  Calls \subseteq {"Pause", "Cancel", "Retry", "CheckTimeouts", "Destroy"}

VARIABLES
  jobs,      \* jobs_: tasks with a registered job
  call,      \* where each thread is in Submit() or RunJob()
  futures,   \* workers_: the workers whose futures are in the vector
  owner      \* where the owner is in ~TaskExecutor()

execVars == <<jobs, call, futures, owner>>
vars == <<queueVars, execVars>>

\* The threads that run RunJob(), numbered for each task: a task has one for
\* every time it is started, and only a retry lets it start again.
Workers == UNION {{t} \X (0..MaxRetries[t]) : t \in Tasks}
TaskOf(w) == w[1]
Threads == Submitters \cup Workers

ASSUME ThreadsApart == Submitters \cap Workers = {}

NoCall   == [at |-> "idle"]
Unborn   == [at |-> "unborn"]
Finished == [at |-> "finished"]

\* A thread leaves DispatchReady(), and with it Submit() or RunJob().
Return(th) == IF th \in Submitters THEN NoCall ELSE Finished

\* The rest of the loop in DispatchReady().
Dispatch(th, todo) == IF todo = {} THEN Return(th) ELSE [at |-> "dispatch", todo |-> todo]

\* The next thread to be created for its task.
NextUnborn(w) ==
  call[w] = Unborn /\ \A n \in 0..(w[2] - 1) : call[<<TaskOf(w), n>>] # Unborn

-----------------------------------------------------------------------------
Init ==
  /\ InitQueue
  /\ jobs = {}
  /\ call = [th \in Threads |-> IF th \in Submitters THEN NoCall ELSE Unborn]
  /\ futures = {}
  /\ owner = [at |-> "using"]

-----------------------------------------------------------------------------
(* Submit: enqueue, then register the job, then DispatchReady.             *)

SubmitEnqueue(c, t) ==
  /\ call[c] = NoCall /\ owner.at = "using"
  /\ Enqueue(t)
  /\ call' = [call EXCEPT ![c] = [at |-> "register", task |-> t]]
  /\ UNCHANGED <<jobs, futures, owner>>

SubmitRegister(c) ==
  /\ call[c].at = "register"
  /\ jobs' = jobs \cup {call[c].task}
  /\ call' = [call EXCEPT ![c] = [at |-> "snapshot"]]
  /\ UNCHANGED <<queueVars, futures, owner>>

-----------------------------------------------------------------------------
(* DispatchReady.                                                          *)

\* queue_.Ready(), a copy.
Snapshot(th) ==
  /\ call[th].at = "snapshot"
  /\ call' = [call EXCEPT ![th] = Dispatch(th, Ready)]
  /\ UNCHANGED <<queueVars, jobs, futures, owner>>

\* The next task of the snapshot is passed over: it has no job, or it is not
\* ready any more and Start() refuses it.
DispatchSkip(th, t) ==
  /\ call[th].at = "dispatch" /\ t \in call[th].todo
  /\ t \in jobs => t \notin Ready
  /\ call' = [call EXCEPT ![th] = Dispatch(th, @.todo \ {t})]
  /\ UNCHANGED <<queueVars, jobs, futures, owner>>

\* Start() accepts it: finished workers are pruned, and a worker is spawned.
DispatchStart(th, t) ==
  /\ call[th].at = "dispatch" /\ t \in call[th].todo
  /\ t \in jobs
  /\ Start(t)
  /\ \E w \in Workers :
       /\ TaskOf(w) = t /\ NextUnborn(w)
       /\ call' = [call EXCEPT ![th] = Dispatch(th, @.todo \ {t}),
                               ![w] = [at |-> "spawned"]]
       /\ futures' = {v \in futures : call[v] # Finished} \cup {w}
  /\ UNCHANGED <<jobs, owner>>

-----------------------------------------------------------------------------
(* RunJob.                                                                 *)

\* Copy the job, or return at once if it is gone.
RunJobBegin(w) ==
  /\ call[w].at = "spawned"
  /\ call' = [call EXCEPT ![w] = IF TaskOf(w) \in jobs THEN [at |-> "running"] ELSE Finished]
  /\ UNCHANGED <<queueVars, jobs, futures, owner>>

\* The job reports its progress.
JobReportsProgress(w, p) ==
  /\ call[w].at = "running"
  /\ ReportProgress(TaskOf(w), p)
  /\ UNCHANGED execVars

\* The job returns Ok, or it fails or throws.
JobEnds(w, ok) ==
  /\ call[w].at = "running"
  /\ call' = [call EXCEPT ![w] = [at |-> "erase", ok |-> ok]]
  /\ UNCHANGED <<queueVars, jobs, futures, owner>>

EraseJob(w) ==
  /\ call[w].at = "erase"
  /\ jobs' = jobs \ {TaskOf(w)}
  /\ call' = [call EXCEPT ![w] = [at |-> "report", ok |-> @.ok]]
  /\ UNCHANGED <<queueVars, futures, owner>>

\* Mutants: a finished job does not dispatch its dependents, or its failure
\* is not reported.
ReportOutcomeOnly(w) ==
  /\ call[w].at = "report"
  /\ \/ state[TaskOf(w)] = "Running" /\ call[w].ok /\ Complete(TaskOf(w))
     \/ state[TaskOf(w)] = "Running" /\ ~call[w].ok /\ Fail(TaskOf(w))
     \/ state[TaskOf(w)] # "Running" /\ UNCHANGED queueVars
  /\ call' = [call EXCEPT ![w] = Finished]
  /\ UNCHANGED <<jobs, futures, owner>>

ReportSuccessOnly(w) ==
  /\ call[w].at = "report"
  /\ \/ state[TaskOf(w)] = "Running" /\ call[w].ok /\ Complete(TaskOf(w))
     \/ (state[TaskOf(w)] # "Running" \/ ~call[w].ok) /\ UNCHANGED queueVars
  /\ call' = [call EXCEPT ![w] = [at |-> "snapshot"]]
  /\ UNCHANGED <<jobs, futures, owner>>

\* Complete() or Fail(); the error they return for a task that is no longer
\* Running is dropped.
ReportOutcome(w) ==
  /\ call[w].at = "report"
  /\ \/ state[TaskOf(w)] = "Running" /\ call[w].ok /\ Complete(TaskOf(w))
     \/ state[TaskOf(w)] = "Running" /\ ~call[w].ok /\ Fail(TaskOf(w))
     \/ state[TaskOf(w)] # "Running" /\ UNCHANGED queueVars
  /\ call' = [call EXCEPT ![w] = [at |-> "snapshot"]]
  /\ UNCHANGED <<jobs, futures, owner>>

-----------------------------------------------------------------------------
(* ~TaskExecutor, which nobody calls while a Submit() is under way.        *)

AllFinished(ws) == \A w \in ws : call[w] = Finished

\* The body takes the vector's futures and waits for those.
DestructorTakesWorkers ==
  /\ "Destroy" \in Calls
  /\ owner.at = "using" /\ \A c \in Submitters : call[c] = NoCall
  /\ owner' = [at |-> "waiting", for |-> futures]
  /\ futures' = {}
  /\ UNCHANGED <<queueVars, jobs, call>>

\* The members are destroyed next, workers_ first: the destructor of each
\* future that is in the vector now waits for its worker.
DestructorBodyEnds ==
  /\ owner.at = "waiting" /\ AllFinished(owner.for)
  /\ owner' = [at |-> "destroyingMembers", for |-> futures]
  /\ UNCHANGED <<queueVars, jobs, call, futures>>

DestructorReturns ==
  /\ owner.at = "destroyingMembers" /\ AllFinished(owner.for)
  /\ owner' = [at |-> "destroyed"]
  /\ UNCHANGED <<queueVars, jobs, call, futures>>

-----------------------------------------------------------------------------
\* Other threads act on the queue.
QueueCall ==
  /\ \/ \E t \in Tasks :
          \/ "Pause" \in Calls /\ (Pause(t) \/ Resume(t))
          \/ "Cancel" \in Calls /\ Cancel(t)
          \/ "Retry" \in Calls /\ Retry(t)
     \/ "CheckTimeouts" \in Calls /\ \E expired \in SUBSET Timed : CheckTimeouts(expired)
  /\ UNCHANGED execVars

ThreadProceeds(th) ==
  \/ Snapshot(th)
  \/ \E t \in Tasks : DispatchSkip(th, t) \/ DispatchStart(th, t)

SubmitProceeds(c) == SubmitRegister(c) \/ ThreadProceeds(c)

WorkerProceeds(w) ==
  \/ RunJobBegin(w) \/ EraseJob(w) \/ ReportOutcome(w)
  \/ \E ok \in BOOLEAN : JobEnds(w, ok)
  \/ ThreadProceeds(w)

Next ==
  \/ \E c \in Submitters : SubmitProceeds(c) \/ \E t \in Tasks : SubmitEnqueue(c, t)
  \/ \E w \in Workers : WorkerProceeds(w) \/ \E p \in Reports : JobReportsProgress(w, p)
  \/ QueueCall
  \/ DestructorTakesWorkers \/ DestructorBodyEnds \/ DestructorReturns

Spec == Init /\ [][Next]_vars

\* Threads that are in a call are scheduled, and jobs end.
Fairness ==
  /\ \A c \in Submitters : WF_vars(SubmitProceeds(c))
  /\ \A w \in Workers : WF_vars(WorkerProceeds(w))

FairSpec == Spec /\ Fairness

-----------------------------------------------------------------------------
CallType(th) ==
  {Return(th)} \cup [at : {"snapshot"}] \cup [at : {"dispatch"}, todo : (SUBSET Tasks) \ {{}}]
    \cup IF th \in Submitters
           THEN [at : {"register"}, task : Tasks]
           ELSE {Unborn, [at |-> "spawned"], [at |-> "running"]}
                  \cup [at : {"erase", "report"}, ok : BOOLEAN]

TypeOK ==
  /\ QueueTypeOK
  /\ jobs \subseteq Tasks
  /\ \A th \in Threads : call[th] \in CallType(th)
  /\ futures \subseteq Workers
  /\ owner \in [at : {"using", "destroyed"}]
                 \cup [at : {"waiting", "destroyingMembers"}, for : SUBSET Workers]

\* The worker exists and has not finished.
Active(w) == call[w] \notin {Unborn, Finished}

\* The worker has yet to tell the queue how its job ended.
Owes(w) == call[w].at \in {"spawned", "running", "erase", "report"}

\* Two threads never run a task at the same time.
OneWorker ==
  \A w, v \in Workers : TaskOf(w) = TaskOf(v) /\ Owes(w) /\ Owes(v) => w = v

\* A job runs only when every dependency of its task is Completed, also if
\* its task has been cancelled or paused meanwhile.
JobAfterDependencies ==
  \A w \in Workers :
    call[w].at = "running" => \A d \in DependsOn[TaskOf(w)] : state[d] = "Completed"

\* A task in state Running has a worker that will report its outcome.
RunningHasWorker ==
  \A t \in Tasks : state[t] = "Running" => \E w \in Workers : TaskOf(w) = t /\ Owes(w)

\* A task becomes Completed through the worker of its present attempt.
CompletedByPresentAttempt ==
  [][\A w \in Workers :
       ReportOutcome(w) /\ state'[TaskOf(w)] = "Completed" /\ state[TaskOf(w)] # "Completed"
         => w[2] = retryCount[TaskOf(w)]]_vars

\* Once the destructor has returned no worker is left to use the executor.
DestructorWaits ==
  owner.at = "destroyed" => \A w \in Workers : ~Active(w)

\* Well typed, and every task in state Running is the job of a worker, which may
\* start it and which the destructor waits for.
JobsAreOwned == TypeOK /\ RunningHasWorker /\ JobAfterDependencies /\ DestructorWaits

\* A submitted task whose dependencies are Completed is run, unless it is
\* cancelled first.
ReadyTasksRun ==
  \A t \in Tasks : (t \in Ready) ~> (state[t] # "Pending")

=============================================================================
