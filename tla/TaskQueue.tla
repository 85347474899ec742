----------------------------- MODULE TaskQueue -----------------------------
(***************************************************************************)
(* TaskQueue (Core/Task): the ledger of tasks, their states and their      *)
(* dependencies.  Every operation is one critical section under the        *)
(* queue's mutex; an operation whose check fails returns an error and      *)
(* changes nothing, so it is not a step.  Ready() lists tasks in insertion *)
(* order; the order is abstracted to a set, and the clock to a choice of   *)
(* which running tasks CheckTimeouts() finds past their timeout.           *)
(***************************************************************************)
EXTENDS Integers

CONSTANTS
  Tasks,
  DependsOn,    \* Task::depends_on
  MaxRetries,   \* Task::max_retries
  Timed,        \* tasks with timeout_seconds > 0
  Full,         \* progress 1.0, in the units of the model
  Reports       \* values given to ReportProgress(), any of them out of range

ASSUME DependsOnIsFunction == DependsOn \in [Tasks -> SUBSET Tasks]
ASSUME MaxRetriesIsNatural == MaxRetries \in [Tasks -> Nat]
ASSUME TimedAreTasks == Timed \subseteq Tasks
ASSUME FullIsPositive == Full \in Nat \ {0}
ASSUME ReportsAreIntegers == Reports \subseteq Int

VARIABLES
  state,        \* Task::state, or "Absent" before Enqueue()
  progress,     \* Task::progress
  retryCount,   \* Task::retry_count
  lastError     \* last_errors_, "none" for a task without an entry

queueVars == <<state, progress, retryCount, lastError>>

TaskStates == {"Pending", "Running", "Paused", "Completed", "Failed", "Cancelled"}
IsTerminal(t) == state[t] \in {"Completed", "Failed", "Cancelled"}
Enqueued(t) == state[t] # "Absent"

\* Mutant: any end of a dependency will do.
DependenciesTerminal(t) == \A d \in DependsOn[t] : IsTerminal(d)

DependenciesSatisfied(t) == \A d \in DependsOn[t] : state[d] = "Completed"
Ready == {t \in Tasks : state[t] = "Pending" /\ DependenciesSatisfied(t)}

\* std::clamp(p, 0.0, 1.0)
Clamp(p) == IF p < 0 THEN 0 ELSE IF p > Full THEN Full ELSE p

-----------------------------------------------------------------------------
InitQueue ==
  /\ state = [t \in Tasks |-> "Absent"]
  /\ progress = [t \in Tasks |-> 0]
  /\ retryCount = [t \in Tasks |-> 0]
  /\ lastError = [t \in Tasks |-> "none"]

Enqueue(t) ==
  /\ ~Enqueued(t)
  /\ state' = [state EXCEPT ![t] = "Pending"]
  /\ progress' = [progress EXCEPT ![t] = 0]
  /\ UNCHANGED <<retryCount, lastError>>

\* Mutant: a task is started without a look at its state.
StartAgain(t) ==
  /\ DependenciesSatisfied(t)
  /\ state' = [state EXCEPT ![t] = "Running"]
  /\ UNCHANGED <<progress, retryCount, lastError>>

Start(t) ==
  /\ state[t] = "Pending" /\ DependenciesSatisfied(t)
  /\ state' = [state EXCEPT ![t] = "Running"]
  /\ UNCHANGED <<progress, retryCount, lastError>>

Pause(t) ==
  /\ state[t] = "Running"
  /\ state' = [state EXCEPT ![t] = "Paused"]
  /\ UNCHANGED <<progress, retryCount, lastError>>

Resume(t) ==
  /\ state[t] = "Paused"
  /\ state' = [state EXCEPT ![t] = "Running"]
  /\ UNCHANGED <<progress, retryCount, lastError>>

ReportProgress(t, p) ==
  /\ state[t] = "Running"
  /\ progress' = [progress EXCEPT ![t] = Clamp(p)]
  /\ UNCHANGED <<state, retryCount, lastError>>

Complete(t) ==
  /\ state[t] = "Running"
  /\ state' = [state EXCEPT ![t] = "Completed"]
  /\ progress' = [progress EXCEPT ![t] = Full]
  /\ UNCHANGED <<retryCount, lastError>>

Fail(t) ==
  /\ state[t] = "Running"
  /\ state' = [state EXCEPT ![t] = "Failed"]
  /\ lastError' = [lastError EXCEPT ![t] = "failure"]
  /\ UNCHANGED <<progress, retryCount>>

\* Mutant: a paused task may be retried as well.
RetryPaused(t) ==
  /\ state[t] \in {"Failed", "Paused"} /\ retryCount[t] < MaxRetries[t]
  /\ retryCount' = [retryCount EXCEPT ![t] = @ + 1]
  /\ state' = [state EXCEPT ![t] = "Pending"]
  /\ progress' = [progress EXCEPT ![t] = 0]
  /\ UNCHANGED lastError

Retry(t) ==
  /\ state[t] = "Failed" /\ retryCount[t] < MaxRetries[t]
  /\ retryCount' = [retryCount EXCEPT ![t] = @ + 1]
  /\ state' = [state EXCEPT ![t] = "Pending"]
  /\ progress' = [progress EXCEPT ![t] = 0]
  /\ UNCHANGED lastError

Cancel(t) ==
  /\ Enqueued(t) /\ ~IsTerminal(t)
  /\ state' = [state EXCEPT ![t] = "Cancelled"]
  /\ UNCHANGED <<progress, retryCount, lastError>>

\* The clock decides which running tasks have exceeded their timeout.
CheckTimeouts(expired) ==
  /\ expired # {}
  /\ \A t \in expired : t \in Timed /\ state[t] = "Running"
  /\ state' = [t \in Tasks |-> IF t \in expired THEN "Failed" ELSE state[t]]
  /\ lastError' = [t \in Tasks |-> IF t \in expired THEN "timeout" ELSE lastError[t]]
  /\ UNCHANGED <<progress, retryCount>>

NextQueue ==
  \/ \E t \in Tasks :
       \/ Enqueue(t) \/ Start(t) \/ Pause(t) \/ Resume(t)
       \/ Complete(t) \/ Fail(t) \/ Retry(t) \/ Cancel(t)
       \/ \E p \in Reports : ReportProgress(t, p)
  \/ \E expired \in SUBSET Timed : CheckTimeouts(expired)

QueueSpec == InitQueue /\ [][NextQueue]_queueVars

-----------------------------------------------------------------------------
QueueTypeOK ==
  /\ state \in [Tasks -> TaskStates \cup {"Absent"}]
  /\ progress \in [Tasks -> 0..Full]
  /\ retryCount \in [Tasks -> Nat]
  /\ lastError \in [Tasks -> {"none", "failure", "timeout"}]

\* The task has been started at least once.
EverStarted(t) ==
  state[t] \in {"Running", "Paused", "Completed", "Failed"} \/ retryCount[t] > 0

\* However tasks are started, failed, retried and cancelled, one that was
\* ever started has all its dependencies Completed, now and not only then.
DependenciesFirst ==
  \A t \in Tasks : EverStarted(t) => \A d \in DependsOn[t] : state[d] = "Completed"

\* The progress shown belongs to the present attempt: none while the task
\* waits for its turn (also to run again), all of it once it is Completed.
ProgressOfThisAttempt ==
  \A t \in Tasks :
    /\ state[t] \in {"Absent", "Pending"} => progress[t] = 0
    /\ state[t] = "Completed" => progress[t] = Full

\* A task that is Failed, or waits to be retried, has the error of its last
\* attempt on record, and the retries it was given are never exceeded.
FailuresOnRecord ==
  \A t \in Tasks :
    /\ state[t] = "Failed" \/ retryCount[t] > 0 => lastError[t] # "none"
    /\ retryCount[t] <= MaxRetries[t]

=============================================================================
