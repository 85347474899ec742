------------------------------ MODULE Sessions ------------------------------
(***************************************************************************)
(* SessionManager (Core/Session) over the PtyProcess behind each session's *)
(* ICliAdapter (Core/Terminal), releasing leases in the ledger of module   *)
(* ResourceLeases.  Users call CreateSession, Stop, Restart and SetState,  *)
(* pollers call PollAll; adapter->Start() runs outside the manager's       *)
(* mutex, and so does the lease release that follows a terminal state, so  *)
(* other threads' calls interleave there.                                  *)
(***************************************************************************)
EXTENDS Naturals, FiniteSets, Sequences

CONSTANTS
  SessionIds,
  Adapters,        \* one for each CreateSession call: bounds their number
  Resources,
  Users, Pollers,  \* threads that call SessionManager
  Client,          \* the thread through which the CLIs use the ledger
  NoAdapter,
  SerialRestarts   \* TRUE when users never restart one session concurrently

ASSUME ThreadsDisjoint == Users \cap Pollers = {} /\ Client \notin Users \cup Pollers
ASSUME NoAdapterIsNone == NoAdapter \notin Adapters
ASSUME SerialRestartsIsBoolean == SerialRestarts \in BOOLEAN

VARIABLES
  state,          \* Session::state, or "Unregistered" before CreateSession
  adapterOf,      \* Entry::adapter
  stopRequested,  \* Entry::stop_requested
  restarting,     \* Entry::restart_in_progress
  child,          \* the OS process behind an adapter
  running,        \* PtyProcess::Impl::running
  exitCode,       \* PtyProcess::Impl::exit_code
  call,           \* where each thread is in its SessionManager call
  holders, queue, announcing, told   \* the ledger

entryVars == <<state, adapterOf, stopRequested, restarting>>
ptyVars   == <<child, running, exitCode>>
leaseVars == <<holders, queue, announcing, told>>
vars      == <<entryVars, ptyVars, call, leaseVars>>

Managers == Users \cup Pollers
Ledger == INSTANCE ResourceLeases
            WITH Sessions <- SessionIds, Callers <- Managers \cup {Client}

SessionStates == {"Unknown", "Starting", "Running", "WaitingForInput",
                  "WaitingForApproval", "Terminated", "Failed"}
Terminal(st) == st \in {"Terminated", "Failed"}
Registered(s) == state[s] # "Unregistered"

Exited == {"exitedZero", "exitedNonzero"}
Alive(s) == Registered(s) /\ child[adapterOf[s]] = "alive"

\* Where a thread is: idle, about to run adapter->Start(), about to record
\* Start()'s result, or releasing the leases of the sessions in "reclaim".
NoCall == [at |-> "idle"]
Idle(t) == call[t] = NoCall /\ Ledger!Idle(t)

-----------------------------------------------------------------------------
Init ==
  /\ state = [s \in SessionIds |-> "Unregistered"]
  /\ adapterOf = [s \in SessionIds |-> NoAdapter]
  /\ stopRequested = [s \in SessionIds |-> FALSE]
  /\ restarting = [s \in SessionIds |-> FALSE]
  /\ child = [a \in Adapters |-> "none"]
  /\ running = [a \in Adapters |-> FALSE]
  /\ exitCode = [a \in Adapters |-> "unset"]
  /\ call = [t \in Managers |-> NoCall]
  /\ Ledger!Init

-----------------------------------------------------------------------------
(* PtyProcess.                                                             *)

\* Mutant: Start() keeps the exit code of the previous child.
PtyStartKeepsExitCode(a, started) ==
  \/ /\ running[a] /\ ~started
     /\ UNCHANGED ptyVars
  \/ /\ ~running[a] /\ started
     /\ child' = [child EXCEPT ![a] = "alive"]
     /\ running' = [running EXCEPT ![a] = TRUE]
     /\ UNCHANGED exitCode
  \/ /\ ~running[a] /\ ~started
     /\ child' = [child EXCEPT ![a] = "none"]
     /\ UNCHANGED <<running, exitCode>>

\* Start(): a no-op that returns false while running; otherwise it cleans up
\* the previous child, and spawns a new one or fails.
PtyStart(a, started) ==
  \/ /\ running[a] /\ ~started
     /\ UNCHANGED ptyVars
  \/ /\ ~running[a] /\ started
     /\ child' = [child EXCEPT ![a] = "alive"]
     /\ running' = [running EXCEPT ![a] = TRUE]
     /\ exitCode' = [exitCode EXCEPT ![a] = "unset"]
  \/ /\ ~running[a] /\ ~started
     /\ child' = [child EXCEPT ![a] = "none"]
     /\ UNCHANGED <<running, exitCode>>

\* Stop(): the exit code is forced to 0 only if nothing has noticed yet that
\* the child ended.
PtyStop(a) ==
  /\ exitCode' = [exitCode EXCEPT ![a] =
                    IF child[a] # "none" /\ running[a] THEN "exitedZero" ELSE @]
  /\ child' = [child EXCEPT ![a] = "none"]
  /\ running' = [running EXCEPT ![a] = FALSE]

\* Stop() and the destructor: nothing is left of the adapter or its child.
PtyDestroy(a) ==
  /\ child' = [child EXCEPT ![a] = "none"]
  /\ running' = [running EXCEPT ![a] = FALSE]
  /\ exitCode' = [exitCode EXCEPT ![a] = "unset"]

\* The child ends by itself, cleanly or not.
ChildExits(a) ==
  /\ child[a] = "alive"
  /\ \E code \in Exited : child' = [child EXCEPT ![a] = code]
  /\ UNCHANGED <<entryVars, running, exitCode, call, leaseVars>>

\* The reader thread sees the output pipe end, which may be before or after
\* anyone asks the OS for the exit code.
ReaderThreadEnds(a) ==
  /\ running[a] /\ child[a] \in Exited
  /\ running' = [running EXCEPT ![a] = FALSE]
  /\ UNCHANGED <<entryVars, child, exitCode, call, leaseVars>>

-----------------------------------------------------------------------------
(* CreateSession.                                                          *)

\* Adapters that exist: those of the sessions and of the calls under way.
InUse ==
  {adapterOf[s] : s \in SessionIds}
    \cup {call[t].adapter : t \in {u \in Managers : call[u].at \in {"createStart", "createRegister"}}}

\* The first check of the id; the caller hands over a new adapter.
CreateCheck(t, s, a) ==
  /\ Idle(t) /\ ~Registered(s) /\ a \notin InUse
  /\ call' = [call EXCEPT ![t] = [at |-> "createStart", session |-> s, adapter |-> a]]
  /\ UNCHANGED <<entryVars, ptyVars, leaseVars>>

CreateStart(t) ==
  /\ call[t].at = "createStart"
  /\ \E started \in BOOLEAN :
       /\ PtyStart(call[t].adapter, started)
       /\ call' = [call EXCEPT ![t] =
                     [at |-> "createRegister", session |-> call[t].session,
                      adapter |-> call[t].adapter, started |-> started]]
  /\ UNCHANGED <<entryVars, leaseVars>>

\* The re-check under the mutex: a racing CreateSession of the same id won,
\* and this one's adapter is stopped and destroyed, or the session is
\* registered.
CreateRegister(t) ==
  /\ call[t].at = "createRegister"
  /\ LET s == call[t].session
         a == call[t].adapter
     IN  \/ /\ Registered(s)
            /\ PtyDestroy(a)
            /\ UNCHANGED entryVars
         \/ /\ ~Registered(s)
            /\ state' = [state EXCEPT ![s] = IF call[t].started THEN "Running" ELSE "Failed"]
            /\ adapterOf' = [adapterOf EXCEPT ![s] = a]
            /\ UNCHANGED <<stopRequested, restarting, ptyVars>>
  /\ call' = [call EXCEPT ![t] = NoCall]
  /\ UNCHANGED leaseVars

-----------------------------------------------------------------------------
(* Stop, Restart, SetState, PollAll and the lease release after them.      *)

\* Mutant: Stop() releases no leases.
StopKeepsLeases(t, s) ==
  /\ Idle(t) /\ Registered(s) /\ ~restarting[s]
  /\ stopRequested' = [stopRequested EXCEPT ![s] = TRUE]
  /\ PtyStop(adapterOf[s])
  /\ state' = [state EXCEPT ![s] = IF Terminal(@) THEN @ ELSE "Terminated"]
  /\ UNCHANGED <<adapterOf, restarting, call, leaseVars>>

\* adapter->Stop() runs with the mutex held; leases are released after it.
Stop(t, s) ==
  /\ Idle(t) /\ Registered(s) /\ ~restarting[s]
  /\ stopRequested' = [stopRequested EXCEPT ![s] = TRUE]
  /\ PtyStop(adapterOf[s])
  /\ IF Terminal(state[s])
       THEN UNCHANGED <<state, call>>
       ELSE /\ state' = [state EXCEPT ![s] = "Terminated"]
            /\ call' = [call EXCEPT ![t] = [at |-> "release", reclaim |-> {s}]]
  /\ UNCHANGED <<adapterOf, restarting, leaseVars>>

\* A terminal session is marked as restarting, and any earlier Stop() of it
\* is forgotten.
RestartCheck(t, s) ==
  /\ Idle(t) /\ Registered(s) /\ Terminal(state[s])
  /\ SerialRestarts => ~restarting[s]
  /\ stopRequested' = [stopRequested EXCEPT ![s] = FALSE]
  /\ restarting' = [restarting EXCEPT ![s] = TRUE]
  /\ call' = [call EXCEPT ![t] = [at |-> "restartStart", session |-> s]]
  /\ UNCHANGED <<state, adapterOf, ptyVars, leaseVars>>

RestartStart(t) ==
  /\ call[t].at = "restartStart"
  /\ \E started \in BOOLEAN :
       /\ PtyStart(adapterOf[call[t].session], started)
       /\ call' = [call EXCEPT ![t] =
                     [at |-> "restartRecord", session |-> call[t].session,
                      started |-> started]]
  /\ UNCHANGED <<entryVars, leaseVars>>

RestartRecord(t) ==
  /\ call[t].at = "restartRecord"
  /\ LET s == call[t].session
     IN  /\ restarting' = [restarting EXCEPT ![s] = FALSE]
         /\ state' = [state EXCEPT ![s] = IF call[t].started THEN "Running" ELSE "Failed"]
  /\ call' = [call EXCEPT ![t] = NoCall]
  /\ UNCHANGED <<adapterOf, stopRequested, ptyVars, leaseVars>>

\* An adapter reports a state of a session that is not terminal.
SetState(t, s, st) ==
  /\ Idle(t) /\ Registered(s) /\ ~Terminal(state[s])
  /\ state' = [state EXCEPT ![s] = st]
  /\ UNCHANGED <<adapterOf, stopRequested, restarting, ptyVars, call, leaseVars>>

\* One critical section over every session that is not terminal: ask its
\* adapter IsRunning(), which fetches the exit code of a child that ended
\* unless the reader thread had cleared the flag already; then classify.
PollAll(t) ==
  /\ Idle(t)
  /\ LET live     == {s \in SessionIds : Registered(s) /\ ~Terminal(state[s])}
         observed == {s \in live : running[adapterOf[s]] /\ child[adapterOf[s]] \in Exited}
         down     == {s \in live : ~running[adapterOf[s]]} \cup observed
         code(s)  == IF s \in observed THEN child[adapterOf[s]] ELSE exitCode[adapterOf[s]]
         clean(s) == stopRequested[s] \/ code(s) = "exitedZero"
         fetched  == {adapterOf[s] : s \in observed}
     IN  /\ state' = [s \in SessionIds |->
                        IF s \in down THEN IF clean(s) THEN "Terminated" ELSE "Failed"
                                      ELSE state[s]]
         /\ running' = [a \in Adapters |-> running[a] /\ a \notin fetched]
         /\ exitCode' = [a \in Adapters |-> IF a \in fetched THEN child[a] ELSE exitCode[a]]
         /\ call' = IF down = {} THEN call
                      ELSE [call EXCEPT ![t] = [at |-> "release", reclaim |-> down]]
  /\ UNCHANGED <<adapterOf, stopRequested, restarting, child, leaseVars>>

\* Mutant: the ledger is not told.
ReclaimNothing(t, s) ==
  /\ call[t].at = "release" /\ s \in call[t].reclaim
  /\ call' = [call EXCEPT ![t] =
                IF @.reclaim = {s} THEN NoCall
                ELSE [at |-> "release", reclaim |-> @.reclaim \ {s}]]
  /\ UNCHANGED <<entryVars, ptyVars, leaseVars>>

\* resource_lease_ledger_->ReleaseAllForSession(), after the unlock.
Reclaim(t, s) ==
  /\ call[t].at = "release" /\ s \in call[t].reclaim
  /\ Ledger!ReleaseAllForSession(t, s)
  /\ call' = [call EXCEPT ![t] =
                IF @.reclaim = {s} THEN NoCall
                ELSE [at |-> "release", reclaim |-> @.reclaim \ {s}]]
  /\ UNCHANGED <<entryVars, ptyVars>>

-----------------------------------------------------------------------------
\* The CLI of a live session asks for a resource or gives one back.
UseLease(s) ==
  /\ Alive(s)
  /\ \E r \in Resources :
       \/ \E m \in Ledger!Modes :
            \/ Ledger!AcquireGranted(Client, r, s, m)
            \/ Ledger!AcquireQueued(Client, r, s, m)
       \/ Ledger!Release(Client, r, s)
  /\ UNCHANGED <<entryVars, ptyVars, call>>

\* A promotion made by any of the threads is announced.
Announce(c) == Ledger!Announce(c) /\ UNCHANGED <<entryVars, ptyVars, call>>

CallProceeds(t) ==
  \/ CreateStart(t) \/ CreateRegister(t)
  \/ RestartStart(t) \/ RestartRecord(t)
  \/ \E s \in SessionIds : Reclaim(t, s)
  \/ Announce(t)

Next ==
  \/ \E t \in Users, s \in SessionIds :
       \/ \E a \in Adapters : CreateCheck(t, s, a)
       \/ Stop(t, s)
       \/ RestartCheck(t, s)
       \/ SetState(t, s, "WaitingForInput")
  \/ \E t \in Pollers : PollAll(t)
  \/ \E t \in Managers : CallProceeds(t)
  \/ \E s \in SessionIds : UseLease(s)
  \/ Announce(Client)
  \/ \E a \in Adapters : ChildExits(a) \/ ReaderThreadEnds(a)

Spec == Init /\ [][Next]_vars

\* Calls return, and PollAll is called again and again (a frame loop does).
Fairness ==
  /\ \A t \in Managers : WF_vars(CallProceeds(t))
  /\ \A t \in Pollers : WF_vars(PollAll(t))
  /\ WF_vars(Announce(Client))

FairSpec == Spec /\ Fairness

-----------------------------------------------------------------------------
CallType ==
  {NoCall}
    \cup [at : {"createStart"}, session : SessionIds, adapter : Adapters]
    \cup [at : {"createRegister"}, session : SessionIds, adapter : Adapters,
          started : BOOLEAN]
    \cup [at : {"restartStart"}, session : SessionIds]
    \cup [at : {"restartRecord"}, session : SessionIds, started : BOOLEAN]
    \cup [at : {"release"}, reclaim : (SUBSET SessionIds) \ {{}}]

TypeOK ==
  /\ state \in [SessionIds -> SessionStates \cup {"Unregistered"}]
  /\ adapterOf \in [SessionIds -> Adapters \cup {NoAdapter}]
  /\ stopRequested \in [SessionIds -> BOOLEAN]
  /\ restarting \in [SessionIds -> BOOLEAN]
  /\ child \in [Adapters -> {"none", "alive"} \cup Exited]
  /\ running \in [Adapters -> BOOLEAN]
  /\ exitCode \in [Adapters -> {"unset"} \cup Exited]
  /\ call \in [Managers -> CallType]
  /\ Ledger!TypeOK

\* The thread is in Restart(s), outside the mutex.
InRestart(t, s) ==
  call[t].at \in {"restartStart", "restartRecord"} /\ call[t].session = s

\* The thread is between the start and the end of adapter->Start() on s.
InStart(t, s) == call[t].at = "restartStart" /\ call[t].session = s

\* A session that is recorded as terminal has no live process, except while
\* a Restart of it is under way.
TerminalMeansDead ==
  \A s \in SessionIds :
    Terminal(state[s]) /\ (\A t \in Managers : ~InRestart(t, s)) => ~Alive(s)

\* An old Stop() does not mask a later crash: stop_requested is down whenever
\* the session is (again) not terminal.
CrashNotMasked ==
  \A s \in SessionIds : Registered(s) /\ ~Terminal(state[s]) => ~stopRequested[s]

\* adapter->Stop() never runs while a Restart() is inside adapter->Start().
StopNeverDuringStart ==
  [][\A t \in Users, s \in SessionIds :
       Stop(t, s) => \A u \in Users : ~InStart(u, s)]_vars

\* A session that PollAll records as Terminated did end with exit code 0.
CrashNeverClean ==
  [][\A s \in SessionIds :
       Registered(s) /\ ~Terminal(state[s]) /\ state'[s] = "Terminated" /\ ~stopRequested'[s]
         => child[adapterOf[s]] = "exitedZero"]_vars

\* A session that PollAll records as Failed did not end with exit code 0.
CleanExitIsTerminated ==
  [][\A s \in SessionIds :
       Registered(s) /\ ~Terminal(state[s]) /\ state'[s] = "Failed"
         => child[adapterOf[s]] # "exitedZero"]_vars

\* Once the threads that ended sessions have finished, a terminal session
\* neither holds nor waits for any resource.
NoLeakedLease ==
  \A s \in SessionIds :
    Terminal(state[s]) /\ ~restarting[s] /\ (\A t \in Managers : call[t].at # "release")
      => \A r \in Resources : ~Ledger!Holds(r, s) /\ ~Ledger!Waits(r, s)

\* Well typed, and what a session's state says of it is true: of its process, of a stop that was
\* asked for, and of what it holds.
SessionsAreTrue == TypeOK /\ TerminalMeansDead /\ CrashNotMasked /\ NoLeakedLease

\* Leases are reclaimed from sessions whose process is dead, never from one
\* that is alive.
ReclaimOnlyDead ==
  [][\A t \in Managers, s \in SessionIds : Reclaim(t, s) => ~Alive(s)]_vars

\* A lease held by a session whose process died is given back, unless the
\* session is restarted meanwhile.
CrashedLeaseReclaimed ==
  \A s \in SessionIds, r \in Resources :
    (Ledger!Holds(r, s) /\ ~Alive(s)) ~> (~Ledger!Holds(r, s) \/ Alive(s))

=============================================================================
