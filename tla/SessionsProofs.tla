--------------------------- MODULE SessionsProofs ---------------------------
(***************************************************************************)
(* What SessionManager records of its sessions is true, for any sets of    *)
(* sessions, adapters, resources and threads, as long as no two threads    *)
(* restart one session at the same time (SerialRestarts).                  *)
(***************************************************************************)
EXTENDS Sessions, TLAPS

Lease == INSTANCE ResourceLeasesProofs
           WITH Sessions <- SessionIds, Callers <- Managers \cup {Client}

-----------------------------------------------------------------------------
(* The inductive invariant.                                                *)

\* The thread is in CreateSession, with its adapter.
Creating(t) == call[t].at \in {"createStart", "createRegister"}

\* No adapter is shared, and one that nobody has runs nothing.
AdaptersApart ==
  /\ \A s \in SessionIds : Registered(s) <=> adapterOf[s] \in Adapters
  /\ \A s, u \in SessionIds :
       Registered(s) /\ Registered(u) /\ adapterOf[s] = adapterOf[u] => s = u
  /\ \A t \in Managers, s \in SessionIds :
       Creating(t) /\ Registered(s) => call[t].adapter # adapterOf[s]
  /\ \A t, u \in Managers :
       Creating(t) /\ Creating(u) /\ call[t].adapter = call[u].adapter => t = u
  /\ \A a \in Adapters \ InUse : ~running[a]

\* The running flag is up from the spawn until someone has seen the end.
FlagsTrue ==
  \A a \in Adapters : /\ running[a] => child[a] # "none"
                      /\ child[a] = "alive" => running[a]

\* What Start() is about to find or has just left, whoever called it.
Startable(a) == ~running[a]
Reported(a, started) == IF started THEN exitCode[a] = "unset" ELSE ~running[a]

CreatesTrue ==
  \A t \in Managers :
    /\ call[t].at = "createStart" => Startable(call[t].adapter)
    /\ call[t].at = "createRegister" => Reported(call[t].adapter, call[t].started)

\* A session that is restarted is terminal, has one restarter, and Stop()
\* leaves it alone.
RestartsTrue ==
  /\ \A s \in SessionIds : restarting[s] <=> \E t \in Managers : InRestart(t, s)
  /\ \A t, u \in Managers, s \in SessionIds : InRestart(t, s) /\ InRestart(u, s) => t = u
  /\ \A t \in Managers, s \in SessionIds : InRestart(t, s) =>
       /\ Terminal(state[s]) /\ ~stopRequested[s]
       /\ call[t].at = "restartStart" => Startable(adapterOf[s])
       /\ call[t].at = "restartRecord" => Reported(adapterOf[s], call[t].started)

\* A session that is not terminal has no exit code yet and was not stopped;
\* one that is terminal, and is not being restarted, runs nothing.
EntriesTrue ==
  \A s \in SessionIds :
    /\ ~Terminal(state[s]) => ~stopRequested[s]
    /\ Registered(s) /\ ~Terminal(state[s]) => exitCode[adapterOf[s]] = "unset"
    /\ Terminal(state[s]) /\ ~restarting[s] => ~running[adapterOf[s]]

\* A session with a lease or a request is live, or about to be recorded as
\* live, or the thread that ended it is about to reclaim them.
LeasesExpected(s) ==
  \/ Registered(s) /\ ~Terminal(state[s])
  \/ \E t \in Managers : call[t].at = "release" /\ s \in call[t].reclaim
  \/ \E t \in Managers : InRestart(t, s) /\ call[t].at = "restartRecord" /\ call[t].started

LeasesTrue == \A s \in SessionIds : Lease!Tracking(s) # {} => LeasesExpected(s)

EntryInv ==
  /\ TypeOK
  /\ AdaptersApart
  /\ FlagsTrue
  /\ CreatesTrue
  /\ RestartsTrue
  /\ EntriesTrue

Inv == EntryInv /\ Lease!Inv /\ LeasesTrue

-----------------------------------------------------------------------------
(* A thread's place in its call, and what it carries there.                *)

\* What a thread carries from one critical section to the next.
LEMMA CallFields ==
  ASSUME TypeOK, NEW t \in Managers
  PROVE  /\ call[t].at \in {"idle", "createStart", "createRegister",
                            "restartStart", "restartRecord", "release"}
         /\ call[t].at = "idle" => call[t] = NoCall
         /\ Creating(t) => call[t].session \in SessionIds /\ call[t].adapter \in Adapters
         /\ call[t].at \in {"restartStart", "restartRecord"} => call[t].session \in SessionIds
         /\ call[t].at \in {"createRegister", "restartRecord"} => call[t].started \in BOOLEAN
         /\ call[t].at = "release" =>
              call[t].reclaim \in SUBSET SessionIds /\ call[t].reclaim # {}
<1>1. call[t] \in CallType
  BY DEF TypeOK
<1>2. CASE call[t] = NoCall
  BY <1>2 DEF NoCall, Creating
<1>3. CASE call[t] \in [at : {"createStart"}, session : SessionIds, adapter : Adapters]
  BY <1>3 DEF Creating
<1>4. CASE call[t] \in [at : {"createRegister"}, session : SessionIds, adapter : Adapters,
                        started : BOOLEAN]
  BY <1>4 DEF Creating
<1>5. CASE call[t] \in [at : {"restartStart"}, session : SessionIds]
  BY <1>5 DEF Creating
<1>6. CASE call[t] \in [at : {"restartRecord"}, session : SessionIds, started : BOOLEAN]
  BY <1>6 DEF Creating
<1>7. CASE call[t] \in [at : {"release"}, reclaim : (SUBSET SessionIds) \ {{}}]
  BY <1>7 DEF Creating
<1>8. QED
  BY <1>1, <1>2, <1>3, <1>4, <1>5, <1>6, <1>7 DEF CallType

\* No session is registered at first.
LEMMA InitEntry == Init => EntryInv
<1> SUFFICES ASSUME Init PROVE EntryInv
  OBVIOUS
<1>1. TypeOK
  <2>1. Ledger!TypeOK
    BY DEF Init, Ledger!Init, Ledger!TypeOK
  <2>2. QED
    BY <2>1 DEF Init, TypeOK, CallType, SessionStates
<1>2. \A t \in Managers : call[t].at = "idle"
  BY DEF Init, NoCall
<1>3. QED
  BY <1>1, <1>2, NoAdapterIsNone DEF Init, EntryInv, AdaptersApart, FlagsTrue, CreatesTrue,
     RestartsTrue, EntriesTrue, Registered, Terminal, InUse, InRestart, Creating

\* CreateSession takes an adapter that nobody has.
LEMMA CreateCheckEntry ==
  ASSUME EntryInv, NEW t \in Users, NEW s \in SessionIds, NEW a \in Adapters,
         CreateCheck(t, s, a)
  PROVE  EntryInv'
<1> USE DEF EntryInv
<1>1. /\ call' = [call EXCEPT ![t] = [at |-> "createStart", session |-> s, adapter |-> a]]
      /\ UNCHANGED <<entryVars, ptyVars, leaseVars>>
      /\ a \notin InUse /\ t \in Managers /\ call[t] = NoCall
  BY DEF CreateCheck, Idle, Managers
<1>2. TypeOK'
  BY <1>1 DEF TypeOK, CallType, entryVars, ptyVars, leaseVars, Ledger!TypeOK
<1>3. AdaptersApart'
  BY <1>1 DEF AdaptersApart, Creating, InUse, Registered, entryVars, ptyVars, NoCall, TypeOK
<1>4. FlagsTrue' /\ EntriesTrue'
  BY <1>1 DEF FlagsTrue, EntriesTrue, Registered, Terminal, entryVars, ptyVars
<1>5. CreatesTrue'
  BY <1>1 DEF CreatesTrue, AdaptersApart, Startable, Reported, entryVars, ptyVars, TypeOK
<1>6. RestartsTrue'
  BY <1>1 DEF RestartsTrue, InRestart, Startable, Reported, Terminal, entryVars, ptyVars,
              NoCall, TypeOK
<1>7. QED
  BY <1>2, <1>3, <1>4, <1>5, <1>6

\* It starts it outside the mutex, before anybody else can see it.
LEMMA CreateStartEntry ==
  ASSUME EntryInv, NEW t \in Managers, CreateStart(t)
  PROVE  EntryInv'
<1> USE DEF EntryInv
<1> DEFINE a == call[t].adapter
           s == call[t].session
<1>1. PICK started \in BOOLEAN :
        /\ PtyStart(a, started)
        /\ call' = [call EXCEPT ![t] = [at |-> "createRegister", session |-> s,
                                       adapter |-> a, started |-> started]]
  BY DEF CreateStart
<1>2. /\ UNCHANGED <<entryVars, leaseVars>>
      /\ call[t].at = "createStart" /\ Creating(t) /\ ~running[a]
      /\ a \in Adapters /\ s \in SessionIds
  BY CallFields DEF CreateStart, Creating, CreatesTrue, Startable
<1> HIDE DEF a, s
<1>3. /\ \A b \in Adapters \ {a} : /\ child'[b] = child[b] /\ running'[b] = running[b]
                                 /\ exitCode'[b] = exitCode[b]
      /\ IF started THEN child'[a] = "alive" /\ running'[a] /\ exitCode'[a] = "unset"
                    ELSE child'[a] = "none" /\ ~running'[a]
      /\ child' \in [Adapters -> {"none", "alive"} \cup Exited]
      /\ running' \in [Adapters -> BOOLEAN]
      /\ exitCode' \in [Adapters -> {"unset"} \cup Exited]
  BY <1>1, <1>2 DEF PtyStart, ptyVars, TypeOK
<1>4. TypeOK'
  BY <1>1, <1>2, <1>3 DEF TypeOK, CallType, entryVars, leaseVars, Ledger!TypeOK
<1>5. InUse' = InUse /\ a \in InUse
  BY <1>1, <1>2 DEF InUse, TypeOK, entryVars, a
<1>6. AdaptersApart'
  BY <1>1, <1>2, <1>3, <1>5 DEF AdaptersApart, Creating, Registered, entryVars, TypeOK, a
<1>7. FlagsTrue'
  BY <1>3 DEF FlagsTrue
<1>8. \A u \in SessionIds : Registered(u) => adapterOf[u] \in Adapters \ {a}
  BY <1>2 DEF AdaptersApart, a
<1>9. EntriesTrue'
  BY <1>2, <1>3, <1>8 DEF EntriesTrue, Registered, Terminal, entryVars
<1>10. CreatesTrue'
  BY <1>1, <1>2, <1>3, CallFields DEF CreatesTrue, AdaptersApart, Creating, Startable, Reported,
     TypeOK, a
<1>11. RestartsTrue'
  BY <1>1, <1>2, <1>3, <1>8 DEF RestartsTrue, InRestart, Startable, Reported, Terminal,
     Registered, entryVars, TypeOK
<1>12. QED
  BY <1>4, <1>6, <1>7, <1>9, <1>10, <1>11

\* It registers the session, or leaves the adapter to nobody.
LEMMA CreateRegisterEntry ==
  ASSUME EntryInv, NEW t \in Managers, CreateRegister(t)
  PROVE  EntryInv'
<1> USE DEF EntryInv
<1> DEFINE a == call[t].adapter
           s == call[t].session
<1>1. /\ \/ Registered(s) /\ PtyDestroy(a) /\ UNCHANGED entryVars
         \/ /\ ~Registered(s)
            /\ state' = [state EXCEPT ![s] = IF call[t].started THEN "Running" ELSE "Failed"]
            /\ adapterOf' = [adapterOf EXCEPT ![s] = a]
            /\ UNCHANGED <<stopRequested, restarting, ptyVars>>
      /\ call' = [call EXCEPT ![t] = NoCall]
      /\ UNCHANGED leaseVars
  BY DEF CreateRegister
<1>2. /\ call[t].at = "createRegister" /\ Creating(t) /\ Reported(a, call[t].started)
      /\ a \in Adapters /\ s \in SessionIds /\ call[t].started \in BOOLEAN
  BY CallFields DEF CreateRegister, Creating, CreatesTrue
<1>3. \A u \in SessionIds : Registered(u) => adapterOf[u] \in Adapters \ {a}
  BY <1>2 DEF AdaptersApart
<1> HIDE DEF a, s
<1>4. /\ call'[t].at = "idle"
      /\ \A u \in Managers \ {t} : call'[u] = call[u]
      /\ call' \in [Managers -> CallType]
  BY <1>1 DEF TypeOK, NoCall, CallType
<1>5. CASE Registered(s) /\ PtyDestroy(a) /\ UNCHANGED entryVars
  <2>1. /\ \A b \in Adapters \ {a} : /\ child'[b] = child[b] /\ running'[b] = running[b]
                                   /\ exitCode'[b] = exitCode[b]
        /\ child'[a] = "none" /\ ~running'[a] /\ exitCode'[a] = "unset"
        /\ child' \in [Adapters -> {"none", "alive"} \cup Exited]
        /\ running' \in [Adapters -> BOOLEAN]
        /\ exitCode' \in [Adapters -> {"unset"} \cup Exited]
    BY <1>2, <1>5 DEF PtyDestroy, TypeOK
  <2>2. TypeOK'
    BY <1>1, <1>4, <1>5, <2>1 DEF TypeOK, entryVars, leaseVars, Ledger!TypeOK
  <2>3. AdaptersApart'
    <3>1. InUse \ {a} \subseteq InUse'
      BY <1>4, <1>5 DEF InUse, entryVars, a
    <3>2. QED
      BY <1>4, <1>5, <2>1, <3>1 DEF AdaptersApart, Creating, Registered, entryVars
  <2>4. FlagsTrue'
    BY <2>1 DEF FlagsTrue
  <2>5. EntriesTrue'
    BY <1>3, <1>5, <2>1 DEF EntriesTrue, Registered, Terminal, entryVars
  <2>6. CreatesTrue'
    BY <1>2, <1>4, <2>1, CallFields DEF CreatesTrue, AdaptersApart, Creating, Startable,
       Reported, a
  <2>7. RestartsTrue'
    BY <1>2, <1>3, <1>4, <1>5, <2>1 DEF RestartsTrue, InRestart, Startable, Reported, Terminal,
       Registered, entryVars
  <2>8. QED
    BY <2>2, <2>3, <2>4, <2>5, <2>6, <2>7
<1>6. CASE /\ ~Registered(s)
           /\ state' = [state EXCEPT ![s] = IF call[t].started THEN "Running" ELSE "Failed"]
           /\ adapterOf' = [adapterOf EXCEPT ![s] = a]
           /\ UNCHANGED <<stopRequested, restarting, ptyVars>>
  <2>1. /\ \A u \in SessionIds \ {s} : state'[u] = state[u] /\ adapterOf'[u] = adapterOf[u]
        /\ state'[s] = (IF call[t].started THEN "Running" ELSE "Failed") /\ adapterOf'[s] = a
        /\ child' = child /\ running' = running /\ exitCode' = exitCode
        /\ stopRequested' = stopRequested /\ restarting' = restarting
    BY <1>2, <1>6 DEF TypeOK, ptyVars
  <2>a. \A u \in SessionIds : Registered(u)' <=> Registered(u) \/ u = s
    BY <2>1 DEF Registered
  <2>2. TypeOK'
    BY <1>1, <1>2, <1>4, <1>6, <2>1 DEF TypeOK, SessionStates, leaseVars, Ledger!TypeOK
  <2>3. AdaptersApart'
    <3>1. InUse \subseteq InUse' \cup {NoAdapter}
      <4>1. adapterOf[s] = NoAdapter
        BY <1>2, <1>6 DEF AdaptersApart, TypeOK
      <4>2. ASSUME NEW u \in SessionIds PROVE adapterOf[u] \in InUse' \cup {NoAdapter}
        BY <2>1, <4>1 DEF InUse
      <4>3. ASSUME NEW u \in Managers, Creating(u) PROVE call[u].adapter \in InUse'
        <5>1. CASE u = t
          BY <1>2, <2>1, <5>1 DEF InUse, a
        <5>2. CASE u # t
          BY <1>4, <4>3, <5>2 DEF InUse, Creating
        <5>3. QED
          BY <5>1, <5>2
      <4>4. QED
        BY <4>2, <4>3 DEF InUse, Creating
    <3>2. QED
      BY <1>2, <1>3, <1>4, <2>1, <2>a, <3>1, NoAdapterIsNone DEF AdaptersApart, Creating, a
  <2>4. FlagsTrue'
    BY <2>1 DEF FlagsTrue
  <2>5. ~Terminal(state[s]) /\ ~stopRequested[s] /\ ~restarting[s]
    BY <1>2, <1>6 DEF EntriesTrue, RestartsTrue, Registered, Terminal
  <2>6. EntriesTrue'
    BY <1>2, <2>1, <2>a, <2>5 DEF EntriesTrue, Reported, Terminal
  <2>7. CreatesTrue'
    BY <1>4, <2>1 DEF CreatesTrue, Startable, Reported
  <2>8. RestartsTrue'
    BY <1>2, <1>4, <2>1, <2>5 DEF RestartsTrue, InRestart, Startable, Reported, Terminal
  <2>9. QED
    BY <2>2, <2>3, <2>4, <2>6, <2>7, <2>8
<1>7. QED
  BY <1>1, <1>5, <1>6

\* Stop leaves no process behind and records that it was asked for.
LEMMA StopEntry ==
  ASSUME EntryInv, NEW t \in Users, NEW s \in SessionIds, Stop(t, s)
  PROVE  EntryInv'
<1> USE DEF EntryInv
<1> DEFINE a == adapterOf[s]
<1>1. /\ stopRequested' = [stopRequested EXCEPT ![s] = TRUE]
      /\ PtyStop(a)
      /\ UNCHANGED <<adapterOf, restarting, leaseVars>>
      /\ Registered(s) /\ ~restarting[s] /\ t \in Managers /\ call[t].at = "idle"
  BY DEF Stop, Idle, Managers, NoCall
<1>2. /\ \A u \in SessionIds \ {s} : state'[u] = state[u]
      /\ Terminal(state'[s])
      /\ state' \in [SessionIds -> SessionStates \cup {"Unregistered"}]
      /\ \A u \in SessionIds : Registered(u)' <=> Registered(u)
  BY <1>1 DEF Stop, Terminal, SessionStates, TypeOK, Registered
<1>3. /\ call' \in [Managers -> CallType]
      /\ \A u \in Managers \ {t} : call'[u] = call[u]
      /\ call'[t].at \in {"idle", "release"}
  <2>1. CASE Terminal(state[s])
    BY <1>1, <2>1 DEF Stop, TypeOK
  <2>2. CASE ~Terminal(state[s])
    <3>1. call' = [call EXCEPT ![t] = [at |-> "release", reclaim |-> {s}]]
      BY <2>2 DEF Stop
    <3>2. [at |-> "release", reclaim |-> {s}] \in CallType
      BY DEF CallType
    <3>3. QED
      BY <1>1, <3>1, <3>2 DEF TypeOK
  <2>3. QED
    BY <2>1, <2>2
<1>4. a \in Adapters /\ \A u \in SessionIds \ {s} : Registered(u) => adapterOf[u] # a
  BY <1>1 DEF AdaptersApart
<1> HIDE DEF a
<1>5. /\ \A b \in Adapters \ {a} : /\ child'[b] = child[b] /\ running'[b] = running[b]
                                 /\ exitCode'[b] = exitCode[b]
      /\ child'[a] = "none" /\ ~running'[a]
      /\ child' \in [Adapters -> {"none", "alive"} \cup Exited]
      /\ running' \in [Adapters -> BOOLEAN]
      /\ exitCode' \in [Adapters -> {"unset"} \cup Exited]
  BY <1>1, <1>4 DEF PtyStop, TypeOK, Exited
<1>6. TypeOK'
  BY <1>1, <1>2, <1>3, <1>5 DEF TypeOK, leaseVars, Ledger!TypeOK
<1>7. AdaptersApart'
  <2>1. InUse' = InUse
    BY <1>1, <1>3 DEF InUse
  <2>2. QED
    BY <1>1, <1>2, <1>3, <1>5, <2>1 DEF AdaptersApart, Creating
<1>8. FlagsTrue'
  BY <1>5 DEF FlagsTrue
<1>9. EntriesTrue'
  <2>1. ASSUME NEW u \in SessionIds \ {s}, Registered(u)
        PROVE  /\ running'[adapterOf'[u]] = running[adapterOf[u]]
               /\ exitCode'[adapterOf'[u]] = exitCode[adapterOf[u]]
    BY <1>1, <1>4, <1>5, <2>1 DEF AdaptersApart
  <2>2. ~running'[adapterOf'[s]] /\ adapterOf' = adapterOf /\ restarting' = restarting
    BY <1>1, <1>5 DEF a
  <2>3. \A u \in SessionIds \ {s} : stopRequested'[u] = stopRequested[u]
    BY <1>1 DEF TypeOK
  <2>4. \A u \in SessionIds : Terminal(state[u]) => Registered(u)
    BY DEF Terminal, Registered
  <2>5. QED
    BY <1>2, <2>1, <2>2, <2>3, <2>4 DEF EntriesTrue
<1>10. CreatesTrue'
  BY <1>1, <1>3, <1>5, CallFields DEF CreatesTrue, AdaptersApart, Creating, Startable, Reported, a
<1>11. RestartsTrue'
  <2>1. \A u \in Managers, v \in SessionIds :
          /\ InRestart(u, v)' <=> InRestart(u, v)
          /\ InRestart(u, v) => v # s /\ call'[u] = call[u]
    BY <1>1, <1>3 DEF RestartsTrue, InRestart
  <2>2. ASSUME NEW u \in Managers, NEW v \in SessionIds, InRestart(u, v)
        PROVE  /\ running'[adapterOf'[v]] = running[adapterOf[v]]
               /\ exitCode'[adapterOf'[v]] = exitCode[adapterOf[v]]
               /\ state'[v] = state[v] /\ stopRequested'[v] = stopRequested[v]
    <3>1. v # s
      BY <2>1, <2>2
    <3>2. Terminal(state[v])
      BY <2>2 DEF RestartsTrue
    <3>3. adapterOf[v] \in Adapters \ {a}
      BY <1>4, <3>1, <3>2 DEF AdaptersApart, Registered, Terminal
    <3>4. stopRequested'[v] = stopRequested[v]
      BY <1>1, <3>1 DEF TypeOK
    <3>5. QED
      BY <1>1, <1>2, <1>5, <3>1, <3>3, <3>4
  <2>3. ASSUME NEW u \in Managers, NEW v \in SessionIds, InRestart(u, v)'
        PROVE  /\ Terminal(state'[v]) /\ ~stopRequested'[v]
               /\ call'[u].at = "restartStart" => Startable(adapterOf[v])'
               /\ call'[u].at = "restartRecord" => Reported(adapterOf[v], call[u].started)'
    BY <2>1, <2>2, <2>3 DEF RestartsTrue, Startable, Reported
  <2>4. QED
    BY <1>1, <2>1, <2>3 DEF RestartsTrue, Terminal
<1>12. QED
  BY <1>6, <1>7, <1>8, <1>9, <1>10, <1>11

\* A restart begins on a terminal session, whose process is gone.
LEMMA RestartCheckEntry ==
  ASSUME SerialRestarts, EntryInv, NEW t \in Users, NEW s \in SessionIds, RestartCheck(t, s)
  PROVE  EntryInv'
<1> USE DEF EntryInv
<1>1. /\ Registered(s) /\ Terminal(state[s]) /\ ~restarting[s]
      /\ stopRequested' = [stopRequested EXCEPT ![s] = FALSE]
      /\ restarting' = [restarting EXCEPT ![s] = TRUE]
      /\ call' = [call EXCEPT ![t] = [at |-> "restartStart", session |-> s]]
      /\ UNCHANGED <<state, adapterOf, ptyVars, leaseVars>>
      /\ t \in Managers /\ call[t].at = "idle"
  BY DEF RestartCheck, Idle, Managers, NoCall
<1>2. TypeOK'
  BY <1>1 DEF TypeOK, CallType, ptyVars, leaseVars, Ledger!TypeOK
<1>3. /\ \A u \in Managers \ {t} : call'[u] = call[u]
      /\ call'[t].at = "restartStart" /\ call'[t].session = s
  BY <1>1 DEF TypeOK
<1>4. AdaptersApart'
  <2>1. InUse' = InUse
    BY <1>1, <1>3 DEF InUse
  <2>2. QED
    BY <1>1, <1>3, <2>1 DEF AdaptersApart, Creating, Registered, ptyVars
<1>5. FlagsTrue'
  BY <1>1 DEF FlagsTrue, ptyVars
<1>6. EntriesTrue'
  BY <1>1 DEF EntriesTrue, Registered, Terminal, ptyVars, TypeOK
<1>7. CreatesTrue'
  BY <1>1, <1>3 DEF CreatesTrue, Startable, Reported, ptyVars
<1>8. RestartsTrue'
  <2>1. /\ restarting'[s] /\ ~stopRequested'[s]
        /\ \A u \in SessionIds \ {s} : /\ restarting'[u] = restarting[u]
                                     /\ stopRequested'[u] = stopRequested[u]
        /\ ~running[adapterOf[s]]
    BY <1>1 DEF TypeOK, EntriesTrue
  <2>2. \A u \in Managers : ~InRestart(u, s)
    BY <1>1 DEF RestartsTrue
  <2>3. \A u \in Managers, v \in SessionIds :
          InRestart(u, v)' <=> IF u = t THEN v = s ELSE InRestart(u, v)
    BY <1>1, <1>3 DEF InRestart
  <2>4. QED
    BY <1>1, <1>3, <2>1, <2>2, <2>3 DEF RestartsTrue, InRestart, Startable, Reported, Terminal,
       ptyVars
<1>9. QED
  BY <1>2, <1>4, <1>5, <1>6, <1>7, <1>8

\* While it starts the process, nobody else starts or stops it.
LEMMA RestartStartEntry ==
  ASSUME EntryInv, NEW t \in Managers, RestartStart(t)
  PROVE  EntryInv'
<1> USE DEF EntryInv
<1> DEFINE s == call[t].session
           a == adapterOf[s]
<1>1. PICK started \in BOOLEAN :
        /\ PtyStart(a, started)
        /\ call' = [call EXCEPT ![t] = [at |-> "restartRecord", session |-> s,
                                       started |-> started]]
  BY DEF RestartStart
<1>2. /\ UNCHANGED <<entryVars, leaseVars>>
      /\ call[t].at = "restartStart" /\ InRestart(t, s) /\ s \in SessionIds
      /\ Terminal(state[s]) /\ Registered(s) /\ ~running[a] /\ restarting[s]
  BY CallFields DEF RestartStart, RestartsTrue, InRestart, Startable, Terminal, Registered
<1>3. a \in Adapters /\ \A u \in SessionIds \ {s} : Registered(u) => adapterOf[u] # a
  BY <1>2 DEF AdaptersApart
<1> HIDE DEF a, s
<1>4. /\ \A b \in Adapters \ {a} : /\ child'[b] = child[b] /\ running'[b] = running[b]
                                 /\ exitCode'[b] = exitCode[b]
      /\ IF started THEN child'[a] = "alive" /\ running'[a] /\ exitCode'[a] = "unset"
                    ELSE child'[a] = "none" /\ ~running'[a]
      /\ child' \in [Adapters -> {"none", "alive"} \cup Exited]
      /\ running' \in [Adapters -> BOOLEAN]
      /\ exitCode' \in [Adapters -> {"unset"} \cup Exited]
  BY <1>1, <1>2, <1>3 DEF PtyStart, ptyVars, TypeOK
<1>5. /\ \A u \in Managers \ {t} : call'[u] = call[u]
      /\ call'[t].at = "restartRecord" /\ call'[t].session = s /\ call'[t].started = started
  BY <1>1 DEF TypeOK
<1>6. TypeOK'
  BY <1>1, <1>2, <1>4 DEF TypeOK, CallType, entryVars, leaseVars, Ledger!TypeOK
<1>7. AdaptersApart'
  <2>1. InUse' = InUse /\ a \in InUse
    BY <1>2, <1>5 DEF InUse, entryVars, a
  <2>2. QED
    BY <1>2, <1>4, <1>5, <2>1 DEF AdaptersApart, Creating, Registered, entryVars
<1>8. FlagsTrue'
  BY <1>4 DEF FlagsTrue
<1>9. EntriesTrue'
  <2>1. ASSUME NEW u \in SessionIds \ {s}, Registered(u)
        PROVE  /\ running'[adapterOf'[u]] = running[adapterOf[u]]
               /\ exitCode'[adapterOf'[u]] = exitCode[adapterOf[u]]
    BY <1>2, <1>3, <1>4, <2>1 DEF AdaptersApart, entryVars
  <2>2. \A u \in SessionIds : Terminal(state[u]) => Registered(u)
    BY DEF Terminal, Registered
  <2>3. QED
    BY <1>2, <2>1, <2>2 DEF EntriesTrue, Registered, entryVars
<1>10. CreatesTrue'
  BY <1>2, <1>4, <1>5, CallFields DEF CreatesTrue, AdaptersApart, Creating, Startable, Reported, a
<1>11. RestartsTrue'
  <2>1. \A u \in Managers, v \in SessionIds : InRestart(u, v)' <=> InRestart(u, v)
    BY <1>2, <1>5 DEF InRestart, s
  <2>2. \A u \in Managers, v \in SessionIds : InRestart(u, v) => u = t \/ v # s
    BY <1>2 DEF RestartsTrue
  <2>3. ASSUME NEW u \in Managers, NEW v \in SessionIds, InRestart(u, v)'
        PROVE  /\ Terminal(state'[v]) /\ ~stopRequested'[v]
               /\ call'[u].at = "restartStart" => Startable(adapterOf[v])'
               /\ call'[u].at = "restartRecord" => Reported(adapterOf[v], call[u].started)'
    <3>1. CASE u = t
      <4>1. v = s
        BY <1>5, <2>3, <3>1 DEF InRestart
      <4>2. QED
        BY <1>2, <1>4, <1>5, <2>1, <2>3, <3>1, <4>1
           DEF RestartsTrue, Reported, entryVars, a
    <3>2. CASE u # t
      <4>1. v # s /\ InRestart(u, v)
        BY <2>1, <2>2, <2>3, <3>2
      <4>2. Terminal(state[v]) /\ ~stopRequested[v] /\ adapterOf[v] \in Adapters \ {a}
        BY <1>3, <4>1 DEF RestartsTrue, AdaptersApart, Registered, Terminal
      <4>3. QED
        BY <1>2, <1>4, <1>5, <3>2, <4>1, <4>2 DEF RestartsTrue, Startable, Reported, entryVars
    <3>3. QED
      BY <3>1, <3>2
  <2>4. QED
    BY <1>2, <2>1, <2>3 DEF RestartsTrue, entryVars, Terminal
<1>12. QED
  BY <1>6, <1>7, <1>8, <1>9, <1>10, <1>11

\* It records what became of the start.
LEMMA RestartRecordEntry ==
  ASSUME EntryInv, NEW t \in Managers, RestartRecord(t)
  PROVE  EntryInv'
<1> USE DEF EntryInv
<1> DEFINE s == call[t].session
           st == IF call[t].started THEN "Running" ELSE "Failed"
<1>1. /\ restarting' = [restarting EXCEPT ![s] = FALSE]
      /\ state' = [state EXCEPT ![s] = st]
      /\ call' = [call EXCEPT ![t] = NoCall]
      /\ UNCHANGED <<adapterOf, stopRequested, ptyVars, leaseVars>>
      /\ call[t].at = "restartRecord"
  BY DEF RestartRecord
<1>2. /\ s \in SessionIds /\ InRestart(t, s) /\ call[t].started \in BOOLEAN
      /\ Terminal(state[s]) /\ ~stopRequested[s] /\ Reported(adapterOf[s], call[t].started)
      /\ \A u \in Managers : InRestart(u, s) => u = t
  BY <1>1, CallFields DEF InRestart, RestartsTrue
<1>3. /\ st \in {"Running", "Failed"}
      /\ st = "Running" => exitCode[adapterOf[s]] = "unset"
      /\ st = "Failed" => ~running[adapterOf[s]]
  BY <1>2 DEF Reported
<1> HIDE DEF s, st
<1>4. /\ \A u \in Managers \ {t} : call'[u] = call[u]
      /\ call'[t].at = "idle" /\ call' \in [Managers -> CallType]
  BY <1>1 DEF TypeOK, NoCall, CallType
<1>5. /\ \A u \in SessionIds \ {s} : state'[u] = state[u] /\ restarting'[u] = restarting[u]
      /\ state'[s] = st /\ ~restarting'[s]
      /\ child' = child /\ running' = running /\ exitCode' = exitCode
      /\ adapterOf' = adapterOf /\ stopRequested' = stopRequested
  BY <1>1, <1>2, <1>3 DEF TypeOK, ptyVars
<1>a. \A u \in SessionIds : Registered(u)' <=> Registered(u)
  BY <1>2, <1>3, <1>5 DEF Registered, Terminal
<1>6. TypeOK'
  <2>1. st \in SessionStates
    BY <1>3 DEF SessionStates
  <2>2. QED
    BY <1>1, <1>2, <2>1, <1>4, <1>5 DEF TypeOK, leaseVars, Ledger!TypeOK
<1>7. AdaptersApart'
  <2>1. InUse' = InUse
    BY <1>1, <1>4, <1>5 DEF InUse
  <2>2. QED
    BY <1>4, <1>5, <1>a, <2>1 DEF AdaptersApart, Creating
<1>8. FlagsTrue'
  BY <1>5 DEF FlagsTrue
<1>9. EntriesTrue'
  <2>1. ~Terminal("Running") /\ Terminal("Failed")
    BY DEF Terminal
  <2>2. QED
    BY <1>2, <1>3, <1>5, <1>a, <2>1 DEF EntriesTrue
<1>10. CreatesTrue'
  BY <1>4, <1>5 DEF CreatesTrue, Startable, Reported
<1>11. RestartsTrue'
  <2>1. \A u \in Managers, v \in SessionIds : InRestart(u, v)' <=> InRestart(u, v) /\ u # t
    BY <1>4 DEF InRestart
  <2>2. \A u \in Managers, v \in SessionIds : InRestart(u, v) /\ u # t => v # s
    BY <1>2
  <2>3. \A v \in SessionIds \ {s} : ~InRestart(t, v)
    BY DEF InRestart, s
  <2>4. QED
    BY <1>2, <1>4, <1>5, <2>1, <2>2, <2>3 DEF RestartsTrue, Startable, Reported, Terminal
<1>12. QED
  BY <1>6, <1>7, <1>8, <1>9, <1>10, <1>11

\* Between states that are not terminal nothing is claimed of the process.
LEMMA SetStateEntry ==
  ASSUME EntryInv, NEW t \in Users, NEW s \in SessionIds, SetState(t, s, "WaitingForInput")
  PROVE  EntryInv'
<1> USE DEF EntryInv
<1>1. /\ \A u \in SessionIds : Terminal(state'[u]) <=> Terminal(state[u])
      /\ \A u \in SessionIds : Registered(u)' <=> Registered(u)
      /\ state' \in [SessionIds -> SessionStates \cup {"Unregistered"}]
      /\ UNCHANGED <<adapterOf, stopRequested, restarting, ptyVars, call, leaseVars>>
  BY DEF SetState, Terminal, Registered, TypeOK, SessionStates
<1>2. InUse' = InUse
  BY <1>1 DEF InUse
<1>3. TypeOK'
  BY <1>1 DEF TypeOK, ptyVars, leaseVars, Ledger!TypeOK
<1>4. AdaptersApart'
  BY <1>1, <1>2 DEF AdaptersApart, Creating, ptyVars
<1>5. RestartsTrue'
  BY <1>1 DEF RestartsTrue, InRestart, Startable, Reported, ptyVars
<1>6. QED
  BY <1>1, <1>3, <1>4, <1>5 DEF FlagsTrue, EntriesTrue, CreatesTrue, Startable, Reported, ptyVars

\* A poll records the ends it sees as what they were.
LEMMA PollAllEntry ==
  ASSUME EntryInv, NEW t \in Pollers, PollAll(t)
  PROVE  EntryInv'
<1> USE DEF EntryInv
<1> DEFINE live     == {s \in SessionIds : Registered(s) /\ ~Terminal(state[s])}
           observed == {s \in live : running[adapterOf[s]] /\ child[adapterOf[s]] \in Exited}
           down     == {s \in live : ~running[adapterOf[s]]} \cup observed
           code(s)  == IF s \in observed THEN child[adapterOf[s]] ELSE exitCode[adapterOf[s]]
           clean(s) == stopRequested[s] \/ code(s) = "exitedZero"
           fetched  == {adapterOf[s] : s \in observed}
<1>1. /\ state' = [s \in SessionIds |->
                     IF s \in down THEN IF clean(s) THEN "Terminated" ELSE "Failed"
                                   ELSE state[s]]
      /\ running' = [a \in Adapters |-> running[a] /\ a \notin fetched]
      /\ exitCode' = [a \in Adapters |-> IF a \in fetched THEN child[a] ELSE exitCode[a]]
      /\ call' = IF down = {} THEN call
                   ELSE [call EXCEPT ![t] = [at |-> "release", reclaim |-> down]]
      /\ UNCHANGED <<adapterOf, stopRequested, restarting, child, leaseVars>>
      /\ call[t].at = "idle" /\ t \in Managers
  BY DEF PollAll, Idle, NoCall, Managers
<1>2. /\ down \in SUBSET SessionIds
      /\ \A s \in down : Registered(s) /\ ~Terminal(state[s])
      /\ \A s \in down : ~running[adapterOf[s]] \/ adapterOf[s] \in fetched
      /\ \A a \in fetched : child[a] \in Exited
      /\ \A s \in SessionIds : Registered(s) /\ adapterOf[s] \in fetched => s \in down
      /\ \A u \in Managers : Creating(u) => call[u].adapter \notin fetched
  BY DEF AdaptersApart
<1> HIDE DEF live, observed, down, code, clean, fetched
<1>3. /\ \A u \in Managers \ {t} : call'[u] = call[u]
      /\ call'[t].at \in {"idle", "release"} /\ call' \in [Managers -> CallType]
  <2>1. CASE down = {}
    BY <1>1, <2>1 DEF TypeOK
  <2>2. CASE down # {}
    <3>1. [at |-> "release", reclaim |-> down] \in CallType
      BY <1>2, <2>2 DEF CallType
    <3>2. QED
      BY <1>1, <2>2, <3>1 DEF TypeOK
  <2>3. QED
    BY <2>1, <2>2
<1>4. /\ \A s \in SessionIds \ down : state'[s] = state[s]
      /\ \A s \in down : state'[s] \in {"Terminated", "Failed"}
      /\ \A s \in SessionIds : Registered(s)' <=> Registered(s)
  BY <1>1, <1>2 DEF Registered
<1>5. /\ \A a \in Adapters : running'[a] <=> running[a] /\ a \notin fetched
      /\ \A a \in Adapters \ fetched : exitCode'[a] = exitCode[a]
      /\ running' \in [Adapters -> BOOLEAN]
      /\ exitCode' \in [Adapters -> {"unset"} \cup Exited]
  BY <1>1, <1>2 DEF TypeOK
<1>6. TypeOK'
  BY <1>1, <1>2, <1>3, <1>4, <1>5 DEF TypeOK, SessionStates, leaseVars, Ledger!TypeOK
<1>7. AdaptersApart'
  <2>1. InUse' = InUse
    BY <1>1, <1>3 DEF InUse
  <2>2. QED
    BY <1>1, <1>3, <1>4, <1>5, <2>1 DEF AdaptersApart, Creating
<1>8. FlagsTrue'
  BY <1>1, <1>2, <1>5 DEF FlagsTrue, Exited
<1>9. EntriesTrue'
  <2>1. ASSUME NEW s \in down
        PROVE  Terminal(state'[s]) /\ ~running'[adapterOf'[s]]
    <3>1. adapterOf[s] \in Adapters
      BY <1>2 DEF AdaptersApart
    <3>2. QED
      BY <1>1, <1>2, <1>4, <1>5, <3>1 DEF Terminal
  <2>2. ASSUME NEW s \in SessionIds \ down, Registered(s)
        PROVE  /\ state'[s] = state[s]
               /\ running'[adapterOf'[s]] = running[adapterOf[s]]
               /\ exitCode'[adapterOf'[s]] = exitCode[adapterOf[s]]
    <3>1. adapterOf[s] \in Adapters \ fetched
      BY <1>2, <2>2 DEF AdaptersApart
    <3>2. QED
      BY <1>1, <1>4, <1>5, <3>1 DEF TypeOK
  <2>3. \A s \in SessionIds : Terminal(state[s]) => Registered(s)
    BY DEF Terminal, Registered
  <2>4. \A s \in down : ~stopRequested[s] /\ ~Terminal(state[s])
    BY <1>2 DEF EntriesTrue
  <2>5. QED
    BY <1>1, <1>4, <2>1, <2>2, <2>3, <2>4 DEF EntriesTrue
<1>10. CreatesTrue'
  <2>1. ASSUME NEW u \in Managers, Creating(u)
        PROVE  /\ running'[call[u].adapter] = running[call[u].adapter]
               /\ exitCode'[call[u].adapter] = exitCode[call[u].adapter]
    BY <1>2, <1>5, <2>1, CallFields DEF TypeOK
  <2>2. QED
    BY <1>1, <1>3, <2>1 DEF CreatesTrue, Creating, Startable, Reported
<1>11. RestartsTrue'
  <2>1. \A u \in Managers, v \in SessionIds :
          /\ InRestart(u, v)' <=> InRestart(u, v)
          /\ InRestart(u, v) => call'[u] = call[u]
    BY <1>1, <1>3 DEF InRestart
  <2>2. ASSUME NEW u \in Managers, NEW v \in SessionIds, InRestart(u, v)
        PROVE  /\ state'[v] = state[v] /\ v \notin down
               /\ running'[adapterOf'[v]] = running[adapterOf[v]]
               /\ exitCode'[adapterOf'[v]] = exitCode[adapterOf[v]]
    <3>1. Terminal(state[v]) /\ Registered(v)
      BY <2>2 DEF RestartsTrue, Terminal, Registered
    <3>2. v \notin down /\ adapterOf[v] \in Adapters \ fetched
      BY <1>2, <3>1 DEF AdaptersApart
    <3>3. QED
      BY <1>1, <1>4, <1>5, <3>2 DEF TypeOK
  <2>3. ASSUME NEW u \in Managers, NEW v \in SessionIds, InRestart(u, v)'
        PROVE  /\ Terminal(state'[v]) /\ ~stopRequested'[v]
               /\ call'[u].at = "restartStart" => Startable(adapterOf[v])'
               /\ call'[u].at = "restartRecord" => Reported(adapterOf[v], call[u].started)'
    <3>1. InRestart(u, v) /\ call'[u] = call[u]
      BY <2>1, <2>3
    <3>2. /\ Terminal(state[v]) /\ ~stopRequested[v]
          /\ call[u].at = "restartStart" => Startable(adapterOf[v])
          /\ call[u].at = "restartRecord" => Reported(adapterOf[v], call[u].started)
      BY <3>1 DEF RestartsTrue
    <3>3. QED
      BY <1>1, <2>2, <3>1, <3>2 DEF Startable, Reported
  <2>4. QED
    BY <1>1, <2>1, <2>3 DEF RestartsTrue, Terminal
<1>12. QED
  BY <1>6, <1>7, <1>8, <1>9, <1>10, <1>11

\* A process that ends has its running flag still up.
LEMMA ChildExitsEntry ==
  ASSUME EntryInv, NEW a \in Adapters, ChildExits(a)
  PROVE  EntryInv'
<1> USE DEF EntryInv
<1>1. PICK code \in Exited : child' = [child EXCEPT ![a] = code]
  BY DEF ChildExits
<1>2. UNCHANGED <<entryVars, running, exitCode, call, leaseVars>> /\ child[a] = "alive"
  BY DEF ChildExits
<1>3. TypeOK'
  BY <1>1, <1>2 DEF TypeOK, entryVars, leaseVars, Ledger!TypeOK
<1>4. FlagsTrue'
  BY <1>1, <1>2 DEF FlagsTrue, TypeOK, Exited
<1>5. AdaptersApart' /\ CreatesTrue' /\ RestartsTrue' /\ EntriesTrue'
  BY <1>2 DEF AdaptersApart, CreatesTrue, RestartsTrue, EntriesTrue, Creating, InUse, InRestart,
     Registered, Terminal, Startable, Reported, entryVars
<1>6. QED
  BY <1>3, <1>4, <1>5

\* The reader thread takes the flag down after the end.
LEMMA ReaderThreadEndsEntry ==
  ASSUME EntryInv, NEW a \in Adapters, ReaderThreadEnds(a)
  PROVE  EntryInv'
<1> USE DEF EntryInv
<1>1. /\ running' = [running EXCEPT ![a] = FALSE] /\ child[a] \in Exited
      /\ UNCHANGED <<entryVars, child, exitCode, call, leaseVars>>
  BY DEF ReaderThreadEnds
<1>2. \A b \in Adapters : running'[b] => running[b]
  BY <1>1 DEF TypeOK
<1>3. TypeOK'
  BY <1>1 DEF TypeOK, entryVars, leaseVars, Ledger!TypeOK
<1>4. FlagsTrue'
  BY <1>1, <1>2 DEF FlagsTrue, TypeOK, Exited
<1>5. AdaptersApart'
  BY <1>1, <1>2 DEF AdaptersApart, Creating, InUse, Registered, entryVars
<1>6. CreatesTrue'
  BY <1>1, <1>2, CallFields DEF CreatesTrue, Creating, Startable, Reported
<1>7. \A s \in SessionIds : Terminal(state[s]) => adapterOf[s] \in Adapters
  BY DEF AdaptersApart, Terminal, Registered
<1>8. RestartsTrue'
  <2>1. \A t \in Managers, s \in SessionIds : InRestart(t, s)' <=> InRestart(t, s)
    BY <1>1 DEF InRestart
  <2>2. ASSUME NEW t \in Managers, NEW s \in SessionIds, InRestart(t, s)
        PROVE  /\ Terminal(state'[s]) /\ ~stopRequested'[s]
               /\ call'[t].at = "restartStart" => Startable(adapterOf[s])'
               /\ call'[t].at = "restartRecord" => Reported(adapterOf[s], call[t].started)'
    <3>1. /\ Terminal(state[s]) /\ ~stopRequested[s]
          /\ call[t].at = "restartStart" => Startable(adapterOf[s])
          /\ call[t].at = "restartRecord" => Reported(adapterOf[s], call[t].started)
      BY <2>2 DEF RestartsTrue
    <3>2. QED
      BY <1>1, <1>2, <1>7, <3>1 DEF Startable, Reported, entryVars
  <2>3. QED
    BY <1>1, <2>1, <2>2 DEF RestartsTrue, entryVars
<1>9. EntriesTrue'
  BY <1>1, <1>2, <1>7 DEF EntriesTrue, Registered, entryVars, Terminal
<1>10. QED
  BY <1>3, <1>4, <1>5, <1>6, <1>8, <1>9

\* A call that only uses the ledger.
LEMMA LedgerEntry ==
  ASSUME EntryInv, UNCHANGED <<entryVars, ptyVars, call>>, Ledger!TypeOK'
  PROVE  EntryInv'
<1>1. UNCHANGED <<state, adapterOf, stopRequested, restarting, child, running, exitCode, call>>
  BY DEF entryVars, ptyVars
<1>2. TypeOK'
  BY <1>1 DEF EntryInv, TypeOK
<1>3. AdaptersApart' /\ FlagsTrue' /\ CreatesTrue' /\ RestartsTrue' /\ EntriesTrue'
  BY <1>1 DEF EntryInv, AdaptersApart, FlagsTrue, CreatesTrue, RestartsTrue, EntriesTrue,
     Creating, InUse, InRestart, Registered, Terminal, Startable, Reported
<1>4. QED
  BY <1>2, <1>3 DEF EntryInv

\* A reclaimed lease changes nothing of the session.
LEMMA ReclaimEntry ==
  ASSUME EntryInv, NEW t \in Managers, NEW s \in SessionIds, Reclaim(t, s), Ledger!TypeOK'
  PROVE  EntryInv'
<1> USE DEF EntryInv
<1>1. /\ call[t].at = "release" /\ s \in call[t].reclaim
      /\ UNCHANGED <<state, adapterOf, stopRequested, restarting, child, running, exitCode>>
  BY DEF Reclaim, entryVars, ptyVars
<1> DEFINE R == call[t].reclaim \ {s}
<1>2. call' = [call EXCEPT ![t] = IF call[t].reclaim = {s} THEN NoCall
                                  ELSE [at |-> "release", reclaim |-> R]]
  BY DEF Reclaim
<1>3. /\ \A u \in Managers \ {t} : call'[u] = call[u]
      /\ call'[t].at \in {"idle", "release"} /\ call' \in [Managers -> CallType]
  <2>1. CASE call[t].reclaim = {s}
    BY <1>2, <2>1 DEF TypeOK, NoCall, CallType
  <2>2. CASE call[t].reclaim # {s}
    <3>1. R \in (SUBSET SessionIds) \ {{}}
      BY <1>1, <2>2, CallFields
    <3>2. [at |-> "release", reclaim |-> R] \in CallType
      BY <3>1 DEF CallType
    <3> HIDE DEF R
    <3>3. QED
      BY <1>2, <2>2, <3>2 DEF TypeOK
  <2>3. QED
    BY <2>1, <2>2
<1>4. TypeOK'
  BY <1>1, <1>3 DEF TypeOK
<1>5. AdaptersApart'
  <2>1. InUse' = InUse
    BY <1>1, <1>3 DEF InUse
  <2>2. QED
    BY <1>1, <1>3, <2>1 DEF AdaptersApart, Creating, Registered
<1>6. RestartsTrue'
  BY <1>1, <1>3 DEF RestartsTrue, InRestart, Startable, Reported, Terminal
<1>7. FlagsTrue' /\ CreatesTrue' /\ EntriesTrue'
  BY <1>1, <1>3 DEF FlagsTrue, CreatesTrue, EntriesTrue, Registered, Terminal, Startable, Reported
<1>8. QED
  BY <1>4, <1>5, <1>6, <1>7

-----------------------------------------------------------------------------
(* The ledger that Sessions uses is the one of ResourceLeasesProofs.       *)

\* The ledger that the sessions use is the one the lemmas are about.
LEMMA SameLedger ==
  ASSUME NEW c, NEW r, NEW s, NEW m
  PROVE  /\ Ledger!Tracking(s) = Lease!Tracking(s)
         /\ Ledger!Init => Lease!Init
         /\ Lease!TypeOK => Ledger!TypeOK
         /\ Ledger!Modes = Lease!Modes
         /\ Ledger!AcquireGranted(c, r, s, m) => Lease!AcquireGranted(c, r, s, m)
         /\ Ledger!AcquireQueued(c, r, s, m) => Lease!AcquireQueued(c, r, s, m)
         /\ Ledger!Announce(c) => Lease!Announce(c)
<1>1. Ledger!Tracking(s) = Lease!Tracking(s)
  BY DEF Lease!Tracking, Ledger!Tracking, Lease!Holds, Ledger!Holds, Lease!Waits, Ledger!Waits
<1>2. Ledger!Init => Lease!Init
  BY DEF Ledger!Init, Lease!Init
<1>3. Lease!TypeOK => Ledger!TypeOK
  BY DEF Lease!TypeOK, Ledger!TypeOK, Lease!Holder, Ledger!Holder, Lease!Modes, Ledger!Modes
<1>4. Ledger!Modes = Lease!Modes
  BY DEF Lease!Modes, Ledger!Modes
<1>5. Ledger!AcquireGranted(c, r, s, m) => Lease!AcquireGranted(c, r, s, m)
  BY DEF Lease!AcquireGranted, Ledger!AcquireGranted, Lease!Idle, Ledger!Idle, Lease!Holds,
         Ledger!Holds, Lease!Waits, Ledger!Waits, Lease!Compatible, Ledger!Compatible
<1>6. Ledger!AcquireQueued(c, r, s, m) => Lease!AcquireQueued(c, r, s, m)
  BY DEF Lease!AcquireQueued, Ledger!AcquireQueued, Lease!Idle, Ledger!Idle, Lease!Holds,
         Ledger!Holds, Lease!Waits, Ledger!Waits, Lease!Compatible, Ledger!Compatible
<1>7. Ledger!Announce(c) => Lease!Announce(c)
  BY DEF Lease!Announce, Ledger!Announce
<1>8. QED
  BY <1>1, <1>2, <1>3, <1>4, <1>5, <1>6, <1>7

\* Its types are the same.
LEMMA SameTypes ==
  ASSUME Lease!Inv'
  PROVE  Ledger!TypeOK'
BY DEF Lease!Inv, Lease!TypeOK, Ledger!TypeOK, Lease!Holder, Ledger!Holder, Lease!Modes,
       Ledger!Modes

\* Its releases are the same.
LEMMA SameReleases ==
  ASSUME NEW c, NEW r, NEW s
  PROVE  /\ Ledger!Release(c, r, s) => Lease!Release(c, r, s)
         /\ Ledger!ReleaseAllForSession(c, s) => Lease!ReleaseAllForSession(c, s)
<1>1. Ledger!Release(c, r, s) => Lease!Release(c, r, s)
  BY DEF Lease!Release, Ledger!Release,
         Lease!Promotions, Ledger!Promotions, Lease!LoopStops, Ledger!LoopStops,
         Lease!First, Ledger!First, Lease!Compatible, Ledger!Compatible,
         Lease!PromotedQueue, Ledger!PromotedQueue, Lease!PromotedHolders,
         Ledger!PromotedHolders, Lease!PromotedSessions, Ledger!PromotedSessions,
         Lease!Holds, Ledger!Holds, Lease!Waits, Ledger!Waits, Lease!Idle, Ledger!Idle,
         Lease!WithoutHolder, Ledger!WithoutHolder, Lease!WithoutWaiter,
         Ledger!WithoutWaiter, Lease!RemoveAt, Ledger!RemoveAt
<1>2. Ledger!ReleaseAllForSession(c, s) => Lease!ReleaseAllForSession(c, s)
  BY DEF Lease!ReleaseAllForSession, Ledger!ReleaseAllForSession, Lease!Tracking, Ledger!Tracking,
         Lease!Promotions, Ledger!Promotions, Lease!LoopStops, Ledger!LoopStops,
         Lease!First, Ledger!First, Lease!Compatible, Ledger!Compatible,
         Lease!PromotedQueue, Ledger!PromotedQueue, Lease!PromotedHolders,
         Ledger!PromotedHolders, Lease!PromotedSessions, Ledger!PromotedSessions,
         Lease!Holds, Ledger!Holds, Lease!Waits, Ledger!Waits, Lease!Idle, Ledger!Idle,
         Lease!WithoutHolder, Ledger!WithoutHolder, Lease!WithoutWaiter,
         Ledger!WithoutWaiter, Lease!RemoveAt, Ledger!RemoveAt
<1>3. QED
  BY <1>1, <1>2

-----------------------------------------------------------------------------
(* Leases.                                                                 *)

\* A step that leaves the ledger alone keeps what holds of it.
LEMMA LedgerUntouched ==
  ASSUME UNCHANGED leaseVars, Lease!Inv
  PROVE  Lease!Inv' /\ \A s \in SessionIds : Lease!Tracking(s)' = Lease!Tracking(s)
<1>1. UNCHANGED <<holders, queue, announcing, told>>
  BY DEF leaseVars
<1>2. Lease!Inv'
  BY <1>1 DEF Lease!Inv, Lease!TypeOK, Lease!ExclusiveExcludes, Lease!OneEntryPerSession,
              Lease!NoMissedPromotion, Lease!Holds
<1>3. QED
  BY <1>1, <1>2 DEF Lease!Tracking, Lease!Holds, Lease!Waits

\* A thread that neither reclaims nor records a restart takes nothing away.
LEMMA ExpectedKept ==
  ASSUME NEW t \in Managers, NEW s \in SessionIds, LeasesExpected(s),
         call[t].at \notin {"release", "restartRecord"},
         \A u \in Managers \ {t} : call'[u] = call[u],
         Registered(s) /\ ~Terminal(state[s]) => Registered(s)' /\ ~Terminal(state'[s])
  PROVE  LeasesExpected(s)'
<1>1. CASE Registered(s) /\ ~Terminal(state[s])
  BY <1>1 DEF LeasesExpected, Terminal
<1>2. CASE \E u \in Managers : call[u].at = "release" /\ s \in call[u].reclaim
  BY <1>2 DEF LeasesExpected
<1>3. CASE \E u \in Managers : InRestart(u, s) /\ call[u].at = "restartRecord" /\ call[u].started
  BY <1>3 DEF LeasesExpected, InRestart
<1>4. QED
  BY <1>1, <1>2, <1>3 DEF LeasesExpected

\* The steps that leave the ledger alone.
LEMMA ExpectedNext ==
  ASSUME EntryInv, NEW s \in SessionIds, LeasesExpected(s),
         \/ \E t \in Users, u \in SessionIds :
              \/ \E a \in Adapters : CreateCheck(t, u, a)
              \/ Stop(t, u)
              \/ RestartCheck(t, u)
              \/ SetState(t, u, "WaitingForInput")
         \/ \E t \in Pollers : PollAll(t)
         \/ \E t \in Managers :
              CreateStart(t) \/ CreateRegister(t) \/ RestartStart(t) \/ RestartRecord(t)
         \/ \E a \in Adapters : ChildExits(a) \/ ReaderThreadEnds(a)
  PROVE  LeasesExpected(s)'
<1> USE DEF EntryInv, TypeOK
<1>1. ASSUME NEW t \in Users, NEW u \in SessionIds, NEW a \in Adapters, CreateCheck(t, u, a)
      PROVE  LeasesExpected(s)'
  <2>1. t \in Managers /\ call[t].at = "idle" /\ state' = state
        /\ \A v \in Managers \ {t} : call'[v] = call[v]
    BY <1>1 DEF CreateCheck, Idle, NoCall, Managers, entryVars
  <2>2. QED
    BY <2>1, ExpectedKept DEF Registered
<1>2. ASSUME NEW t \in Users, NEW u \in SessionIds, Stop(t, u)
      PROVE  LeasesExpected(s)'
  <2>1. t \in Managers /\ call[t].at = "idle"
    BY <1>2 DEF Stop, Idle, NoCall, Managers
  <2>2. CASE Terminal(state[u])
    <3>1. state' = state /\ call' = call
      BY <1>2, <2>2 DEF Stop
    <3>2. QED
      BY <2>1, <3>1, ExpectedKept DEF Registered
  <2>3. CASE ~Terminal(state[u])
    <3>1. /\ state' = [state EXCEPT ![u] = "Terminated"]
          /\ call' = [call EXCEPT ![t] = [at |-> "release", reclaim |-> {u}]]
      BY <1>2, <2>3 DEF Stop
    <3>2. CASE s = u
      BY <2>1, <3>1, <3>2 DEF LeasesExpected
    <3>3. CASE s # u
      BY <2>1, <3>1, <3>3, ExpectedKept DEF Registered
    <3>4. QED
      BY <3>2, <3>3
  <2>4. QED
    BY <2>2, <2>3
<1>3. ASSUME NEW t \in Users, NEW u \in SessionIds, RestartCheck(t, u)
      PROVE  LeasesExpected(s)'
  <2>1. t \in Managers /\ call[t].at = "idle" /\ state' = state
        /\ \A v \in Managers \ {t} : call'[v] = call[v]
    BY <1>3 DEF RestartCheck, Idle, NoCall, Managers
  <2>2. QED
    BY <2>1, ExpectedKept DEF Registered
<1>4. ASSUME NEW t \in Users, NEW u \in SessionIds, SetState(t, u, "WaitingForInput")
      PROVE  LeasesExpected(s)'
  <2>1. t \in Managers /\ call[t].at = "idle" /\ call' = call
        /\ state' = [state EXCEPT ![u] = "WaitingForInput"]
    BY <1>4 DEF SetState, Idle, NoCall, Managers
  <2>2. Registered(s) /\ ~Terminal(state[s]) => Registered(s)' /\ ~Terminal(state'[s])
    BY <2>1 DEF Registered, Terminal
  <2>3. QED
    BY <2>1, <2>2, ExpectedKept
<1>5. ASSUME NEW t \in Pollers, PollAll(t)
      PROVE  LeasesExpected(s)'
  <2>1. t \in Managers /\ call[t].at = "idle"
    BY <1>5 DEF PollAll, Idle, NoCall, Managers
  <2>2. PICK down \in SUBSET SessionIds :
          /\ \A u \in SessionIds \ down : state'[u] = state[u]
          /\ call' = IF down = {} THEN call
                       ELSE [call EXCEPT ![t] = [at |-> "release", reclaim |-> down]]
    <3> DEFINE live     == {u \in SessionIds : Registered(u) /\ ~Terminal(state[u])}
               observed == {u \in live : running[adapterOf[u]] /\ child[adapterOf[u]] \in Exited}
               d == {u \in live : ~running[adapterOf[u]]} \cup observed
    <3>1. /\ d \in SUBSET SessionIds
          /\ \A u \in SessionIds \ d : state'[u] = state[u]
          /\ call' = IF d = {} THEN call
                       ELSE [call EXCEPT ![t] = [at |-> "release", reclaim |-> d]]
      BY <1>5 DEF PollAll
    <3> HIDE DEF d
    <3>2. QED
      BY <3>1
  <2>3. CASE s \in down
    BY <2>1, <2>2, <2>3 DEF LeasesExpected
  <2>4. CASE s \notin down
    <3>1. state'[s] = state[s] /\ \A u \in Managers \ {t} : call'[u] = call[u]
      BY <2>2, <2>4
    <3>2. QED
      BY <2>1, <3>1, ExpectedKept DEF Registered
  <2>5. QED
    BY <2>3, <2>4
<1>6. ASSUME NEW t \in Managers, CreateStart(t) \/ RestartStart(t)
      PROVE  LeasesExpected(s)'
  <2>1. /\ call[t].at \notin {"release", "restartRecord"} /\ state' = state
        /\ \A v \in Managers \ {t} : call'[v] = call[v]
    BY <1>6 DEF CreateStart, RestartStart, entryVars
  <2>2. QED
    BY <2>1, ExpectedKept DEF Registered
<1>7. ASSUME NEW t \in Managers, CreateRegister(t)
      PROVE  LeasesExpected(s)'
  <2>1. /\ call[t].at = "createRegister" /\ \A v \in Managers \ {t} : call'[v] = call[v]
        /\ call[t].session \in SessionIds
    BY <1>7, CallFields DEF CreateRegister, Creating
  <2>2. Registered(s) => state'[s] = state[s]
    BY <1>7, <2>1 DEF CreateRegister, entryVars
  <2>3. QED
    BY <2>1, <2>2, ExpectedKept DEF Registered
<1>8. ASSUME NEW t \in Managers, RestartRecord(t)
      PROVE  LeasesExpected(s)'
  <2> DEFINE r == call[t].session
  <2>1. /\ call[t].at = "restartRecord" /\ InRestart(t, r) /\ r \in SessionIds
        /\ Terminal(state[r]) /\ call[t].started \in BOOLEAN
    BY <1>8, CallFields DEF RestartRecord, InRestart, RestartsTrue
  <2> HIDE DEF r
  <2>2. /\ state' = [state EXCEPT ![r] = IF call[t].started THEN "Running" ELSE "Failed"]
        /\ \A v \in Managers \ {t} : call'[v] = call[v]
    BY <1>8 DEF RestartRecord, r
  <2>3. CASE \E u \in Managers : call[u].at = "release" /\ s \in call[u].reclaim
    BY <2>1, <2>2, <2>3 DEF LeasesExpected
  <2>4. CASE s # r
    <3>1. CASE Registered(s) /\ ~Terminal(state[s])
      BY <2>2, <2>4, <3>1 DEF LeasesExpected, Registered, Terminal
    <3>2. CASE \E u \in Managers :
                 InRestart(u, s) /\ call[u].at = "restartRecord" /\ call[u].started
      BY <2>2, <2>4, <3>2 DEF LeasesExpected, InRestart, r
    <3>3. QED
      BY <2>3, <3>1, <3>2 DEF LeasesExpected
  <2>5. CASE s = r /\ call[t].started
    BY <2>1, <2>2, <2>5 DEF LeasesExpected, Registered, Terminal
  <2>6. CASE s = r /\ ~call[t].started
    <3>1. ~\E u \in Managers : InRestart(u, s) /\ call[u].at = "restartRecord" /\ call[u].started
      BY <2>1, <2>6 DEF RestartsTrue
    <3>2. QED
      BY <2>1, <2>3, <2>6, <3>1 DEF LeasesExpected
  <2>7. QED
    BY <2>4, <2>5, <2>6
<1>9. ASSUME NEW a \in Adapters, ChildExits(a) \/ ReaderThreadEnds(a)
      PROVE  LeasesExpected(s)'
  <2>1. state' = state /\ call' = call
    BY <1>9 DEF ChildExits, ReaderThreadEnds, entryVars
  <2>2. QED
    BY <2>1 DEF LeasesExpected, Registered, InRestart
<1>10. QED
  BY <1>1, <1>2, <1>3, <1>4, <1>5, <1>6, <1>7, <1>8, <1>9

\* The CLI of a live process asks for a lease, or gives one back.
LEMMA UseLeaseInv ==
  ASSUME Inv, NEW s \in SessionIds, UseLease(s)
  PROVE  Inv'
<1>1. UNCHANGED <<entryVars, ptyVars, call>> /\ Alive(s)
  BY DEF UseLease
<1>2. PICK r \in Resources :
        \/ \E m \in Lease!Modes :
             Lease!AcquireGranted(Client, r, s, m) \/ Lease!AcquireQueued(Client, r, s, m)
        \/ Lease!Release(Client, r, s)
  BY SameLedger, SameReleases DEF UseLease
<1>3. /\ Lease!Inv'
      /\ \A u \in SessionIds \ {s} : Lease!Tracking(u)' \subseteq Lease!Tracking(u)
  <2>1. Client \in Managers \cup {Client} /\ Lease!Inv
    BY DEF Inv
  <2>2. CASE \E m \in Lease!Modes :
               Lease!AcquireGranted(Client, r, s, m) \/ Lease!AcquireQueued(Client, r, s, m)
    <3>1. PICK m \in Lease!Modes :
                 Lease!AcquireGranted(Client, r, s, m) \/ Lease!AcquireQueued(Client, r, s, m)
      BY <2>2
    <3>2. Lease!Inv'
      BY <2>1, <3>1, Lease!AcquireGrantedPreserves, Lease!AcquireQueuedPreserves
    <3>3. \A u \in SessionIds \ {s} : Lease!Tracking(u)' = Lease!Tracking(u)
      BY <2>1, <3>1, Lease!AcquireTracks
    <3>4. QED
      BY <3>2, <3>3
  <2>3. CASE Lease!Release(Client, r, s)
    BY <2>1, <2>3, Lease!ReleasePreserves, Lease!ReleaseTracks
  <2>4. QED
    BY <1>2, <2>2, <2>3
<1>4. EntryInv'
  BY <1>1, <1>3, LedgerEntry, SameTypes DEF Inv
<1>5. LeasesExpected(s)
  <2>1. Registered(s) /\ running[adapterOf[s]]
    BY <1>1 DEF Inv, EntryInv, Alive, AdaptersApart, FlagsTrue
  <2>2. CASE Terminal(state[s])
    <3>1. PICK t \in Managers : InRestart(t, s)
      BY <2>1, <2>2 DEF Inv, EntryInv, EntriesTrue, RestartsTrue
    <3>2. call[t].at = "restartRecord" /\ call[t].started
      BY <2>1, <3>1 DEF Inv, EntryInv, RestartsTrue, InRestart, Startable, Reported
    <3>3. QED
      BY <3>1, <3>2 DEF LeasesExpected
  <2>3. QED
    BY <2>1, <2>2 DEF LeasesExpected
<1>6. LeasesTrue'
  <2>1. \A u \in SessionIds : LeasesExpected(u)' <=> LeasesExpected(u)
    BY <1>1 DEF LeasesExpected, Registered, Terminal, InRestart, entryVars
  <2>2. QED
    BY <1>3, <1>5, <2>1 DEF Inv, LeasesTrue
<1>7. QED
  BY <1>3, <1>4, <1>6 DEF Inv

\* Telling subscribers of promotions changes no session.
LEMMA AnnounceInv ==
  ASSUME Inv, NEW c \in Managers \cup {Client}, Announce(c)
  PROVE  Inv'
<1>1. UNCHANGED <<entryVars, ptyVars, call>> /\ Lease!Announce(c)
  BY SameLedger DEF Announce
<1>2. Lease!Inv'
  BY <1>1, Lease!AnnouncePreserves DEF Inv
<1>3. EntryInv'
  BY <1>1, <1>2, LedgerEntry, SameTypes DEF Inv
<1>4. \A u \in SessionIds : Lease!Tracking(u)' = Lease!Tracking(u)
  BY <1>1 DEF Lease!Announce, Lease!Tracking, Lease!Holds, Lease!Waits
<1>5. \A u \in SessionIds : LeasesExpected(u)' <=> LeasesExpected(u)
  BY <1>1 DEF LeasesExpected, Registered, Terminal, InRestart, entryVars
<1>6. QED
  BY <1>2, <1>3, <1>4, <1>5 DEF Inv, LeasesTrue

\* The leases of a session are reclaimed by the thread that ended it.
LEMMA ReclaimInv ==
  ASSUME Inv, NEW t \in Managers, NEW s \in SessionIds, Reclaim(t, s)
  PROVE  Inv'
<1>1. Lease!ReleaseAllForSession(t, s)
  BY SameReleases DEF Reclaim
<1>2. /\ Lease!Inv' /\ Lease!Tracking(s)' = {}
      /\ \A u \in SessionIds : Lease!Tracking(u)' \subseteq Lease!Tracking(u)
  BY <1>1, Lease!ReleaseAllPreserves, Lease!ReleaseAllForgets DEF Inv
<1>3. EntryInv'
  BY <1>2, ReclaimEntry, SameTypes DEF Inv
<1>4. ASSUME NEW u \in SessionIds \ {s}, LeasesExpected(u)
      PROVE  LeasesExpected(u)'
  <2>1. /\ state' = state /\ call[t].at = "release"
        /\ \A v \in Managers \ {t} : call'[v] = call[v]
        /\ u \in call[t].reclaim => call'[t].at = "release" /\ u \in call'[t].reclaim
    BY DEF Reclaim, Inv, EntryInv, TypeOK, entryVars
  <2>2. CASE Registered(u) /\ ~Terminal(state[u])
    BY <2>1, <2>2 DEF LeasesExpected, Registered
  <2>3. CASE \E v \in Managers : call[v].at = "release" /\ u \in call[v].reclaim
    BY <2>1, <2>3 DEF LeasesExpected
  <2>4. CASE \E v \in Managers :
               InRestart(v, u) /\ call[v].at = "restartRecord" /\ call[v].started
    BY <2>1, <2>4 DEF LeasesExpected, InRestart
  <2>5. QED
    BY <1>4, <2>2, <2>3, <2>4 DEF LeasesExpected
<1>5. QED
  BY <1>2, <1>3, <1>4 DEF Inv, LeasesTrue

\* Every step keeps the invariant.
LEMMA InvNext ==
  ASSUME SerialRestarts, Inv, [Next]_vars
  PROVE  Inv'
<1>1. ASSUME UNCHANGED leaseVars, EntryInv',
             \A s \in SessionIds : LeasesExpected(s) => LeasesExpected(s)'
      PROVE  Inv'
  BY <1>1, LedgerUntouched DEF Inv, LeasesTrue
<1>2. CASE UNCHANGED vars
  <2>1. UNCHANGED <<entryVars, ptyVars, call, leaseVars>>
    BY <1>2 DEF vars
  <2>2. Ledger!TypeOK'
    BY <2>1, LedgerUntouched, SameTypes DEF Inv
  <2>3. \A s \in SessionIds : LeasesExpected(s) => LeasesExpected(s)'
    BY <2>1 DEF LeasesExpected, Registered, InRestart, entryVars
  <2>4. QED
    BY <1>1, <2>1, <2>2, <2>3, LedgerEntry DEF Inv
<1>3. CASE \/ \E t \in Users, u \in SessionIds :
                \/ \E a \in Adapters : CreateCheck(t, u, a)
                \/ Stop(t, u)
                \/ RestartCheck(t, u)
                \/ SetState(t, u, "WaitingForInput")
           \/ \E t \in Pollers : PollAll(t)
           \/ \E t \in Managers :
                CreateStart(t) \/ CreateRegister(t) \/ RestartStart(t) \/ RestartRecord(t)
           \/ \E a \in Adapters : ChildExits(a) \/ ReaderThreadEnds(a)
  <2>1. UNCHANGED leaseVars
    BY <1>3 DEF CreateCheck, Stop, RestartCheck, SetState, PollAll, CreateStart, CreateRegister,
       RestartStart, RestartRecord, ChildExits, ReaderThreadEnds
  <2>2. EntryInv'
    BY <1>3, CreateCheckEntry, StopEntry, RestartCheckEntry, SetStateEntry, PollAllEntry,
       CreateStartEntry, CreateRegisterEntry, RestartStartEntry, RestartRecordEntry,
       ChildExitsEntry, ReaderThreadEndsEntry DEF Inv
  <2>3. \A s \in SessionIds : LeasesExpected(s) => LeasesExpected(s)'
    BY <1>3, ExpectedNext DEF Inv
  <2>4. QED
    BY <1>1, <2>1, <2>2, <2>3
<1>4. CASE \/ \E s \in SessionIds : UseLease(s)
           \/ \E c \in Managers \cup {Client} : Announce(c)
           \/ \E t \in Managers, s \in SessionIds : Reclaim(t, s)
  BY <1>4, UseLeaseInv, AnnounceInv, ReclaimInv
<1>5. QED
  BY <1>2, <1>3, <1>4 DEF Next, CallProceeds

\* It holds at first.
LEMMA InvInit == Init => Inv
<1> SUFFICES ASSUME Init PROVE Inv
  OBVIOUS
<1>1. Lease!Init
  BY SameLedger DEF Init
<1>2. Lease!Inv
  BY <1>1, Lease!InvInit
<1>3. LeasesTrue
  BY <1>1 DEF LeasesTrue, Lease!Tracking, Lease!Holds, Lease!Waits, Lease!Init
<1>4. QED
  BY <1>2, <1>3, InitEntry DEF Inv

\* Inv holds in every reachable state, if restarts of a session are serial.
THEOREM Invariance ==
  ASSUME SerialRestarts
  PROVE  Spec => []Inv
BY InvInit, InvNext, PTL DEF Spec

\* It is all that is claimed, and more.
LEMMA InvSuffices ==
  ASSUME Inv
  PROVE  SessionsAreTrue
<1> USE DEF Inv, EntryInv
<1>1. TerminalMeansDead
  <2> SUFFICES ASSUME NEW s \in SessionIds, Terminal(state[s]),
                      \A t \in Managers : ~InRestart(t, s)
               PROVE  ~Alive(s)
    BY DEF TerminalMeansDead
  <2>1. ~running[adapterOf[s]]
    BY DEF RestartsTrue, EntriesTrue
  <2>2. QED
    BY <2>1 DEF Alive, AdaptersApart, FlagsTrue
<1>2. CrashNotMasked
  BY DEF CrashNotMasked, EntriesTrue
<1>3. NoLeakedLease
  <2> SUFFICES ASSUME NEW s \in SessionIds, Terminal(state[s]), ~restarting[s],
                      \A t \in Managers : call[t].at # "release"
               PROVE  Ledger!Tracking(s) = {}
    BY DEF NoLeakedLease, Ledger!Tracking
  <2>1. ~LeasesExpected(s)
    BY DEF LeasesExpected, RestartsTrue
  <2>2. QED
    BY <2>1, SameLedger DEF LeasesTrue
<1>4. QED
  BY <1>1, <1>2, <1>3 DEF SessionsAreTrue

\* What is recorded of a session is true of its process, of a stop that was
\* asked for and of its leases, however users, pollers, the reader threads
\* and the processes themselves interleave.
THEOREM SessionsTrue ==
  ASSUME SerialRestarts
  PROVE  Spec => []SessionsAreTrue
BY InvSuffices, Invariance, PTL

\* PollAll records as Terminated, of the sessions that nobody stopped, only
\* those whose process ended with exit code 0.
THEOREM CleanMeansClean ==
  ASSUME SerialRestarts
  PROVE  Spec => CrashNeverClean
<1>1. ASSUME Inv, [Next]_vars, NEW s \in SessionIds,
             Registered(s), ~Terminal(state[s]), state'[s] = "Terminated", ~stopRequested'[s]
      PROVE  child[adapterOf[s]] = "exitedZero"
  <2> USE DEF Inv, EntryInv, TypeOK
  <2>1. state'[s] # state[s]
    BY <1>1 DEF Terminal
  <2>2. CASE \E t \in Users, u \in SessionIds : Stop(t, u)
    BY <1>1, <2>1, <2>2 DEF Stop
  <2>3. CASE \E t \in Pollers : PollAll(t)
    <3>1. exitCode[adapterOf[s]] = "unset" /\ ~stopRequested[s]
      BY <1>1 DEF EntriesTrue
    <3>2. QED
      BY <1>1, <2>1, <2>3, <3>1 DEF PollAll
  <2>4. CASE \E t \in Managers : CreateRegister(t)
    BY <1>1, <2>1, <2>4 DEF CreateRegister, entryVars
  <2>5. CASE \E t \in Managers : RestartRecord(t)
    BY <1>1, <2>1, <2>5 DEF RestartRecord
  <2>6. CASE \E t \in Users, u \in SessionIds : SetState(t, u, "WaitingForInput")
    BY <1>1, <2>1, <2>6 DEF SetState
  <2>7. CASE UNCHANGED state
    BY <2>1, <2>7
  <2>8. QED
    BY <1>1, <2>2, <2>3, <2>4, <2>5, <2>6, <2>7
       DEF Next, CallProceeds, CreateCheck, RestartCheck, CreateStart, RestartStart, Reclaim,
           UseLease, Announce, ChildExits, ReaderThreadEnds, entryVars, vars
<1>2. Inv /\ [Next]_vars =>
        [\A s \in SessionIds :
           Registered(s) /\ ~Terminal(state[s]) /\ state'[s] = "Terminated" /\ ~stopRequested'[s]
             => child[adapterOf[s]] = "exitedZero"]_vars
  BY <1>1
<1>3. QED
  BY <1>2, Invariance, PTL DEF Spec, CrashNeverClean

=============================================================================
