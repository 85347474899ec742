--------------------------- MODULE ResourceLeases ---------------------------
(***************************************************************************)
(* ResourceLeaseLedger (Core/Session): named resources, each with a set of *)
(* current lease holders and a FIFO wait queue.  Every operation is one    *)
(* critical section on the ledger's mutex; the "ResourceLeaseAcquired"     *)
(* events of the requests it promoted are published afterwards, outside    *)
(* the mutex, one by one, by the calling thread.                           *)
(*                                                                         *)
(* A holders vector is abstracted to a set, as no operation depends on its *)
(* order.                                                                  *)
(***************************************************************************)
EXTENDS Naturals, Sequences, SequencesExt

CONSTANTS
  Sessions,    \* session ids
  Resources,   \* resource names
  Callers      \* threads that call the ledger

VARIABLES
  holders,     \* holders[r]: the leases granted on r
  queue,       \* queue[r]: the requests waiting for r, oldest first
  announcing,  \* announcing[c]: promotions c has made and not yet published
  told         \* told[r]: sessions that were told they hold r, by Acquire's
               \* result or by the event

vars == <<holders, queue, announcing, told>>

Modes  == {"Shared", "Exclusive"}
Holder == [session : Sessions, mode : Modes]

-----------------------------------------------------------------------------
\* Mutant: an Exclusive request is admitted next to Shared holders.
CompatibleIfNoExclusive(h, mode) == \A x \in h : x.mode = "Shared"

\* Shared goes with no Exclusive holder, Exclusive with no holder at all.
Compatible(h, mode) == \A x \in h : mode = "Shared" /\ x.mode = "Shared"

\* HasEntryFor on the holders and on the wait queue.
Holds(r, s) == \E x \in holders[r] : x.session = s
Waits(r, s) == \E i \in DOMAIN queue[r] : queue[r][i].session = s

\* The first n requests of a queue.
First(q, n) == {q[i] : i \in 1..n}

\* PromoteQueued's loop, having promoted n requests, promotes no other.
LoopStops(h, q, n) ==
  \/ n = Len(q)
  \/ ~Compatible(h \cup First(q, n), q[n + 1].mode)

\* Mutants: the loop promotes one request at most, or it is never run.
PromotionsAtMostOne(h, q) == IF LoopStops(h, q, 0) THEN 0 ELSE 1
PromotionsNone(h, q) == 0

\* How many requests the loop promotes: it stops at the first occasion.
Promotions(h, q) ==
  CHOOSE n \in 0..Len(q) :
    LoopStops(h, q, n) /\ \A m \in 0..(n - 1) : ~LoopStops(h, q, m)

\* What PromoteQueued leaves of holders and queue, and whom it promoted.
PromotedHolders(h, q) == h \cup First(q, Promotions(h, q))
PromotedQueue(h, q)   == SubSeq(q, Promotions(h, q) + 1, Len(q))
PromotedSessions(h, q) == {x.session : x \in First(q, Promotions(h, q))}

\* Erasing a session's entry from the holders, and from the queue.
WithoutHolder(h, s) == {x \in h : x.session # s}
WithoutWaiter(q, s) ==
  IF \E i \in DOMAIN q : q[i].session = s
    THEN RemoveAt(q, CHOOSE i \in DOMAIN q : q[i].session = s)
    ELSE q

-----------------------------------------------------------------------------
Init ==
  /\ holders    = [r \in Resources |-> {}]
  /\ queue      = [r \in Resources |-> <<>>]
  /\ announcing = [c \in Callers |-> {}]
  /\ told       = [r \in Resources |-> {}]

\* A thread publishes its last call's events before it makes another call.
Idle(c) == announcing[c] = {}

\* Mutant: a compatible newcomer does not queue behind those that wait.
AcquireGrantedAhead(c, r, s, m) ==
  /\ Idle(c)
  /\ ~Holds(r, s) /\ ~Waits(r, s)
  /\ Compatible(holders[r], m)
  /\ holders' = [holders EXCEPT ![r] = @ \cup {[session |-> s, mode |-> m]}]
  /\ told' = [told EXCEPT ![r] = @ \cup {s}]
  /\ UNCHANGED <<queue, announcing>>

\* Acquire, granted at once: nothing waits and the mode is compatible.
AcquireGranted(c, r, s, m) ==
  /\ Idle(c)
  /\ ~Holds(r, s) /\ ~Waits(r, s)
  /\ queue[r] = <<>> /\ Compatible(holders[r], m)
  /\ holders' = [holders EXCEPT ![r] = @ \cup {[session |-> s, mode |-> m]}]
  /\ told' = [told EXCEPT ![r] = @ \cup {s}]
  /\ UNCHANGED <<queue, announcing>>

\* Acquire, queued behind the holders or behind those already waiting.
AcquireQueued(c, r, s, m) ==
  /\ Idle(c)
  /\ ~Holds(r, s) /\ ~Waits(r, s)
  /\ queue[r] # <<>> \/ ~Compatible(holders[r], m)
  /\ queue' = [queue EXCEPT ![r] = Append(@, [session |-> s, mode |-> m])]
  /\ UNCHANGED <<holders, announcing, told>>

\* Mutant: the promoted requests are kept in a member of the ledger, which
\* the next caller's release overwrites before they are published.
ReleaseIntoMember(c, r, s) ==
  /\ Idle(c)
  /\ Holds(r, s) \/ Waits(r, s)
  /\ LET h == WithoutHolder(holders[r], s)
         q == IF Holds(r, s) THEN queue[r] ELSE WithoutWaiter(queue[r], s)
     IN  /\ holders' = [holders EXCEPT ![r] = PromotedHolders(h, q)]
         /\ queue' = [queue EXCEPT ![r] = PromotedQueue(h, q)]
         /\ announcing' = [d \in Callers |->
                             IF d = c THEN {r} \X PromotedSessions(h, q) ELSE {}]
         /\ told' = [told EXCEPT ![r] = @ \ {s}]

\* Release of a held lease, or else of a queued request; then PromoteQueued.
Release(c, r, s) ==
  /\ Idle(c)
  /\ Holds(r, s) \/ Waits(r, s)
  /\ LET h == WithoutHolder(holders[r], s)
         q == IF Holds(r, s) THEN queue[r] ELSE WithoutWaiter(queue[r], s)
     IN  /\ holders' = [holders EXCEPT ![r] = PromotedHolders(h, q)]
         /\ queue' = [queue EXCEPT ![r] = PromotedQueue(h, q)]
         /\ announcing' = [announcing EXCEPT ![c] = {r} \X PromotedSessions(h, q)]
         /\ told' = [told EXCEPT ![r] = @ \ {s}]

\* The resources on which ReleaseAllForSession(s) removes something.
Tracking(s) == {r \in Resources : Holds(r, s) \/ Waits(r, s)}

\* ReleaseAllForSession: on every resource, both entries, then PromoteQueued.
ReleaseAllForSession(c, s) ==
  /\ Idle(c)
  /\ LET h(r) == WithoutHolder(holders[r], s)
         q(r) == WithoutWaiter(queue[r], s)
         T    == Tracking(s)
     IN  /\ holders' = [r \in Resources |->
                          IF r \in T THEN PromotedHolders(h(r), q(r)) ELSE holders[r]]
         /\ queue' = [r \in Resources |->
                        IF r \in T THEN PromotedQueue(h(r), q(r)) ELSE queue[r]]
         /\ announcing' = [announcing EXCEPT ![c] =
                             UNION {{r} \X PromotedSessions(h(r), q(r)) : r \in T}]
         /\ told' = [r \in Resources |-> told[r] \ {s}]

\* One Publish("ResourceLeaseAcquired") of the loop after the unlock.
Announce(c) ==
  \E e \in announcing[c] :
    /\ announcing' = [announcing EXCEPT ![c] = @ \ {e}]
    /\ told' = [told EXCEPT ![e[1]] = @ \cup {e[2]}]
    /\ UNCHANGED <<holders, queue>>

Next ==
  \E c \in Callers :
    \/ \E r \in Resources, s \in Sessions :
         \/ \E m \in Modes : AcquireGranted(c, r, s, m) \/ AcquireQueued(c, r, s, m)
         \/ Release(c, r, s)
    \/ \E s \in Sessions : ReleaseAllForSession(c, s)
    \/ Announce(c)

Spec == Init /\ [][Next]_vars

\* Publish loops finish, and every lease that is held is released some day:
\* the release is retried whenever a caller is free to make it.
Fairness ==
  /\ \A c \in Callers : WF_vars(Announce(c))
  /\ \A r \in Resources, s \in Sessions :
       SF_vars(Holds(r, s) /\ \E c \in Callers : Release(c, r, s))

FairSpec == Spec /\ Fairness

-----------------------------------------------------------------------------
TypeOK ==
  /\ holders \in [Resources -> SUBSET Holder]
  /\ queue \in [Resources -> Seq(Holder)]
  /\ announcing \in [Callers -> SUBSET (Resources \X Sessions)]
  /\ told \in [Resources -> SUBSET Sessions]

\* Two different leases on one resource are both Shared: whatever batch
\* PromoteQueued admits after a release, an Exclusive holder is alone.
ExclusiveExcludes ==
  \A r \in Resources : \A x, y \in holders[r] :
    x # y => x.mode = "Shared" /\ y.mode = "Shared"

\* No wake-up is lost: as long as a request waits, the oldest one is blocked
\* by a current holder.  Promotion happens only inside Release and
\* ReleaseAllForSession, so a request they leave behind would wait for ever.
NoMissedPromotion ==
  \A r \in Resources :
    queue[r] # <<>> => ~Compatible(holders[r], queue[r][1].mode)

\* A session has at most one entry per resource, held or queued, so
\* erasing "the" entry of a session (find_if, erase) loses nothing.
OneEntryPerSession ==
  \A r \in Resources :
    /\ \A x, y \in holders[r] : x.session = y.session => x = y
    /\ \A i, j \in DOMAIN queue[r] :
         queue[r][i].session = queue[r][j].session => i = j
    /\ \A i \in DOMAIN queue[r] : ~Holds(r, queue[r][i].session)

\* Every session that holds a resource has been told so, by Acquire's result
\* or by the event, or the event is still to be published by some thread: no
\* promotion goes unannounced, whichever of two callers unlocks first.
NoSilentGrant ==
  \A r \in Resources, s \in Sessions :
    Holds(r, s) => s \in told[r] \/ \E c \in Callers : <<r, s>> \in announcing[c]

\* FIFO: a request is granted in a step only if no request that was queued
\* before it is still waiting after the step (a newcomer comes after all).
NoOvertaking ==
  [][\A r \in Resources : \A x \in holders'[r] \ holders[r] :
       \A i \in DOMAIN queue[r] :
         (\A j \in 1..i : queue[r][j] # x) => queue[r][i] \notin Range(queue'[r])]_vars

\* The ledger implements shared/exclusive locks that hand over at once: its
\* waiting requests are the entries of the queue.
Locks == INSTANCE SharedExclusiveLocks
           WITH held <- holders, waiting <- [r \in Resources |-> Range(queue[r])]

ImplementsLocks == Locks!ASpec

\* A queued request is served or withdrawn: a stream of later requests, of
\* Shared ones in particular, cannot starve it.
NoStarvation ==
  \A r \in Resources, s \in Sessions : Waits(r, s) ~> ~Waits(r, s)

=============================================================================
