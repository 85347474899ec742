------------------------ MODULE ResourceLeasesProofs ------------------------
(***************************************************************************)
(* The safety properties of ResourceLeases, for any sets of sessions,      *)
(* resources and callers.  The facts about one resource (its holders h and *)
(* its queue q) are proved first, then lifted to every action.  At the     *)
(* end, the ledger implements SharedExclusiveLocks: a wait queue stands    *)
(* for the set of its requests, and each step of the ledger is an Ask, a   *)
(* Leave or a stutter of the abstract locks.                               *)
(***************************************************************************)
EXTENDS ResourceLeases, SequenceTheorems, WellFoundedInduction, TLAPS

\* The state of one resource, between two critical sections.
Alone(h) == \A x, y \in h : x # y => x.mode = "Shared" /\ y.mode = "Shared"
OneEntry(h, q) ==
  /\ \A x, y \in h : x.session = y.session => x = y
  /\ \A i, j \in DOMAIN q : q[i].session = q[j].session => i = j
  /\ \A i \in DOMAIN q : \A x \in h : x.session # q[i].session
\* p is made of elements of q, in the order of q.
InOrder(p, q) ==
  \E old \in [DOMAIN p -> DOMAIN q] :
    /\ \A a \in DOMAIN p : p[a] = q[old[a]]
    /\ \A a, b \in DOMAIN p : a < b => old[a] < old[b]
Blocked(h, q) == q # <<>> => ~Compatible(h, q[1].mode)

\* PromoteQueued's loop stops: the number of promotions is the least number
\* after which the loop makes no further one.
LEMMA PromotionsLeast ==
  ASSUME NEW h, NEW q \in Seq(Holder)
  PROVE  /\ Promotions(h, q) \in 0..Len(q)
         /\ LoopStops(h, q, Promotions(h, q))
         /\ \A m \in 0..(Promotions(h, q) - 1) : ~LoopStops(h, q, m)
<1> DEFINE T == {n \in 0..Len(q) : LoopStops(h, q, n)}
<1>1. Len(q) \in Nat
  OBVIOUS
<1>2. T \subseteq Nat /\ T # {}
  <2>1. LoopStops(h, q, Len(q))
    BY DEF LoopStops
  <2>2. QED
    BY <1>1, <2>1
<1>3. \E n \in T : \A m \in T : ~(<<m, n>> \in OpToRel(<, Nat))
  <2> HIDE DEF T
  <2>1. QED
    BY <1>2, NatLessThanWellFounded, WFMin
<1>4. PICK n \in T : \A m \in T : ~(<<m, n>> \in OpToRel(<, Nat))
  BY <1>3
<1>5. \A m \in T : ~(m < n)
  BY <1>2, <1>4 DEF OpToRel
<1>6. \A m \in 0..(n - 1) : ~LoopStops(h, q, m)
  BY <1>1, <1>5
<1>7. QED
  BY <1>6, <1>4 DEF Promotions

\* What PromoteQueued leaves of the queue is its tail after the promotions.
LEMMA PromotedQueueIsTail ==
  ASSUME NEW h, NEW q \in Seq(Holder)
  PROVE  /\ PromotedQueue(h, q) \in Seq(Holder)
         /\ Len(PromotedQueue(h, q)) = Len(q) - Promotions(h, q)
         /\ \A i \in 1..(Len(q) - Promotions(h, q)) :
              PromotedQueue(h, q)[i] = q[Promotions(h, q) + i]
<1>1. Promotions(h, q) \in 0..Len(q)
  BY PromotionsLeast
<1>2. QED
  BY <1>1 DEF PromotedQueue

\* PromoteQueued keeps the holders admissible, keeps one entry for each
\* session, and leaves the front of the queue blocked.
LEMMA PromoteQueuedSafe ==
  ASSUME NEW h \in SUBSET Holder, NEW q \in Seq(Holder), Alone(h), OneEntry(h, q)
  PROVE  /\ PromotedHolders(h, q) \in SUBSET Holder
         /\ Alone(PromotedHolders(h, q))
         /\ OneEntry(PromotedHolders(h, q), PromotedQueue(h, q))
         /\ Blocked(PromotedHolders(h, q), PromotedQueue(h, q))
<1> DEFINE n == Promotions(h, q)
           H == PromotedHolders(h, q)
           Q == PromotedQueue(h, q)
<1>1. n \in 0..Len(q) /\ LoopStops(h, q, n) /\ \A m \in 0..(n - 1) : ~LoopStops(h, q, m)
  BY PromotionsLeast
<1>2. Q \in Seq(Holder) /\ Len(Q) = Len(q) - n /\ \A i \in 1..(Len(q) - n) : Q[i] = q[n + i]
  BY PromotedQueueIsTail
<1>3. H = h \cup First(q, n)
  BY DEF PromotedHolders
<1> HIDE DEF n, H, Q
<1>4. First(q, n) \in SUBSET Holder
  BY <1>1 DEF First
<1>5. \A j \in 1..n : /\ \A x \in h : q[j].mode = "Shared" /\ x.mode = "Shared"
                    /\ \A i \in 1..(j - 1) : q[j].mode = "Shared" /\ q[i].mode = "Shared"
  <2> SUFFICES ASSUME NEW j \in 1..n
               PROVE  \A x \in h \cup First(q, j - 1) : q[j].mode = "Shared" /\ x.mode = "Shared"
    BY DEF First
  <2>1. ~LoopStops(h, q, j - 1)
    BY <1>1
  <2>2. Compatible(h \cup First(q, j - 1), q[j].mode)
    BY <2>1, <1>1 DEF LoopStops
  <2>3. QED
    BY <2>2 DEF Compatible
<1>6. Alone(H)
  <2> SUFFICES ASSUME NEW x \in H, NEW y \in H, x # y
               PROVE  x.mode = "Shared" /\ y.mode = "Shared"
    BY DEF Alone
  <2>1. CASE x \in h /\ y \in h
    BY <2>1 DEF Alone
  <2>2. CASE \E j \in 1..n : q[j] = x /\ y \in h
    BY <2>2, <1>5
  <2>3. CASE \E j \in 1..n : q[j] = y /\ x \in h
    BY <2>3, <1>5
  <2>4. CASE \E i, j \in 1..n : q[i] = x /\ q[j] = y
    <3>1. PICK i \in 1..n, j \in 1..n : q[i] = x /\ q[j] = y
      BY <2>4
    <3>2. i < j \/ j < i
      BY <3>1, <1>1
    <3>3. CASE i < j
      BY <3>1, <3>3, <1>1, <1>5
    <3>4. CASE j < i
      BY <3>1, <3>4, <1>1, <1>5
    <3>5. QED
      BY <3>2, <3>3, <3>4
  <2>5. QED
    BY <1>3, <2>1, <2>2, <2>3, <2>4 DEF First
<1>7. OneEntry(H, Q)
  <2>1. \A x, y \in H : x.session = y.session => x = y
    BY <1>1, <1>3 DEF OneEntry, First
  <2> DEFINE L == Len(q)
  <2>a. L \in Nat /\ DOMAIN q = 1..L /\ DOMAIN Q = 1..(L - n)
    BY <1>1, <1>2
  <2>b. \A i \in 1..(L - n) : n + i \in 1..L /\ Q[i] = q[n + i]
    BY <1>1, <1>2, <2>a
  <2>c. n \in Nat /\ \A i \in 1..n : i \in 1..L
    BY <1>1, <2>a
  <2> HIDE DEF L
  <2>2. \A i, j \in DOMAIN Q : Q[i].session = Q[j].session => i = j
    <3> SUFFICES ASSUME NEW i \in 1..(L - n), NEW j \in 1..(L - n),
                        Q[i].session = Q[j].session
                 PROVE  i = j
      BY <2>a
    <3>1. n + i = n + j
      BY <2>a, <2>b DEF OneEntry
    <3>2. QED
      BY <3>1, <2>c
  <2>3. \A i \in DOMAIN Q : \A x \in H : x.session # Q[i].session
    <3> SUFFICES ASSUME NEW i \in 1..(L - n), NEW x \in H
                 PROVE  x.session # q[n + i].session
      BY <2>a, <2>b
    <3>1. CASE x \in h
      BY <3>1, <2>a, <2>b DEF OneEntry
    <3>2. CASE \E j \in 1..n : x = q[j]
      <4>1. PICK j \in 1..n : x = q[j]
        BY <3>2
      <4>2. j # n + i /\ j \in DOMAIN q /\ n + i \in DOMAIN q
        BY <2>a, <2>b, <2>c
      <4>3. QED
        BY <4>1, <4>2 DEF OneEntry
    <3>3. QED
      BY <3>1, <3>2, <1>3 DEF First
  <2>4. QED
    BY <2>1, <2>2, <2>3 DEF OneEntry
<1>8. Blocked(H, Q)
  <2> SUFFICES ASSUME Q # <<>> PROVE ~Compatible(H, Q[1].mode)
    BY DEF Blocked
  <2>1. n < Len(q) /\ Q[1] = q[n + 1]
    BY <1>1, <1>2
  <2>2. QED
    BY <2>1, <1>1, <1>3 DEF LoopStops
<1>9. QED
  BY <1>3, <1>4, <1>6, <1>7, <1>8 DEF n, H, Q

\* Erasing one position shifts the later elements down by one.
LEMMA RemoveAtShifts ==
  ASSUME NEW S, NEW q \in Seq(S), NEW k \in 1..Len(q)
  PROVE  /\ RemoveAt(q, k) \in Seq(S)
         /\ Len(RemoveAt(q, k)) = Len(q) - 1
         /\ \A i \in 1..(Len(q) - 1) :
              RemoveAt(q, k)[i] = IF i < k THEN q[i] ELSE q[i + 1]
<1> DEFINE before == SubSeq(q, 1, k - 1)
           after  == SubSeq(q, k + 1, Len(q))
<1>1. Len(q) \in Nat /\ k \in Nat /\ k <= Len(q) /\ \A i \in 1..Len(q) : q[i] \in S
  OBVIOUS
<1>2. before \in Seq(S) /\ Len(before) = k - 1 /\ \A i \in 1..(k - 1) : before[i] = q[i]
  <2>1. \A i \in 1..(k - 1) : q[i] \in S
    BY <1>1
  <2>2. 1 \in Int /\ k - 1 \in Int
    BY <1>1
  <2> HIDE DEF before
  <2>3. /\ before \in Seq(S)
        /\ Len(before) = IF 1 <= k - 1 THEN k - 1 - 1 + 1 ELSE 0
        /\ \A i \in 1..(k - 1 - 1 + 1) : before[i] = q[1 + i - 1]
    BY <2>1, <2>2, SubSeqProperties DEF before
  <2>4. Len(before) = k - 1
    BY <1>1, <2>3
  <2>5. ASSUME NEW i \in 1..(k - 1) PROVE before[i] = q[i]
    <3>1. i \in 1..(k - 1 - 1 + 1) /\ 1 + i - 1 = i
      BY <1>1
    <3>2. before[i] = q[1 + i - 1]
      BY <2>3, <3>1
    <3>3. QED
      BY <3>1, <3>2
  <2>6. QED
    BY <2>3, <2>4, <2>5
<1>3. /\ after \in Seq(S) /\ Len(after) = Len(q) - k
      /\ \A i \in 1..(Len(q) - k) : after[i] = q[k + i]
  <2>1. \A i \in (k + 1)..Len(q) : q[i] \in S
    BY <1>1
  <2>2. k + 1 \in Int /\ Len(q) \in Int
    BY <1>1
  <2> HIDE DEF after
  <2>3. /\ after \in Seq(S)
        /\ Len(after) = IF k + 1 <= Len(q) THEN Len(q) - (k + 1) + 1 ELSE 0
        /\ \A i \in 1..(Len(q) - (k + 1) + 1) : after[i] = q[k + 1 + i - 1]
    BY <2>1, <2>2, SubSeqProperties DEF after
  <2>4. QED
    BY <1>1, <2>3
<1>4. RemoveAt(q, k) = before \o after
  BY DEF RemoveAt
<1> HIDE DEF before, after
<1>5. /\ before \o after \in Seq(S)
      /\ Len(before \o after) = Len(before) + Len(after)
      /\ \A i \in 1..(Len(before) + Len(after)) : (before \o after)[i] =
            IF i <= Len(before) THEN before[i] ELSE after[i - Len(before)]
  BY <1>2, <1>3, ConcatProperties
<1>6. ASSUME NEW i \in 1..(Len(q) - 1)
      PROVE  RemoveAt(q, k)[i] = IF i < k THEN q[i] ELSE q[i + 1]
  <2>1. CASE i < k
    BY <1>1, <1>2, <1>3, <1>4, <1>5, <2>1
  <2>2. CASE i >= k
    <3>1. i - (k - 1) \in 1..(Len(q) - k) /\ k + (i - (k - 1)) = i + 1
      BY <1>1, <2>2
    <3>2. RemoveAt(q, k)[i] = after[i - (k - 1)]
      BY <1>1, <1>2, <1>3, <1>4, <1>5, <2>2
    <3>3. after[i - (k - 1)] = q[k + (i - (k - 1))]
      BY <1>3, <3>1
    <3>4. QED
      BY <1>1, <2>2, <3>1, <3>2, <3>3
  <2>3. QED
    BY <1>1, <2>1, <2>2
<1>7. QED
  BY <1>1, <1>2, <1>3, <1>4, <1>5, <1>6

\* Erasing a session from a queue that has it at most once leaves the other
\* requests, in their order, and none of that session.
LEMMA WithoutWaiterRemoves ==
  ASSUME NEW h \in SUBSET Holder, NEW q \in Seq(Holder), OneEntry(h, q), NEW s
  PROVE  /\ WithoutWaiter(q, s) \in Seq(Holder)
         /\ OneEntry(h, WithoutWaiter(q, s))
         /\ Range(WithoutWaiter(q, s)) = {x \in Range(q) : x.session # s}
         /\ InOrder(WithoutWaiter(q, s), q)
<1> DEFINE L == Len(q)
<1>1. L \in Nat /\ DOMAIN q = 1..L /\ \A i \in 1..L : q[i] \in Holder
  OBVIOUS
<1>2. CASE ~\E i \in DOMAIN q : q[i].session = s
  <2>1. WithoutWaiter(q, s) = q
    BY <1>2 DEF WithoutWaiter
  <2>2. InOrder(q, q)
    <3> DEFINE old == [a \in DOMAIN q |-> a]
    <3>1. old \in [DOMAIN q -> DOMAIN q]
      OBVIOUS
    <3>2. QED
      BY <3>1 DEF InOrder
  <2>3. QED
    BY <1>2, <2>1, <2>2 DEF Range
<1>3. CASE \E i \in DOMAIN q : q[i].session = s
  <2> DEFINE k == CHOOSE i \in DOMAIN q : q[i].session = s
             Q == WithoutWaiter(q, s)
             old(i) == IF i < k THEN i ELSE i + 1
  <2>1. k \in 1..L /\ q[k].session = s
    BY <1>1, <1>3
  <2>2. Q = RemoveAt(q, k)
    BY <1>3 DEF WithoutWaiter
  <2> HIDE DEF k, Q
  <2>3. /\ Q \in Seq(Holder)
        /\ DOMAIN Q = 1..(L - 1)
        /\ \A i \in 1..(L - 1) : Q[i] = q[old(i)]
    <3>1. /\ RemoveAt(q, k) \in Seq(Holder)
          /\ Len(RemoveAt(q, k)) = L - 1
          /\ \A i \in 1..(L - 1) : RemoveAt(q, k)[i] = IF i < k THEN q[i] ELSE q[i + 1]
      BY <2>1, RemoveAtShifts
    <3>2. /\ Q \in Seq(Holder)
          /\ Len(Q) = L - 1
          /\ \A i \in 1..(L - 1) : Q[i] = IF i < k THEN q[i] ELSE q[i + 1]
      BY <2>2, <3>1
    <3>3. DOMAIN Q = 1..(L - 1)
      BY <3>2
    <3>4. \A i \in 1..(L - 1) : Q[i] = q[old(i)]
      BY <3>2
    <3>5. QED
      BY <3>2, <3>3, <3>4
  <2>4. \A i \in 1..(L - 1) : old(i) \in 1..L /\ old(i) # k
    BY <1>1, <2>1
  <2>5. \A i, j \in 1..(L - 1) : old(i) = old(j) => i = j
    BY <1>1, <2>1
  <2>6. \A j \in 1..L : j # k => \E i \in 1..(L - 1) : old(i) = j
    <3> SUFFICES ASSUME NEW j \in 1..L, j # k
                 PROVE  \E i \in 1..(L - 1) : old(i) = j
      OBVIOUS
    <3>1. CASE j < k
      BY <3>1, <1>1, <2>1
    <3>2. CASE j > k
      <4>1. j - 1 \in 1..(L - 1) /\ old(j - 1) = j
        BY <3>2, <1>1, <2>1
      <4>2. QED
        BY <4>1
    <3>3. QED
      BY <3>1, <3>2, <1>1, <2>1
  <2>7. \A j \in 1..L : q[j].session = s => j = k
    BY <1>1, <2>1 DEF OneEntry
  <2>a. \A i, j \in 1..(L - 1) : i < j => old(i) < old(j)
    BY <1>1, <2>1
  <2> HIDE DEF old, L
  <2>8. OneEntry(h, Q)
    <3>1. \A i, j \in DOMAIN Q : Q[i].session = Q[j].session => i = j
      BY <1>1, <2>3, <2>4, <2>5 DEF OneEntry
    <3>2. \A i \in DOMAIN Q : \A x \in h : x.session # Q[i].session
      BY <1>1, <2>3, <2>4 DEF OneEntry
    <3>3. QED
      BY <3>1, <3>2 DEF OneEntry
  <2>9. Range(Q) = {x \in Range(q) : x.session # s}
    <3>1. ASSUME NEW x \in Range(Q) PROVE x \in Range(q) /\ x.session # s
      BY <1>1, <2>3, <2>4, <2>7 DEF Range
    <3>2. ASSUME NEW x \in Range(q), x.session # s PROVE x \in Range(Q)
      <4>1. PICK j \in 1..L : q[j] = x
        BY <1>1 DEF Range
      <4>2. PICK i \in 1..(L - 1) : old(i) = j
        BY <4>1, <3>2, <2>1, <2>6
      <4>3. QED
        BY <4>1, <4>2, <2>3 DEF Range
    <3>3. QED
      BY <3>1, <3>2
  <2>10. InOrder(Q, q)
    <3> DEFINE f == [a \in DOMAIN Q |-> old(a)]
    <3>1. f \in [DOMAIN Q -> DOMAIN q]
      BY <1>1, <2>3, <2>4
    <3>2. /\ \A a \in DOMAIN Q : Q[a] = q[f[a]]
          /\ \A a, b \in DOMAIN Q : a < b => f[a] < f[b]
      BY <2>3, <2>a
    <3> HIDE DEF f
    <3>3. QED
      BY <3>1, <3>2 DEF InOrder
  <2>11. QED
    BY <2>3, <2>8, <2>9, <2>10 DEF Q
<1>4. QED
  BY <1>2, <1>3

\* A session that leaves a resource leaves it safe, before any promotion.
LEMMA WithoutHolderSafe ==
  ASSUME NEW h \in SUBSET Holder, NEW q, Alone(h), OneEntry(h, q), NEW s
  PROVE  /\ WithoutHolder(h, s) \in SUBSET Holder
         /\ Alone(WithoutHolder(h, s))
         /\ OneEntry(WithoutHolder(h, s), q)
BY DEF WithoutHolder, Alone, OneEntry

-----------------------------------------------------------------------------
\* The inductive invariant: the three properties of each resource hold
\* together, since each needs the others to survive a promotion.
Inv ==
  /\ TypeOK
  /\ ExclusiveExcludes
  /\ OneEntryPerSession
  /\ NoMissedPromotion

\* Inv, resource by resource.
ResourceOK(h, q) ==
  /\ h \in SUBSET Holder /\ q \in Seq(Holder)
  /\ Alone(h) /\ OneEntry(h, q) /\ Blocked(h, q)

\* The invariant speaks of one resource at a time.
LEMMA InvByResource ==
  Inv <=> TypeOK /\ \A r \in Resources : ResourceOK(holders[r], queue[r])
BY DEF Inv, TypeOK, ExclusiveExcludes, OneEntryPerSession, NoMissedPromotion,
       ResourceOK, Alone, OneEntry, Blocked, Holds

\* The same after a step.
LEMMA InvByResourceNext ==
  Inv' <=> TypeOK' /\ \A r \in Resources : ResourceOK(holders[r], queue[r])'
BY DEF Inv, TypeOK, ExclusiveExcludes, OneEntryPerSession, NoMissedPromotion,
       ResourceOK, Alone, OneEntry, Blocked, Holds

\* A session that leaves a resource, as a holder or from the queue, and the
\* promotions that follow, leave the resource safe.
LEMMA LeaveAndPromoteSafe ==
  ASSUME NEW h \in SUBSET Holder, NEW q \in Seq(Holder), ResourceOK(h, q), NEW s,
         NEW p, p = q \/ p = WithoutWaiter(q, s)
  PROVE  ResourceOK(PromotedHolders(WithoutHolder(h, s), p),
                    PromotedQueue(WithoutHolder(h, s), p))
<1> DEFINE g == WithoutHolder(h, s)
<1>1. p \in Seq(Holder) /\ OneEntry(h, p)
  BY WithoutWaiterRemoves DEF ResourceOK
<1>2. g \in SUBSET Holder /\ Alone(g) /\ OneEntry(g, p)
  BY <1>1, WithoutHolderSafe DEF ResourceOK
<1> HIDE DEF g
<1>3. PromotedQueue(g, p) \in Seq(Holder)
  BY <1>1, PromotedQueueIsTail
<1>4. QED
  BY <1>1, <1>2, <1>3, PromoteQueuedSafe DEF ResourceOK, g

\* The sessions promoted are among those that were waiting.
LEMMA PromotedAreWaiting ==
  ASSUME NEW h, NEW q \in Seq(Holder)
  PROVE  PromotedSessions(h, q) \in SUBSET Sessions
<1>1. Promotions(h, q) \in 0..Len(q)
  BY PromotionsLeast
<1>2. First(q, Promotions(h, q)) \in SUBSET Holder
  BY <1>1 DEF First
<1>3. QED
  BY <1>2 DEF PromotedSessions, Holder

\* Nothing is held or waited for at first.
LEMMA InvInit == Init => Inv
BY DEF Init, Inv, TypeOK, ExclusiveExcludes, OneEntryPerSession, NoMissedPromotion, Holds

\* A granted request is compatible with all holders, and nobody waits.
LEMMA AcquireGrantedPreserves ==
  ASSUME Inv, NEW c \in Callers, NEW r \in Resources, NEW s \in Sessions,
         NEW m \in Modes, AcquireGranted(c, r, s, m)
  PROVE  Inv'
<1> DEFINE x == [session |-> s, mode |-> m]
<1>1. x \in Holder /\ x.session = s /\ x.mode = m
  BY DEF Holder
<1>2. TypeOK'
  BY <1>1 DEF AcquireGranted, Inv, TypeOK
<1>3. ASSUME NEW t \in Resources PROVE ResourceOK(holders[t], queue[t])'
  <2>1. ResourceOK(holders[t], queue[t])
    BY InvByResource
  <2>2. CASE t # r
    BY <2>1, <2>2 DEF AcquireGranted, Inv, TypeOK
  <2>3. CASE t = r
    <3>1. holders'[t] = holders[t] \cup {x} /\ queue'[t] = <<>>
      BY <2>3 DEF AcquireGranted, Inv, TypeOK
    <3>2. \A y \in holders[t] : y.session # s /\ m = "Shared" /\ y.mode = "Shared"
      BY <2>3 DEF AcquireGranted, Holds, Compatible
    <3> HIDE DEF x
    <3>3. Alone(holders[t] \cup {x}) /\ OneEntry(holders[t] \cup {x}, <<>>)
      BY <1>1, <2>1, <3>2 DEF ResourceOK, Alone, OneEntry
    <3>4. QED
      BY <1>1, <2>1, <3>1, <3>3 DEF ResourceOK, Blocked
  <2>4. QED
    BY <2>2, <2>3
<1>4. QED
  BY <1>2, <1>3, InvByResourceNext

\* A queued request joins the end of the queue; its head stays blocked.
LEMMA AcquireQueuedPreserves ==
  ASSUME Inv, NEW c \in Callers, NEW r \in Resources, NEW s \in Sessions,
         NEW m \in Modes, AcquireQueued(c, r, s, m)
  PROVE  Inv'
<1> DEFINE x == [session |-> s, mode |-> m]
<1>1. x \in Holder /\ x.session = s /\ x.mode = m
  BY DEF Holder
<1>2. TypeOK'
  BY <1>1 DEF AcquireQueued, Inv, TypeOK
<1>3. ASSUME NEW t \in Resources PROVE ResourceOK(holders[t], queue[t])'
  <2>1. ResourceOK(holders[t], queue[t])
    BY InvByResource
  <2>2. CASE t # r
    BY <2>1, <2>2 DEF AcquireQueued, Inv, TypeOK
  <2>3. CASE t = r
    <3> DEFINE q == queue[t]
    <3>1. holders'[t] = holders[t] /\ queue'[t] = Append(q, x)
      BY <2>3 DEF AcquireQueued, Inv, TypeOK
    <3>2. /\ \A y \in holders[t] : y.session # s
          /\ \A i \in DOMAIN q : q[i].session # s
      BY <2>3 DEF AcquireQueued, Holds, Waits
    <3>3. q \in Seq(Holder)
      BY <2>1 DEF ResourceOK
    <3> HIDE DEF x, q
    <3>4. /\ Append(q, x) \in Seq(Holder)
          /\ DOMAIN q = 1..Len(q) /\ Len(q) \in Nat
          /\ DOMAIN Append(q, x) = 1..(Len(q) + 1)
          /\ \A i \in 1..Len(q) : Append(q, x)[i] = q[i]
          /\ Append(q, x)[Len(q) + 1] = x
      BY <1>1, <3>3, AppendProperties
    <3>5. OneEntry(holders[t], Append(q, x))
      BY <1>1, <2>1, <3>2, <3>4 DEF ResourceOK, OneEntry, q
    <3>6. Blocked(holders[t], Append(q, x))
      <4>1. CASE q = <<>>
        <5>1. Append(q, x)[1] = x
          BY <3>4, <4>1
        <5>2. ~Compatible(holders[t], m)
          BY <2>3, <4>1 DEF AcquireQueued, q
        <5>3. QED
          BY <1>1, <5>1, <5>2 DEF Blocked
      <4>2. CASE q # <<>>
        <5>1. Append(q, x)[1] = q[1]
          BY <3>3, <3>4, <4>2, EmptySeq
        <5>2. QED
          BY <2>1, <4>2, <5>1 DEF ResourceOK, Blocked, q
      <4>3. QED
        BY <4>1, <4>2
    <3>7. QED
      BY <2>1, <3>1, <3>4, <3>5, <3>6 DEF ResourceOK
  <2>4. QED
    BY <2>2, <2>3
<1>4. QED
  BY <1>2, <1>3, InvByResourceNext

\* After a release the queue is cut at the first request that is blocked.
LEMMA ReleasePreserves ==
  ASSUME Inv, NEW c \in Callers, NEW r \in Resources, NEW s \in Sessions,
         Release(c, r, s)
  PROVE  Inv'
<1> DEFINE h == WithoutHolder(holders[r], s)
           q == IF Holds(r, s) THEN queue[r] ELSE WithoutWaiter(queue[r], s)
<1>1. ResourceOK(holders[r], queue[r])
  BY InvByResource
<1>2. ResourceOK(PromotedHolders(h, q), PromotedQueue(h, q))
  BY <1>1, LeaveAndPromoteSafe DEF ResourceOK
<1>3. q \in Seq(Holder)
  BY <1>1, WithoutWaiterRemoves DEF ResourceOK
<1>4. /\ holders' = [holders EXCEPT ![r] = PromotedHolders(h, q)]
      /\ queue' = [queue EXCEPT ![r] = PromotedQueue(h, q)]
      /\ announcing' = [announcing EXCEPT ![c] = {r} \X PromotedSessions(h, q)]
      /\ told' = [told EXCEPT ![r] = @ \ {s}]
  BY DEF Release
<1> HIDE DEF h, q
<1>5. TypeOK'
  <2>1. PromotedSessions(h, q) \in SUBSET Sessions
    BY <1>3, PromotedAreWaiting
  <2>2. QED
    BY <1>2, <1>4, <2>1 DEF Inv, TypeOK, ResourceOK
<1>6. ASSUME NEW t \in Resources PROVE ResourceOK(holders[t], queue[t])'
  <2>1. ResourceOK(holders[t], queue[t])
    BY InvByResource
  <2>2. CASE t # r
    BY <1>4, <2>1, <2>2 DEF Inv, TypeOK
  <2>3. CASE t = r
    BY <1>2, <1>4, <2>3 DEF Inv, TypeOK
  <2>4. QED
    BY <2>2, <2>3
<1>7. QED
  BY <1>5, <1>6, InvByResourceNext

\* So it is in every queue when a session leaves all of them.
LEMMA ReleaseAllPreserves ==
  ASSUME Inv, NEW c \in Callers, NEW s \in Sessions, ReleaseAllForSession(c, s)
  PROVE  Inv'
<1> DEFINE h(r) == WithoutHolder(holders[r], s)
           q(r) == WithoutWaiter(queue[r], s)
           T    == Tracking(s)
<1>1. /\ holders' = [r \in Resources |->
                       IF r \in T THEN PromotedHolders(h(r), q(r)) ELSE holders[r]]
      /\ queue' = [r \in Resources |->
                     IF r \in T THEN PromotedQueue(h(r), q(r)) ELSE queue[r]]
      /\ announcing' = [announcing EXCEPT ![c] =
                          UNION {{r} \X PromotedSessions(h(r), q(r)) : r \in T}]
      /\ told' = [r \in Resources |-> told[r] \ {s}]
  BY DEF ReleaseAllForSession
<1>2. T \in SUBSET Resources
  BY DEF Tracking
<1>3. ASSUME NEW r \in Resources
      PROVE  /\ ResourceOK(PromotedHolders(h(r), q(r)), PromotedQueue(h(r), q(r)))
             /\ ResourceOK(holders[r], queue[r])
             /\ PromotedSessions(h(r), q(r)) \in SUBSET Sessions
  <2>1. ResourceOK(holders[r], queue[r])
    BY InvByResource
  <2>2. q(r) \in Seq(Holder)
    BY <2>1, WithoutWaiterRemoves DEF ResourceOK
  <2>3. QED
    BY <2>1, <2>2, LeaveAndPromoteSafe, PromotedAreWaiting DEF ResourceOK
<1> HIDE DEF h, q, T
<1>4. TypeOK'
  BY <1>1, <1>2, <1>3 DEF Inv, TypeOK, ResourceOK
<1>5. ASSUME NEW t \in Resources PROVE ResourceOK(holders[t], queue[t])'
  BY <1>1, <1>3
<1>6. QED
  BY <1>4, <1>5, InvByResourceNext

\* Telling subscribers changes no lease.
LEMMA AnnouncePreserves ==
  ASSUME Inv, NEW c \in Callers, Announce(c)
  PROVE  Inv'
<1>1. UNCHANGED <<holders, queue>>
  BY DEF Announce
<1>2. TypeOK'
  BY DEF Announce, Inv, TypeOK
<1>3. QED
  BY <1>1, <1>2 DEF Inv, ExclusiveExcludes, OneEntryPerSession, NoMissedPromotion, Holds

\* Every step keeps the invariant.
LEMMA InvNext == Inv /\ [Next]_vars => Inv'
<1> SUFFICES ASSUME Inv, [Next]_vars PROVE Inv'
  OBVIOUS
<1>1. CASE UNCHANGED vars
  BY <1>1 DEF vars, Inv, TypeOK, ExclusiveExcludes, OneEntryPerSession,
              NoMissedPromotion, Holds
<1>2. CASE Next
  BY <1>2, AcquireGrantedPreserves, AcquireQueuedPreserves, ReleasePreserves,
     ReleaseAllPreserves, AnnouncePreserves DEF Next
<1>3. QED
  BY <1>1, <1>2

\* Inv holds in every reachable state.
THEOREM Invariance == Spec => []Inv
BY InvInit, InvNext, PTL DEF Spec

\* Leases are safe for any number of sessions, resources and calling threads.
THEOREM TypeCorrect == Spec => []TypeOK
<1>1. Inv => TypeOK
  BY DEF Inv
<1>2. QED
  BY <1>1, Invariance, PTL

\* Mutual exclusion: PromoteQueued never admits a request next to an
\* Exclusive holder, nor an Exclusive request next to any holder.
THEOREM MutualExclusion == Spec => []ExclusiveExcludes
<1>1. Inv => ExclusiveExcludes
  BY DEF Inv
<1>2. QED
  BY <1>1, Invariance, PTL

\* No wake-up is lost: the oldest waiting request is always blocked.
THEOREM PromotionComplete == Spec => []NoMissedPromotion
<1>1. Inv => NoMissedPromotion
  BY DEF Inv
<1>2. QED
  BY <1>1, Invariance, PTL

\* A session is at most once among a resource's holders and waiters.
THEOREM UniqueEntries == Spec => []OneEntryPerSession
<1>1. Inv => OneEntryPerSession
  BY DEF Inv
<1>2. QED
  BY <1>1, Invariance, PTL

-----------------------------------------------------------------------------
\* Whoever becomes a holder is told, or about to be.
LEMMA NoSilentGrantNext ==
  ASSUME Inv, NoSilentGrant, [Next]_vars
  PROVE  NoSilentGrant'
<1> SUFFICES ASSUME NEW t \in Resources, NEW u \in Sessions, Holds(t, u)'
             PROVE  (u \in told[t] \/ \E d \in Callers : <<t, u>> \in announcing[d])'
  BY DEF NoSilentGrant
<1> USE DEF Inv, TypeOK
<1>1. Holds(t, u) => u \in told[t] \/ \E d \in Callers : <<t, u>> \in announcing[d]
  BY DEF NoSilentGrant
<1>2. ASSUME NEW c \in Callers, NEW r \in Resources, NEW s \in Sessions,
             NEW m \in Modes, AcquireGranted(c, r, s, m)
      PROVE  (u \in told[t] \/ \E d \in Callers : <<t, u>> \in announcing[d])'
  <2>1. /\ holders' = [holders EXCEPT ![r] = @ \cup {[session |-> s, mode |-> m]}]
        /\ told' = [told EXCEPT ![r] = @ \cup {s}] /\ announcing' = announcing
    BY <1>2 DEF AcquireGranted
  <2>2. Holds(t, u) \/ (t = r /\ u = s)
    BY <2>1 DEF Holds
  <2>3. CASE Holds(t, u)
    BY <1>1, <2>1, <2>3
  <2>4. CASE t = r /\ u = s
    BY <2>1, <2>4
  <2>5. QED
    BY <2>2, <2>3, <2>4
<1>3. ASSUME NEW c \in Callers, NEW r \in Resources, NEW s \in Sessions,
             NEW m \in Modes, AcquireQueued(c, r, s, m)
      PROVE  (u \in told[t] \/ \E d \in Callers : <<t, u>> \in announcing[d])'
  BY <1>1, <1>3 DEF AcquireQueued, Holds
<1>4. ASSUME NEW c \in Callers, NEW r \in Resources, NEW s \in Sessions, Release(c, r, s)
      PROVE  (u \in told[t] \/ \E d \in Callers : <<t, u>> \in announcing[d])'
  <2> DEFINE h == WithoutHolder(holders[r], s)
             q == IF Holds(r, s) THEN queue[r] ELSE WithoutWaiter(queue[r], s)
  <2>1. /\ holders' = [holders EXCEPT ![r] = PromotedHolders(h, q)]
        /\ announcing' = [announcing EXCEPT ![c] = {r} \X PromotedSessions(h, q)]
        /\ told' = [told EXCEPT ![r] = @ \ {s}]
        /\ announcing[c] = {}
    BY <1>4 DEF Release, Idle
  <2>2. \A y \in h : y \in holders[r] /\ y.session # s
    BY DEF WithoutHolder
  <2> HIDE DEF h, q
  <2>3. CASE t # r
    <3>1. Holds(t, u)
      BY <2>1, <2>3 DEF Holds
    <3>2. QED
      BY <1>1, <2>1, <2>3, <3>1
  <2>4. CASE t = r
    <3>1. PICK y \in PromotedHolders(h, q) : y.session = u
      BY <2>1, <2>4 DEF Holds
    <3>2. CASE y \in h
      <4>1. Holds(t, u) /\ u # s
        BY <2>2, <2>4, <3>1, <3>2 DEF Holds
      <4>2. QED
        BY <1>1, <2>1, <2>4, <4>1
    <3>3. CASE y \notin h
      <4>1. u \in PromotedSessions(h, q)
        BY <3>1, <3>3 DEF PromotedHolders, PromotedSessions
      <4>2. QED
        BY <2>1, <2>4, <4>1
    <3>4. QED
      BY <3>2, <3>3
  <2>5. QED
    BY <2>3, <2>4
<1>5. ASSUME NEW c \in Callers, NEW s \in Sessions, ReleaseAllForSession(c, s)
      PROVE  (u \in told[t] \/ \E d \in Callers : <<t, u>> \in announcing[d])'
  <2> DEFINE h(r) == WithoutHolder(holders[r], s)
             q(r) == WithoutWaiter(queue[r], s)
             T    == Tracking(s)
  <2>1. /\ holders' = [r \in Resources |->
                         IF r \in T THEN PromotedHolders(h(r), q(r)) ELSE holders[r]]
        /\ announcing' = [announcing EXCEPT ![c] =
                            UNION {{r} \X PromotedSessions(h(r), q(r)) : r \in T}]
        /\ told' = [r \in Resources |-> told[r] \ {s}]
        /\ announcing[c] = {}
    BY <1>5 DEF ReleaseAllForSession, Idle
  <2>2. /\ \A y \in h(t) : y \in holders[t] /\ y.session # s
        /\ Holds(t, s) => t \in T
    BY DEF WithoutHolder, Tracking
  <2> HIDE DEF h, q, T
  <2>3. CASE t \notin T
    <3>1. Holds(t, u) /\ u # s
      BY <2>1, <2>2, <2>3 DEF Holds
    <3>2. QED
      BY <1>1, <2>1, <3>1
  <2>4. CASE t \in T
    <3>1. PICK y \in PromotedHolders(h(t), q(t)) : y.session = u
      BY <2>1, <2>4 DEF Holds
    <3>2. CASE y \in h(t)
      <4>1. Holds(t, u) /\ u # s
        BY <2>2, <3>1, <3>2 DEF Holds
      <4>2. QED
        BY <1>1, <2>1, <4>1
    <3>3. CASE y \notin h(t)
      <4>1. u \in PromotedSessions(h(t), q(t))
        BY <3>1, <3>3 DEF PromotedHolders, PromotedSessions
      <4>2. <<t, u>> \in announcing'[c]
        BY <2>1, <2>4, <4>1
      <4>3. QED
        BY <4>2
    <3>4. QED
      BY <3>2, <3>3
  <2>5. QED
    BY <2>3, <2>4
<1>6. ASSUME NEW c \in Callers, Announce(c)
      PROVE  (u \in told[t] \/ \E d \in Callers : <<t, u>> \in announcing[d])'
  <2>1. PICK e \in announcing[c] :
          /\ announcing' = [announcing EXCEPT ![c] = @ \ {e}]
          /\ told' = [told EXCEPT ![e[1]] = @ \cup {e[2]}]
          /\ UNCHANGED <<holders, queue>>
    BY <1>6 DEF Announce
  <2>2. e \in Resources \X Sessions
    BY <2>1
  <2>3. u \in told[t] => u \in told'[t]
    BY <2>1, <2>2
  <2>4. ASSUME NEW d \in Callers, <<t, u>> \in announcing[d]
        PROVE  u \in told'[t] \/ <<t, u>> \in announcing'[d]
    BY <2>1, <2>2, <2>4
  <2>5. Holds(t, u)
    BY <2>1 DEF Holds
  <2>6. QED
    BY <1>1, <2>3, <2>4, <2>5
<1>7. CASE UNCHANGED vars
  BY <1>1, <1>7 DEF vars, Holds
<1>8. QED
  BY <1>2, <1>3, <1>4, <1>5, <1>6, <1>7 DEF Next

\* Every holder has been told, or is about to be by the thread that promoted
\* it, however the calls and the publish loops of the threads interleave.
THEOREM GrantsAnnounced == Spec => []NoSilentGrant
<1>1. Init => NoSilentGrant
  BY DEF Init, NoSilentGrant, Holds
<1>2. QED
  BY <1>1, NoSilentGrantNext, Invariance, PTL DEF Spec

-----------------------------------------------------------------------------
\* Promotions from what is left of a queue take its requests in order.
LEMMA PromotionsInOrder ==
  ASSUME NEW h, NEW q \in Seq(Holder), OneEntry(h, q),
         NEW p \in Seq(Holder), InOrder(p, q),
         NEW g, NEW x \in PromotedHolders(g, p), x \notin g,
         NEW i \in DOMAIN q, \A j \in 1..i : q[j] # x
  PROVE  q[i] \notin Range(PromotedQueue(g, p))
<1> DEFINE n == Promotions(g, p)
<1>1. n \in 0..Len(p) /\ Len(p) \in Nat /\ DOMAIN p = 1..Len(p)
  BY PromotionsLeast
<1>2. PICK k \in 1..n : p[k] = x
  BY DEF PromotedHolders, First
<1>3. PICK old \in [DOMAIN p -> DOMAIN q] :
        /\ \A a \in DOMAIN p : p[a] = q[old[a]]
        /\ \A a, b \in DOMAIN p : a < b => old[a] < old[b]
  BY DEF InOrder
<1>4. DOMAIN q \in SUBSET Nat
  OBVIOUS
<1>5. old[k] > i
  <2>1. k \in DOMAIN p /\ q[old[k]] = x /\ old[k] \in Nat /\ i \in Nat /\ old[k] >= 1
    BY <1>1, <1>2, <1>3, <1>4
  <2>2. old[k] \notin 1..i
    BY <2>1
  <2>3. QED
    BY <2>1, <2>2
<1>6. SUFFICES ASSUME q[i] \in Range(PromotedQueue(g, p)) PROVE FALSE
  OBVIOUS
<1>7. PICK b \in (n + 1)..Len(p) : p[b] = q[i]
  <2>1. /\ PromotedQueue(g, p) \in Seq(Holder)
        /\ Len(PromotedQueue(g, p)) = Len(p) - n
        /\ \A a \in 1..(Len(p) - n) : PromotedQueue(g, p)[a] = p[n + a]
    BY PromotedQueueIsTail
  <2> HIDE DEF n
  <2>2. PICK a \in 1..(Len(p) - n) : PromotedQueue(g, p)[a] = q[i]
    BY <1>6, <2>1, RangeEquality
  <2>3. n + a \in (n + 1)..Len(p) /\ p[n + a] = q[i]
    BY <1>1, <2>1, <2>2
  <2>4. QED
    BY <2>3
<1> HIDE DEF n
<1>8. b \in DOMAIN p /\ k \in DOMAIN p /\ k < b
  BY <1>1, <1>2, <1>7
<1>9. old[b] > old[k] /\ q[old[b]] = q[i]
  BY <1>3, <1>7, <1>8
<1>10. old[b] = i
  BY <1>3, <1>8, <1>9 DEF OneEntry
<1>11. QED
  BY <1>3, <1>4, <1>5, <1>8, <1>9, <1>10

\* A queue keeps its own order.
LEMMA InOrderItself ==
  ASSUME NEW q PROVE InOrder(q, q)
<1> DEFINE old == [a \in DOMAIN q |-> a]
<1>1. old \in [DOMAIN q -> DOMAIN q]
  OBVIOUS
<1>2. QED
  BY <1>1 DEF InOrder

Served(r) ==
  \A x \in holders'[r] \ holders[r] : \A i \in DOMAIN queue[r] :
    (\A j \in 1..i : queue[r][j] # x) => queue[r][i] \notin Range(queue'[r])

\* Requests are granted from the head of the queue.
LEMMA ServedNext ==
  ASSUME Inv, [Next]_vars, NEW t \in Resources
  PROVE  Served(t)
<1>1. ResourceOK(holders[t], queue[t])
  BY InvByResource
<1>2. ASSUME NEW h, NEW p, h \subseteq holders[t],
             p = queue[t] \/ \E s \in Sessions : p = WithoutWaiter(queue[t], s),
             holders'[t] = PromotedHolders(h, p), queue'[t] = PromotedQueue(h, p)
      PROVE  Served(t)
  <2>1. p \in Seq(Holder) /\ InOrder(p, queue[t])
    <3>1. CASE p = queue[t]
      BY <1>1, <3>1, InOrderItself DEF ResourceOK
    <3>2. CASE \E s \in Sessions : p = WithoutWaiter(queue[t], s)
      <4> DEFINE q == queue[t]
      <4>1. q \in Seq(Holder) /\ holders[t] \in SUBSET Holder /\ OneEntry(holders[t], q)
        BY <1>1 DEF ResourceOK
      <4> HIDE DEF q
      <4>2. \A s \in Sessions : /\ WithoutWaiter(q, s) \in Seq(Holder)
                                /\ InOrder(WithoutWaiter(q, s), q)
        BY <4>1, WithoutWaiterRemoves
      <4>3. QED
        BY <3>2, <4>2 DEF q
    <3>3. QED
      BY <1>2, <3>1, <3>2
  <2>2. SUFFICES ASSUME NEW x \in holders'[t] \ holders[t], NEW i \in DOMAIN queue[t],
                        \A j \in 1..i : queue[t][j] # x
                 PROVE  queue[t][i] \notin Range(queue'[t])
    BY DEF Served
  <2>3. x \notin h
    BY <1>2, <2>2
  <2>4. QED
    BY <1>1, <1>2, <2>1, <2>2, <2>3, PromotionsInOrder DEF ResourceOK
<1> USE DEF Inv, TypeOK
<1>3. CASE \E c \in Callers, r \in Resources, s \in Sessions, m \in Modes :
             AcquireGranted(c, r, s, m) \/ AcquireQueued(c, r, s, m)
  BY <1>1, <1>3 DEF AcquireGranted, AcquireQueued, Served, ResourceOK
<1>4. CASE \E c \in Callers, r \in Resources, s \in Sessions : Release(c, r, s)
  <2>1. PICK c \in Callers, r \in Resources, s \in Sessions : Release(c, r, s)
    BY <1>4
  <2>2. CASE t # r
    BY <2>1, <2>2 DEF Release, Served
  <2>3. CASE t = r
    <3> DEFINE h == WithoutHolder(holders[r], s)
               q == IF Holds(r, s) THEN queue[r] ELSE WithoutWaiter(queue[r], s)
    <3>1. holders'[t] = PromotedHolders(h, q) /\ queue'[t] = PromotedQueue(h, q)
      BY <2>1, <2>3 DEF Release
    <3>2. h \subseteq holders[t]
      BY <2>3 DEF WithoutHolder
    <3>3. q = queue[t] \/ \E u \in Sessions : q = WithoutWaiter(queue[t], u)
      BY <2>3
    <3> HIDE DEF h, q
    <3>4. QED
      BY <1>2, <3>1, <3>2, <3>3
  <2>4. QED
    BY <2>2, <2>3
<1>5. CASE \E c \in Callers, s \in Sessions : ReleaseAllForSession(c, s)
  <2>1. PICK c \in Callers, s \in Sessions : ReleaseAllForSession(c, s)
    BY <1>5
  <2> DEFINE h == WithoutHolder(holders[t], s)
             q == WithoutWaiter(queue[t], s)
  <2>2. \/ holders'[t] = PromotedHolders(h, q) /\ queue'[t] = PromotedQueue(h, q)
        \/ holders'[t] = holders[t]
    BY <2>1 DEF ReleaseAllForSession
  <2>3. h \subseteq holders[t]
    BY DEF WithoutHolder
  <2>4. \E u \in Sessions : q = WithoutWaiter(queue[t], u)
    OBVIOUS
  <2> HIDE DEF h, q
  <2>5. QED
    BY <1>2, <2>2, <2>3, <2>4 DEF Served
<1>6. CASE UNCHANGED holders
  BY <1>6 DEF Served
<1>7. QED
  BY <1>3, <1>4, <1>5, <1>6 DEF Next, Announce, vars

\* Requests are served first come, first served: no step grants a request
\* and leaves one that was queued before it waiting.
THEOREM FirstComeFirstServed == Spec => NoOvertaking
<1>1. Inv /\ [Next]_vars =>
        [\A r \in Resources : \A x \in holders'[r] \ holders[r] :
           \A i \in DOMAIN queue[r] :
             (\A j \in 1..i : queue[r][j] # x) => queue[r][i] \notin Range(queue'[r])]_vars
  BY ServedNext DEF Served
<1>2. QED
  BY <1>1, Invariance, PTL DEF Spec, NoOvertaking

-----------------------------------------------------------------------------

\* The requests waiting for each resource.
Waiting == [r \in Resources |-> Range(queue[r])]

\* Promotions split what was waiting into the new holders and those that
\* still wait, and leave no one waiting for a free resource.
LEMMA PromotionSplits ==
  ASSUME NEW h \in SUBSET Holder, NEW q \in Seq(Holder), Alone(h), OneEntry(h, q)
  PROVE  /\ h \subseteq PromotedHolders(h, q)
         /\ PromotedHolders(h, q) \subseteq h \cup Range(q)
         /\ Range(PromotedQueue(h, q)) = Range(q) \ PromotedHolders(h, q)
         /\ Range(PromotedQueue(h, q)) # {} => PromotedHolders(h, q) # {}
<1> DEFINE n == Promotions(h, q)
           H == PromotedHolders(h, q)
           Q == PromotedQueue(h, q)
<1>1. n \in 0..Len(q) /\ Len(q) \in Nat /\ DOMAIN q = 1..Len(q)
  BY PromotionsLeast
<1>2. Q \in Seq(Holder) /\ Len(Q) = Len(q) - n /\ \A i \in 1..(Len(q) - n) : Q[i] = q[n + i]
  BY PromotedQueueIsTail
<1>3. H = h \cup First(q, n)
  BY DEF PromotedHolders
<1>4. OneEntry(H, Q) /\ Blocked(H, Q)
  BY PromoteQueuedSafe
<1> HIDE DEF n, H, Q
<1>5. First(q, n) \subseteq Range(q)
  BY <1>1 DEF First, Range
<1>6. Range(Q) = {Q[i] : i \in 1..Len(Q)} /\ Range(q) = {q[i] : i \in 1..Len(q)}
  BY <1>2, RangeEquality
<1>7. ASSUME NEW x \in Range(Q) PROVE x \in Range(q) /\ x \notin H
  <2>1. PICK i \in 1..(Len(q) - n) : x = Q[i] /\ x = q[n + i]
    BY <1>1, <1>2, <1>6
  <2>2. n + i \in 1..Len(q)
    BY <1>1
  <2>3. i \in DOMAIN Q
    BY <1>1, <1>2
  <2>4. QED
    BY <1>4, <1>6, <2>1, <2>2, <2>3 DEF OneEntry
<1>8. ASSUME NEW x \in Range(q), x \notin H PROVE x \in Range(Q)
  <2>1. PICK i \in 1..Len(q) : x = q[i]
    BY <1>6
  <2>2. i \notin 1..n
    BY <1>3, <1>8, <2>1 DEF First
  <2>3. i - n \in 1..(Len(q) - n) /\ n + (i - n) = i
    BY <1>1, <2>2
  <2>4. QED
    BY <1>1, <1>2, <1>6, <2>1, <2>3
<1>9. Range(Q) # {} => H # {}
  <2>1. Range(Q) # {} => Q # <<>>
    BY <1>2, <1>6
  <2>2. QED
    BY <1>4, <2>1 DEF Blocked, Compatible
<1>10. QED
  BY <1>3, <1>5, <1>7, <1>8, <1>9 DEF H, Q

\* A session leaving one resource is an abstract hand-over.
LEMMA LeaveIsHandover ==
  ASSUME NEW r \in Resources, NEW s \in Sessions,
         ResourceOK(holders[r], queue[r]),
         NEW p, (p = queue[r] /\ ~Waits(r, s)) \/ p = WithoutWaiter(queue[r], s),
         holders'[r] = PromotedHolders(WithoutHolder(holders[r], s), p),
         queue'[r] = PromotedQueue(WithoutHolder(holders[r], s), p)
  PROVE  Locks!Handover(r, s)
<1> DEFINE q == queue[r]
           h == holders[r]
           g == WithoutHolder(h, s)
<1>1. h \in SUBSET Holder /\ q \in Seq(Holder) /\ Alone(h) /\ OneEntry(h, q)
  BY DEF ResourceOK
<1>2. holders'[r] = PromotedHolders(g, p) /\ queue'[r] = PromotedQueue(g, p)
  OBVIOUS
<1>3. g = {x \in h : x.session # s}
  BY DEF WithoutHolder
<1>4. /\ p \in Seq(Holder) /\ OneEntry(h, p)
      /\ Range(p) = {x \in Range(q) : x.session # s}
  <2>1. CASE p = queue[r] /\ ~Waits(r, s)
    BY <1>1, <2>1 DEF Waits, Range
  <2>2. CASE p = WithoutWaiter(queue[r], s)
    <3> HIDE DEF q, h
    <3>1. p = WithoutWaiter(q, s)
      BY <2>2 DEF q
    <3>2. QED
      BY <1>1, <3>1, WithoutWaiterRemoves
  <2>3. QED
    BY <2>1, <2>2
<1>5. Waiting[r] = Range(q) /\ Waiting'[r] = Range(queue'[r])
  BY DEF Waiting
<1> HIDE DEF q, h, g
<1>6. g \in SUBSET Holder /\ Alone(g) /\ OneEntry(g, p)
  BY <1>1, <1>4, WithoutHolderSafe DEF g
<1>7. Alone(PromotedHolders(g, p))
  BY <1>4, <1>6, PromoteQueuedSafe
<1>8. /\ g \subseteq PromotedHolders(g, p)
      /\ PromotedHolders(g, p) \subseteq g \cup Range(p)
      /\ Range(PromotedQueue(g, p)) = Range(p) \ PromotedHolders(g, p)
      /\ Range(PromotedQueue(g, p)) # {} => PromotedHolders(g, p) # {}
  BY <1>4, <1>6, PromotionSplits
<1>9. /\ Locks!Others(s, holders[r]) = g
      /\ Locks!Others(s, Waiting[r]) = Range(p)
      /\ Locks!Others(s, holders[r] \cup Waiting[r]) = g \cup Range(p)
  BY <1>3, <1>4, <1>5 DEF Locks!Others, h
<1>10. QED
  BY <1>2, <1>5, <1>7, <1>8, <1>9 DEF Locks!Handover, Locks!Admissible, Alone, Waiting

\* The ledger and the locks begin empty.
LEMMA InitRefines == Init => Locks!AInit
BY DEF Init, Locks!AInit, Range

\* A granted request is asked for and granted at once.
LEMMA AcquireGrantedRefines ==
  ASSUME Inv, NEW c \in Callers, NEW r \in Resources, NEW s \in Sessions,
         NEW m \in Modes, AcquireGranted(c, r, s, m)
  PROVE  Locks!Ask(r, [session |-> s, mode |-> m])
<1> DEFINE x == [session |-> s, mode |-> m]
<1>1. x.session = s /\ x.mode = m
  OBVIOUS
<1> HIDE DEF x
<1>2. /\ \A y \in holders[r] : y.session # s /\ m = "Shared" /\ y.mode = "Shared"
      /\ queue[r] = <<>> /\ queue' = queue
      /\ holders' = [holders EXCEPT ![r] = @ \cup {x}]
  BY DEF AcquireGranted, Holds, Compatible, x
<1>3. Range(queue[r]) = {}
  BY <1>2 DEF Range
<1>4. Locks!Admissible(holders[r] \cup {x})
  BY <1>1, <1>2 DEF Locks!Admissible, Inv, ExclusiveExcludes
<1>5. Locks!Of(x.session, holders[r] \cup Range(queue[r])) = {}
  BY <1>1, <1>2, <1>3 DEF Locks!Of
<1>6. Locks!Ask(r, x)
  BY <1>1, <1>2, <1>3, <1>4, <1>5 DEF Locks!Ask
<1>7. QED
  BY <1>6 DEF x

\* A queued request is asked for, and waits.
LEMMA AcquireQueuedRefines ==
  ASSUME Inv, NEW c \in Callers, NEW r \in Resources, NEW s \in Sessions,
         NEW m \in Modes, AcquireQueued(c, r, s, m)
  PROVE  Locks!Ask(r, [session |-> s, mode |-> m])
<1> DEFINE x == [session |-> s, mode |-> m]
<1>1. x.session = s /\ x \in Holder
  BY DEF Holder
<1> HIDE DEF x
<1>2. /\ \A y \in holders[r] : y.session # s
      /\ \A i \in DOMAIN queue[r] : queue[r][i].session # s
      /\ holders' = holders /\ queue' = [queue EXCEPT ![r] = Append(@, x)]
  BY DEF AcquireQueued, Holds, Waits, x
<1>3. queue \in [Resources -> Seq(Holder)] /\ ResourceOK(holders[r], queue[r])
  BY InvByResource DEF Inv, TypeOK
<1>4. holders[r] # {}
  BY <1>3 DEF AcquireQueued, ResourceOK, Blocked, Compatible
<1>5. Range(Append(queue[r], x)) = Range(queue[r]) \cup {x}
  <2> DEFINE q == queue[r]
             p == Append(q, x)
  <2>1. q \in Seq(Holder)
    BY <1>3
  <2> HIDE DEF q, p
  <2>2. /\ p \in Seq(Holder) /\ Len(p) = Len(q) + 1 /\ Len(q) \in Nat
        /\ \A i \in 1..Len(q) : p[i] = q[i]
        /\ p[Len(q) + 1] = x
    BY <1>1, <2>1, AppendProperties DEF p
  <2>3. Range(p) = {p[i] : i \in 1..Len(p)} /\ Range(q) = {q[i] : i \in 1..Len(q)}
    BY <2>1, <2>2, RangeEquality
  <2>4. Range(p) = Range(q) \cup {x}
    BY <2>2, <2>3
  <2>5. QED
    BY <2>4 DEF p, q
<1>6. Waiting' = [Waiting EXCEPT ![r] = @ \cup {x}]
  BY <1>2, <1>3, <1>5 DEF Waiting
<1>7. Locks!Of(x.session, holders[r] \cup Waiting[r]) = {}
  BY <1>1, <1>2 DEF Locks!Of, Waiting, Range
<1>8. Locks!Ask(r, x)
  BY <1>1, <1>2, <1>4, <1>6, <1>7 DEF Locks!Ask, Waiting
<1>9. QED
  BY <1>8 DEF x

\* A release, with the promotions it makes, is a leave.
LEMMA ReleaseRefines ==
  ASSUME Inv, NEW c \in Callers, NEW r \in Resources, NEW s \in Sessions,
         Release(c, r, s)
  PROVE  Locks!Leave(s)
<1> USE DEF Inv, TypeOK
<1> DEFINE h == WithoutHolder(holders[r], s)
           q == IF Holds(r, s) THEN queue[r] ELSE WithoutWaiter(queue[r], s)
<1>1. /\ holders' = [holders EXCEPT ![r] = PromotedHolders(h, q)]
      /\ queue' = [queue EXCEPT ![r] = PromotedQueue(h, q)]
  BY DEF Release
<1>2. ResourceOK(holders[r], queue[r])
  BY InvByResource
<1>3. Holds(r, s) => ~Waits(r, s)
  BY <1>2 DEF ResourceOK, OneEntry, Holds, Waits
<1>4. (q = queue[r] /\ ~Waits(r, s)) \/ q = WithoutWaiter(queue[r], s)
  BY <1>3
<1> HIDE DEF q
<1>5. Locks!Handover(r, s)
  BY <1>1, <1>2, <1>4, LeaveIsHandover
<1>6. \A t \in Resources : t # r => holders'[t] = holders[t] /\ Waiting'[t] = Waiting[t]
  BY <1>1 DEF Waiting
<1>7. holders' = [t \in Resources |-> holders'[t]] /\ Waiting' = [t \in Resources |-> Waiting'[t]]
  BY <1>1 DEF Waiting
<1>8. QED
  BY <1>5, <1>6, <1>7 DEF Locks!Leave, Waiting

\* So is the release of all leases of a session.
LEMMA ReleaseAllRefines ==
  ASSUME Inv, NEW c \in Callers, NEW s \in Sessions, ReleaseAllForSession(c, s)
  PROVE  Locks!Leave(s)
<1> USE DEF Inv, TypeOK
<1>1. holders' = [t \in Resources |-> holders'[t]] /\ Waiting' = [t \in Resources |-> Waiting'[t]]
  BY DEF ReleaseAllForSession, Waiting
<1>2. ASSUME NEW t \in Resources
      PROVE  \/ Locks!Handover(t, s)
             \/ holders'[t] = holders[t] /\ Waiting'[t] = Waiting[t]
  <2> DEFINE q == WithoutWaiter(queue[t], s)
  <2>1. ResourceOK(holders[t], queue[t])
    BY InvByResource
  <2>2. CASE t \in Tracking(s)
    <3>1. /\ holders'[t] = PromotedHolders(WithoutHolder(holders[t], s), q)
          /\ queue'[t] = PromotedQueue(WithoutHolder(holders[t], s), q)
      BY <2>2 DEF ReleaseAllForSession
    <3>2. QED
      BY <2>1, <3>1, LeaveIsHandover
  <2>3. CASE t \notin Tracking(s)
    BY <2>3 DEF ReleaseAllForSession, Waiting
  <2>4. QED
    BY <2>2, <2>3
<1>3. QED
  BY <1>1, <1>2 DEF Locks!Leave, Waiting

\* Every step of the ledger is one of the locks, or none.
LEMMA NextRefines == Inv /\ [Next]_vars => [Locks!ANext]_<<holders, Waiting>>
<1> SUFFICES ASSUME Inv, [Next]_vars
             PROVE  Locks!ANext \/ UNCHANGED <<holders, Waiting>>
  OBVIOUS
<1>1. ASSUME NEW s \in Sessions, NEW m \in Modes
      PROVE  [session |-> s, mode |-> m] \in Locks!Request
  BY DEF Locks!Request, Modes
<1>2. CASE UNCHANGED vars
  BY <1>2 DEF vars, Waiting
<1>3. CASE \E c \in Callers, r \in Resources, s \in Sessions, m \in Modes :
             AcquireGranted(c, r, s, m) \/ AcquireQueued(c, r, s, m)
  BY <1>1, <1>3, AcquireGrantedRefines, AcquireQueuedRefines DEF Locks!ANext
<1>4. CASE \E c \in Callers, r \in Resources, s \in Sessions : Release(c, r, s)
  BY <1>4, ReleaseRefines DEF Locks!ANext
<1>5. CASE \E c \in Callers, s \in Sessions : ReleaseAllForSession(c, s)
  BY <1>5, ReleaseAllRefines DEF Locks!ANext
<1>6. CASE \E c \in Callers : Announce(c)
  BY <1>6 DEF Announce, Waiting
<1>7. QED
  BY <1>2, <1>3, <1>4, <1>5, <1>6 DEF Next

\* The ledger is an implementation of shared/exclusive locks, for any
\* sessions, resources and callers.
THEOREM LedgerImplementsLocks == Spec => ImplementsLocks
<1>1. Inv /\ [Next]_vars => [Locks!ANext]_Locks!avars
  BY NextRefines DEF Locks!avars, Waiting
<1>2. QED
  BY <1>1, InitRefines, Invariance, PTL DEF Spec, ImplementsLocks, Locks!ASpec

-----------------------------------------------------------------------------
\* The sessions with an entry on r: what Tracking says, from the resource.
LEMMA TrackingByEntry ==
  ASSUME TypeOK, NEW s
  PROVE  Tracking(s) = {r \in Resources :
                          \E x \in holders[r] \cup Range(queue[r]) : x.session = s}
<1>1. ASSUME NEW r \in Resources
      PROVE  Waits(r, s) <=> \E x \in Range(queue[r]) : x.session = s
  BY DEF Waits, Range
<1>2. QED
  BY <1>1 DEF Tracking, Holds

\* After a step, a session is tracked where it has an entry.
LEMMA TrackingByEntryNext ==
  ASSUME TypeOK', NEW s
  PROVE  Tracking(s)' = {r \in Resources :
                           \E x \in holders'[r] \cup Range(queue'[r]) : x.session = s}
<1>1. ASSUME NEW r \in Resources
      PROVE  Waits(r, s)' <=> \E x \in Range(queue'[r]) : x.session = s
  BY DEF Waits, Range
<1>2. QED
  BY <1>1 DEF Tracking, Holds

\* A session that leaves brings no entry in, and its own are gone when both
\* its lease and its request were erased.
LEMMA LeaveBringsNothing ==
  ASSUME NEW h \in SUBSET Holder, NEW q \in Seq(Holder), ResourceOK(h, q), NEW s,
         NEW p, p = q \/ p = WithoutWaiter(q, s),
         NEW x \in PromotedHolders(WithoutHolder(h, s), p)
                     \cup Range(PromotedQueue(WithoutHolder(h, s), p))
  PROVE  /\ x \in h \cup Range(q)
         /\ p = WithoutWaiter(q, s) => x.session # s
<1> DEFINE g == WithoutHolder(h, s)
<1>1. /\ WithoutWaiter(q, s) \in Seq(Holder) /\ OneEntry(h, WithoutWaiter(q, s))
      /\ Range(WithoutWaiter(q, s)) = {y \in Range(q) : y.session # s}
  BY WithoutWaiterRemoves DEF ResourceOK
<1>2. p \in Seq(Holder) /\ OneEntry(h, p) /\ Range(p) \subseteq Range(q)
  BY <1>1 DEF ResourceOK
<1>3. g \in SUBSET Holder /\ Alone(g) /\ OneEntry(g, p)
  BY <1>2, WithoutHolderSafe DEF ResourceOK
<1>4. x \in g \cup Range(p)
  <2> HIDE DEF g
  <2>1. QED
    BY <1>2, <1>3, PromotionSplits DEF g
<1>5. QED
  BY <1>1, <1>2, <1>4 DEF WithoutHolder

\* A request of one session changes nobody else's resources.
LEMMA AcquireTracks ==
  ASSUME Inv, NEW c \in Callers, NEW r \in Resources, NEW s \in Sessions, NEW m \in Modes,
         AcquireGranted(c, r, s, m) \/ AcquireQueued(c, r, s, m), NEW u, u # s
  PROVE  Tracking(u)' = Tracking(u)
<1> DEFINE x == [session |-> s, mode |-> m]
<1>1. x \in Holder /\ x.session = s
  BY DEF Holder
<1>2. TypeOK /\ TypeOK'
  BY AcquireGrantedPreserves, AcquireQueuedPreserves DEF Inv
<1>3. \/ holders' = [holders EXCEPT ![r] = @ \cup {x}] /\ queue' = queue
      \/ holders' = holders /\ queue' = [queue EXCEPT ![r] = Append(@, x)]
  BY DEF AcquireGranted, AcquireQueued
<1>4. ASSUME NEW t \in Resources
      PROVE  (\E y \in holders[t] \cup Range(queue[t]) : y.session = u)
               <=> (\E y \in holders'[t] \cup Range(queue'[t]) : y.session = u)
  <2>1. queue[t] \in Seq(Holder) /\ holders[t] \in SUBSET Holder
    BY <1>2 DEF TypeOK
  <2>2. Range(Append(queue[t], x)) = Range(queue[t]) \cup {x}
    <3> DEFINE q == queue[t]
    <3>1. q \in Seq(Holder) /\ Append(q, x) \in Seq(Holder)
      BY <1>1, <2>1
    <3> HIDE DEF q, x
    <3>2. /\ Range(Append(q, x)) = {Append(q, x)[i] : i \in 1..Len(Append(q, x))}
          /\ Range(q) = {q[i] : i \in 1..Len(q)}
      BY <3>1, RangeEquality
    <3>3. /\ Len(q) \in Nat /\ Len(Append(q, x)) = Len(q) + 1
          /\ \A i \in 1..Len(q) : Append(q, x)[i] = q[i]
          /\ Append(q, x)[Len(q) + 1] = x
      BY <3>1
    <3>4. QED
      BY <3>2, <3>3 DEF q
  <2>3. \/ holders'[t] = holders[t] /\ queue'[t] = queue[t]
        \/ holders'[t] = holders[t] \cup {x} /\ queue'[t] = queue[t]
        \/ holders'[t] = holders[t] /\ queue'[t] = Append(queue[t], x)
    BY <1>2, <1>3 DEF TypeOK
  <2> HIDE DEF x
  <2>4. QED
    BY <1>1, <2>2, <2>3
<1>5. QED
  BY <1>2, <1>4, TrackingByEntry, TrackingByEntryNext

\* A release puts nobody on a resource.
LEMMA ReleaseTracks ==
  ASSUME Inv, NEW c \in Callers, NEW r \in Resources, NEW s \in Sessions, Release(c, r, s),
         NEW u
  PROVE  Tracking(u)' \subseteq Tracking(u)
<1> DEFINE h == WithoutHolder(holders[r], s)
           q == IF Holds(r, s) THEN queue[r] ELSE WithoutWaiter(queue[r], s)
<1>1. TypeOK /\ TypeOK'
  BY ReleasePreserves DEF Inv
<1>2. \A t \in Resources : ResourceOK(holders[t], queue[t])
  BY InvByResource
<1>3. /\ holders' = [holders EXCEPT ![r] = PromotedHolders(h, q)]
      /\ queue' = [queue EXCEPT ![r] = PromotedQueue(h, q)]
  BY DEF Release
<1>4. ASSUME NEW x \in PromotedHolders(h, q) \cup Range(PromotedQueue(h, q))
      PROVE  x \in holders[r] \cup Range(queue[r])
  BY <1>2, <1>4, LeaveBringsNothing DEF ResourceOK
<1>5. ASSUME NEW t \in Resources, NEW x \in holders'[t] \cup Range(queue'[t])
      PROVE  x \in holders[t] \cup Range(queue[t])
  <2> HIDE DEF h, q
  <2>1. QED
    BY <1>1, <1>3, <1>4, <1>5 DEF TypeOK
<1>6. QED
  BY <1>1, <1>5, TrackingByEntry, TrackingByEntryNext

\* ReleaseAllForSession leaves the session without an entry anywhere.
LEMMA ReleaseAllForgets ==
  ASSUME Inv, NEW c \in Callers, NEW s \in Sessions, ReleaseAllForSession(c, s), NEW u
  PROVE  /\ Tracking(s)' = {}
         /\ Tracking(u)' \subseteq Tracking(u)
<1> DEFINE h(r) == WithoutHolder(holders[r], s)
           q(r) == WithoutWaiter(queue[r], s)
           T    == Tracking(s)
<1>1. TypeOK /\ TypeOK'
  BY ReleaseAllPreserves DEF Inv
<1>2. \A t \in Resources : ResourceOK(holders[t], queue[t])
  BY InvByResource
<1>3. /\ holders' = [r \in Resources |->
                       IF r \in T THEN PromotedHolders(h(r), q(r)) ELSE holders[r]]
      /\ queue' = [r \in Resources |->
                     IF r \in T THEN PromotedQueue(h(r), q(r)) ELSE queue[r]]
  BY DEF ReleaseAllForSession
<1>4. ASSUME NEW r \in Resources,
             NEW x \in PromotedHolders(h(r), q(r)) \cup Range(PromotedQueue(h(r), q(r)))
      PROVE  x \in holders[r] \cup Range(queue[r]) /\ x.session # s
  BY <1>2, <1>4, LeaveBringsNothing DEF ResourceOK
<1>5. ASSUME NEW r \in Resources, r \notin T, NEW x \in holders[r] \cup Range(queue[r])
      PROVE  x.session # s
  BY <1>1, <1>5, TrackingByEntry
<1>6. ASSUME NEW r \in Resources, NEW x \in holders'[r] \cup Range(queue'[r])
      PROVE  x \in holders[r] \cup Range(queue[r]) /\ x.session # s
  <2> HIDE DEF h, q, T
  <2>1. QED
    BY <1>3, <1>4, <1>5, <1>6
<1>7. QED
  BY <1>1, <1>6, TrackingByEntry, TrackingByEntryNext

=============================================================================
