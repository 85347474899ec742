------------------------ MODULE SharedExclusiveLocks ------------------------
(***************************************************************************)
(* What the lease ledger promises its clients, without queues, callers or  *)
(* events: each resource has holders that may hold together and a set of   *)
(* waiting requests, nobody is admitted against the modes, and nobody      *)
(* waits for a resource that is free.                                      *)
(***************************************************************************)
EXTENDS Naturals

CONSTANTS Sessions, Resources

VARIABLES
  held,      \* held[r]: the requests that hold r
  waiting    \* waiting[r]: the requests that wait for r

avars == <<held, waiting>>

Request == [session : Sessions, mode : {"Shared", "Exclusive"}]

\* Requests that may hold one resource together.
Admissible(S) ==
  \A x, y \in S : x # y => x.mode = "Shared" /\ y.mode = "Shared"

Of(s, S)     == {x \in S : x.session = s}
Others(s, S) == {x \in S : x.session # s}

AInit ==
  /\ held    = [r \in Resources |-> {}]
  /\ waiting = [r \in Resources |-> {}]

\* A session asks for a resource it has no part in: it holds it at once when
\* nobody waits and the modes allow it, and otherwise waits for a holder.
Ask(r, x) ==
  /\ Of(x.session, held[r] \cup waiting[r]) = {}
  /\ \/ /\ waiting[r] = {} /\ Admissible(held[r] \cup {x})
        /\ held' = [held EXCEPT ![r] = @ \cup {x}]
        /\ UNCHANGED waiting
     \/ /\ held[r] # {}
        /\ waiting' = [waiting EXCEPT ![r] = @ \cup {x}]
        /\ UNCHANGED held

\* After session s has left r some of those that waited hold it, and if
\* some still wait then somebody holds it.
Handover(r, s) ==
  /\ Others(s, held[r]) \subseteq held'[r]
  /\ held'[r] \subseteq Others(s, held[r] \cup waiting[r])
  /\ waiting'[r] = Others(s, waiting[r]) \ held'[r]
  /\ Admissible(held'[r])
  /\ waiting'[r] # {} => held'[r] # {}

\* A session leaves one resource or several, and has no part in them then.
Leave(s) ==
  /\ held' = [r \in Resources |-> held'[r]]
  /\ waiting' = [r \in Resources |-> waiting'[r]]
  /\ \A r \in Resources :
       \/ Handover(r, s)
       \/ held'[r] = held[r] /\ waiting'[r] = waiting[r]

ANext ==
  \/ \E r \in Resources, x \in Request : Ask(r, x)
  \/ \E s \in Sessions : Leave(s)

ASpec == AInit /\ [][ANext]_avars
=============================================================================
