-------------------------- MODULE MCResourceLeases --------------------------
(***************************************************************************)
(* ResourceLeases for TLC: the constants are sets of model values.  There  *)
(* is no symmetry set, as a liveness property is checked.  A behaviour has *)
(* one of three scopes, each small in another respect: one caller with     *)
(* three sessions and two resources; two callers, that publish, acquire    *)
(* and release between each other's unlock and publication, with three     *)
(* sessions and one resource; two callers with two sessions and two        *)
(* resources.                                                              *)
(***************************************************************************)
EXTENDS ResourceLeases

CONSTANTS s1, s2, s3, r1, r2, c1, c2

VARIABLE scope

Scopes ==
  {[callers |-> {c1}, sessions |-> {s1, s2, s3}, resources |-> {r1, r2}],
   [callers |-> {c1, c2}, sessions |-> {s1, s2, s3}, resources |-> {r1}],
   [callers |-> {c1, c2}, sessions |-> {s1, s2}, resources |-> {r1, r2}]}

InitScope == scope \in Scopes /\ Init

NextScope ==
  /\ UNCHANGED scope
  /\ \E c \in scope.callers :
       \/ \E r \in scope.resources, s \in scope.sessions :
            \/ \E m \in Modes : AcquireGranted(c, r, s, m) \/ AcquireQueued(c, r, s, m)
            \/ Release(c, r, s)
       \/ \E s \in scope.sessions : ReleaseAllForSession(c, s)
       \/ Announce(c)

\* The fairness of FairSpec, for the callers of the scope.
SpecScope ==
  /\ InitScope /\ [][NextScope]_<<scope, vars>>
  /\ \A c \in Callers : WF_vars(Announce(c))
  /\ \A r \in Resources, s \in Sessions :
       SF_vars(Holds(r, s) /\ \E c \in scope.callers : Release(c, r, s))
=============================================================================
