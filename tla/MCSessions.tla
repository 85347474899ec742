----------------------------- MODULE MCSessions -----------------------------
(***************************************************************************)
(* Sessions for TLC: sessions, adapters, resources and the threads of one  *)
(* role are interchangeable.                                               *)
(***************************************************************************)
EXTENDS Sessions, TLC

Symmetry == Permutations(SessionIds) \cup Permutations(Adapters)
              \cup Permutations(Users) \cup Permutations(Pollers)
=============================================================================
