-------------------------- MODULE MCSharedContext --------------------------
(***************************************************************************)
(* Model-checking instance of SharedContext.                               *)
(***************************************************************************)
EXTENDS SharedContext, TLC

Symmetry ==
  Permutations(HealthThreads) \cup Permutations(StatsThreads) \cup Permutations(RequestThreads)
=============================================================================
