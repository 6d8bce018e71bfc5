--------------------------- MODULE MCGuardedGraph ---------------------------
(* GuardedGraph for TLC; callers are interchangeable. *)
EXTENDS GuardedGraph, TLC

CallerSymmetry == Permutations(Callers)

=============================================================================
