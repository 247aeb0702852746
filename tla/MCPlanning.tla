----------------------------- MODULE MCPlanning -----------------------------
(* A small project: two phases, a session and executors beside each other.   *)
EXTENDS PlanningClaims

CONSTANTS a, b
TwoPhases == <<a, b>>
Symmetry == Permutations(Executors)
=============================================================================
