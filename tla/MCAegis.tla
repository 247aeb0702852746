------------------------------ MODULE MCAegis -------------------------------
(***************************************************************************)
(* Small instances of the whole system.  Symmetry only serves the runs     *)
(* that check no liveness.                                                 *)
(***************************************************************************)
EXTENDS AegisClaims, TLC

Symmetry == Permutations(Jobs) \cup Permutations(Keys)
            \cup Permutations(Requests) \cup Permutations(Children)
=============================================================================
