----------------------------- MODULE MCWorkspace -----------------------------
(* Constants of the model-checked instances of Workspace.                     *)
EXTENDS Workspace, TLC

CONSTANTS m, w, p1, p2, k1, cd
Started == {{}, {"ROADMAP", "STATE"}}
\* Three of the six combinations of files and settings bound the instance; the
\* project that has begun has the settings loadConfig has to write twice.
MCInit == Init /\ (root # {} <=> (IsJson /\ config.multi))
MCSpec == MCInit /\ [][Next]_vars
Symmetry == Permutations(Names) \cup Permutations(Procs)
=============================================================================
