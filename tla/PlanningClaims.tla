--------------------------- MODULE PlanningClaims ---------------------------
(* What a comment of the planning tools says of them and they do not do.     *)
EXTENDS Reports

ByOne(num, removed) == IF num[1] > removed[1] THEN <<num[1] - 1, num[2]>> ELSE num
Integers(R) == {n \in Numbered(R) : ~IsDecimal(n)}

\* "Remove a phase section from ROADMAP.md and renumber all subsequent integer phases."
\* (phase.cjs:537), "removing phase 5 -> phase 6 becomes 5, phase 7 becomes 6" (phase.cjs:498):
\* what phase remove writes to ROADMAP.md numbers the phases after an integer one by one
\* less than before, as their directories.
RemovalRenumbersByOne ==
    [][/\ Doing("excise") /\ ~IsDecimal(Now.ref.num) /\ Heading(roadmap, Now.ref) # {}
       /\ Cardinality(Numbered(roadmap)) = Len(roadmap)
       /\ todo' \notin {todo, <<>>}
       => Integers(Head(todo').text)
            = {ByOne(n, Now.ref.num) : n \in Integers(roadmap) \ {Now.ref.num}}]_vars
=============================================================================
