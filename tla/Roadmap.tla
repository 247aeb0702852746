------------------------------ MODULE Roadmap ------------------------------
(* What the planning tools read in ROADMAP.md and in the names of the phase  *)
(* directories, and how they edit the text.  Numbers are of the forms n and  *)
(* n.d; the progress table and the Plans: counts, which repeat the disk and  *)
(* are read by no command, are left out.                                     *)
EXTENDS Integers, Sequences, FiniteSets, SequencesExt, FiniteSetsExt

CONSTANTS Names,     \* descriptions of phases, and their slugs
          MaxInt,    \* bound on the integer part of a phase number
          MaxDec,    \* bound on the decimal part
          MaxPlans   \* bound on the plans of a phase

ASSUME RoadmapAssumption ==
    /\ MaxInt \in 1 .. 9    \* above, "Phase 1" is a prefix of "Phase 10"
    /\ MaxDec \in 1 .. 9
    /\ MaxPlans \in Nat \ {0}

Numbers == (1 .. MaxInt) \X (0 .. MaxDec)   \* <<3, 0>> is phase 3, <<3, 1>> phase 3.1
Prep == {"none", "context", "research"}     \* what preceded the plans
Dirs == [num : Numbers, name : Names, prep : Prep,
         plans : 0 .. MaxPlans, sums : 0 .. MaxPlans]
NewDir(num, name) == [num |-> num, name |-> name, prep |-> "none", plans |-> 0, sums |-> 0]

\* A number as it is written or typed: 2 or 02, 2.1 or 02.1.
Refs == [num : Numbers, pad : BOOLEAN]
IsDecimal(num) == num[2] # 0
\* Headings and checkboxes: integers come from the template and phase add,
\* without a zero; decimals from phase insert, with it.
Written(num) == [num |-> num, pad |-> IsDecimal(num)]

NoDep == [num |-> <<0, 0>>, pad |-> TRUE]    \* "Nothing (first phase)", no number
\* tick is the number its checkbox names; listed tells a checkbox of the list of
\* phases from the line "- [ ] TBD (run /gsd-plan-phase N ..." of added phases.
NewSection(num, name, dep, listed) ==
    [num |-> num, name |-> name, dep |-> dep, box |-> "open", tick |-> num, listed |-> listed]
Sections == [num : Numbers, name : Names, box : {"none", "open", "done"},
             dep : [num : (0 .. MaxInt) \X (0 .. MaxDec), pad : BOOLEAN],
             tick : Numbers, listed : BOOLEAN]
FromTemplate(names) ==
    [i \in DOMAIN names |-> NewSection(<<i, 0>>, names[i],
        IF i = 1 THEN NoDep ELSE [num |-> <<i - 1, 0>>, pad |-> FALSE], TRUE)]

----------------------------------------------------------------------------
(* Looking up.                                                               *)

Below(a, b) == a[1] < b[1] \/ (a[1] = b[1] /\ a[2] < b[2])

\* readdir has an order of its own: here the opposite one.
FirstRead(ds) == CHOOSE d \in ds : \A e \in ds : ~Below(d.num, e.num)
FirstSorted(ds) == CHOOSE d \in ds : \A e \in ds : ~Below(e.num, d.num)
FirstOf(ds) == IF ds = {} THEN {} ELSE {FirstSorted(ds)}

\* A directory is found when its name starts with the padded number.
StartsWith(d, num) == d.num = num \/ (~IsDecimal(num) /\ d.num[1] = num[1])
\* VARIANT, for the mutation runs: the directories are not sorted.
SearchPhaseUnsorted(ds, num) ==
    LET hits == {d \in ds : StartsWith(d, num)} IN IF hits = {} THEN {} ELSE {FirstRead(hits)}
SearchPhase(ds, num) == FirstOf({d \in ds : StartsWith(d, num)})
\* With the hyphen after it, the number is the whole number.
ExactDirs(ds, num) == {d \in ds : d.num = num}

Heading(R, ref) == {i \in DOMAIN R : Written(R[i].num) = ref}
Boxes(R, ref) == {i \in DOMAIN R : R[i].box # "none" /\ Written(R[i].tick) = ref}
Numbered(R) == {R[i].num : i \in DOMAIN R}
InMilestone(R, d) == R = <<>> \/ d.num \in Numbered(R)

NextInteger(R) == 1 + Max({0} \cup {n[1] : n \in Numbered(R)})
\* VARIANT, for the mutation runs: only the headings are looked at.
NextDecimalAlways(ds, n) == 1
NextDecimal(ds, n) == 1 + Max({0} \cup {d.num[2] : d \in {d \in ds : d.num[1] = n}})

----------------------------------------------------------------------------
(* Editing.                                                                  *)

\* VARIANT, for the mutation runs: a second completion clears the box.
TickToggle(R, ref) ==
    LET boxes == Boxes(R, ref)
    IN  IF boxes = {} THEN R
        ELSE [R EXCEPT ![Min(boxes)].box = IF @ = "open" THEN "done" ELSE "open"]
\* Checks the first box that is open and names the phase.
Tick(R, ref) ==
    LET open == {i \in Boxes(R, ref) : R[i].box = "open"}
    IN  IF open = {} THEN R ELSE [R EXCEPT ![Min(open)].box = "done"]

AddSection(R, name) ==
    LET n == NextInteger(R)
    IN  Append(R, NewSection(<<n, 0>>, name, [num |-> <<n - 1, 0>>, pad |-> FALSE], FALSE))

\* The new section comes before the heading that follows that of its base.
InsertSection(R, ref, num, name) ==
    LET i == Min({i \in DOMAIN R : R[i].num = ref.num})
    IN  InsertAt(R, i + 1, NewSection(num, name, ref, FALSE))

\* VARIANT, for the mutation runs: the loop goes one number too far.
CollapseTooFar(num, n) == IF ~IsDecimal(num) /\ num[1] > n THEN <<n - 1, 0>> ELSE num
\* The loop from 99 down replaces N by N - 1, and finds what it wrote itself at
\* the next N: every later integer ends as the removed one.
Collapse(num, n) == IF ~IsDecimal(num) /\ num[1] > n THEN <<n, 0>> ELSE num
RenumberAfter(R, n) ==
    [i \in DOMAIN R |->
       [R[i] EXCEPT !.num = Collapse(@, n),
                    !.tick = IF R[i].listed THEN Collapse(@, n) ELSE @,
                    !.dep.num = IF R[i].dep.pad THEN @ ELSE Collapse(@, n)]]

RemoveSection(R, ref) ==
    LET unticked == [i \in DOMAIN R |->
                       IF i \in Boxes(R, ref) THEN [R[i] EXCEPT !.box = "none"] ELSE R[i]]
        named == Heading(R, ref)
        rest == IF named = {} THEN unticked ELSE RemoveAt(unticked, Min(named))
    IN  IF IsDecimal(ref.num) THEN rest ELSE RenumberAfter(rest, ref.num[1])

\* Directories that phase remove renames, and their new numbers.
Later(ds, num) == {d \in ds : IF IsDecimal(num)
                                THEN d.num[1] = num[1] /\ d.num[2] > num[2]
                                ELSE d.num[1] > num[1]}
Lowered(num, removed) == IF IsDecimal(removed) THEN <<num[1], num[2] - 1>>
                                               ELSE <<num[1] - 1, num[2]>>
============================================================================
