------------------------------- MODULE Reports ------------------------------
(* The commands that only read: each goes through ROADMAP.md and the phase   *)
(* directories in its own way, and workflows act on what they answer.        *)
EXTENDS Phases

\* The directories that answer for a section: the first that readdir gives.
\* VARIANT, for the mutation runs: the hyphen after the number is not looked for.
DirOfPrefix(num) == LET ds == {d \in dirs : StartsWith(d, num)}
                    IN  IF ds = {} THEN {} ELSE {FirstRead(ds)}
DirOf(num) == LET ds == ExactDirs(dirs, num) IN IF ds = {} THEN {} ELSE {FirstRead(ds)}
\* The files that are counted, each with its directory.
PlansOf(ds) == {file \in ds \X (1 .. MaxPlans) : file[2] <= file[1].plans}
SummariesOf(ds) == {file \in ds \X (1 .. MaxPlans) : file[2] <= file[1].sums}
Finished(d) == d.sums >= d.plans /\ d.plans > 0

DiskStatus(num) ==
    LET ds == DirOf(num)
    IN  IF ds = {} THEN "no_directory"
        ELSE LET d == CHOOSE d \in ds : TRUE
             IN  IF Finished(d) THEN "complete"
                 ELSE IF d.sums > 0 THEN "partial"
                 ELSE IF d.plans > 0 THEN "planned"
                 ELSE [none |-> "empty", context |-> "discussed",
                       research |-> "researched"][d.prep]

\* The first checkbox that names the phase counts for more than the disk.
Ticked(num) == LET boxes == Boxes(roadmap, Written(num))
               IN  boxes # {} /\ roadmap[Min(boxes)].box = "done"
Status(i) == IF Ticked(roadmap[i].num) THEN "complete" ELSE DiskStatus(roadmap[i].num)
WithStatus(statuses) == {i \in DOMAIN roadmap : Status(i) \in statuses}

\* roadmap analyze adds up what it finds for each section.
BySection(files) == {counted \in (DOMAIN roadmap) \X files :
                       counted[2][1] \in DirOf(roadmap[counted[1]].num)}
RoadmapAnalyze == [phases |-> Len(roadmap),
                   complete |-> WithStatus({"complete"}),
                   plans |-> Cardinality(BySection(PlansOf(dirs))),
                   sums |-> Cardinality(BySection(SummariesOf(dirs)))]

\* progress: every directory, of whatever milestone.
ProgressRender == [plans |-> Cardinality(PlansOf(dirs)), sums |-> Cardinality(SummariesOf(dirs)),
                   complete |-> {d.num : d \in {d \in dirs : Finished(d)}}]

\* init progress: directories of the milestone, and sections without one.
InitProgress == [phases |-> Cardinality(Mine)
                            + Cardinality(Numbered(roadmap) \ {d.num : d \in Mine}),
                 complete |-> {d \in Mine : Finished(d)}]

\* stats keys phases by the text of the number: 2 and 02 are two phases.
Stats == [phases |-> Cardinality({Written(n) : n \in Numbered(roadmap)}
                     \cup {[num |-> d.num, pad |-> TRUE] : d \in Mine}),
          plans |-> Cardinality(PlansOf(Mine)), sums |-> Cardinality(SummariesOf(Mine))]

\* validate consistency: a decimal directory passes when its integer is listed.
RoadmapOnly == Numbered(roadmap) \ {d.num : d \in dirs}
DiskOnly == {d.num : d \in dirs} \ {n \in Numbers : n \in Numbered(roadmap)
                                         \/ <<n[1], 0>> \in Numbered(roadmap)}
Gaps == {n \in 1 .. MaxInt : /\ \E d \in dirs : d.num[1] < n /\ ~IsDecimal(d.num)
                             /\ \E d \in dirs : d.num[1] > n /\ ~IsDecimal(d.num)
                             /\ ExactDirs(dirs, <<n, 0>>) = {}}
Consistent == RoadmapOnly = {} /\ DiskOnly = {} /\ Gaps = {}

----------------------------------------------------------------------------
(* What an agent is told of the one phase that it names.                     *)

\* ds has one directory or none: so have the numbers of its plans.
Answer(ds) == [dirs |-> ds, plans |-> {d.plans : d \in ds},
               left |-> {d.plans - d.sums : d \in ds}]

\* phases list --phase and phase-plan-index look in phases/ only.
PhasesList(num) == Answer(SearchPhase(dirs, num))
PhasePlanIndex(num) == Answer(SearchPhase(dirs, num))
\* A phase without plans is complete.
VerifyPhaseCompleteness(num) == Answer(FindPhase(num)).left \subseteq {0}

\* init execute-phase, plan-phase and verify-work: a section of ROADMAP.md is enough
\* where no directory is found, neither in phases/ nor among the shipped ones.
InitExecutePhase(ref) == Answer(FindPhase(ref.num))
InitPlanPhase(ref) == [Answer(FindPhase(ref.num)) EXCEPT !.left = {}]
InitVerifyWork(ref) == FindPhase(ref.num)
\* init phase-op: a section of ROADMAP.md counts for more than a shipped directory.
RoadmapGetPhase(ref) == Heading(roadmap, ref)
InitPhaseOp(ref) ==
    IF SearchPhase(dirs, ref.num) = {} /\ RoadmapGetPhase(ref) # {}
    THEN Answer({}) ELSE Answer(FindPhase(ref.num))

----------------------------------------------------------------------------
(* init manager: the dashboard, and what it recommends.                      *)

\* Dependencies are compared as texts with the headings.
Complete == {Written(roadmap[i].num) : i \in WithStatus({"complete"})}
DepsSatisfied(i) == roadmap[i].dep \in Complete \cup {NoDep}

ToExecute == {i \in WithStatus({"planned"}) : DepsSatisfied(i)}
\* VARIANT, for the mutation runs: a phase is planned after its research only.
ToPlanResearched == WithStatus({"researched"})
ToPlan == WithStatus({"discussed", "researched"})
\* One phase at a time is offered for discussion.
ToDiscuss == LET new == WithStatus({"empty", "no_directory"})
             IN  IF new = {} THEN {} ELSE {Min(new)}
\* What each phase waits for. Of two sections with one number the last is looked at.
Waits == LET last == {j \in DOMAIN roadmap : \A k \in DOMAIN roadmap :
                        roadmap[k].num = roadmap[j].num => k <= j}
         IN  {<<Written(roadmap[j].num), roadmap[j].dep>> : j \in {j \in last : roadmap[j].dep # NoDep}}
\* Directly or not: what is in every set that is closed under waiting.
Reaches(i) ==
    LET waits == Waits
        texts == {wait[2] : wait \in waits}
        Closed(set) == \A wait \in waits : wait[1] \in {Written(roadmap[i].num)} \cup set => wait[2] \in set
    IN  {text \in texts : \A set \in SUBSET texts : Closed(set) => text \in set}
HasDepRelationship(i, j) == \/ Written(roadmap[j].num) \in Reaches(i)
                            \/ Written(roadmap[i].num) \in Reaches(j)

\* recent: the phases in whose directory a file changed in the last five minutes.
ActiveExecuting(recent) == WithStatus({"partial"}) \cup (WithStatus({"planned"}) \cap recent)
ActivePlanning(recent) == WithStatus({"discussed", "researched"}) \cap recent
Independent(is, active) == {i \in is : \A j \in active : ~HasDepRelationship(i, j)}
RecommendedActions(recent) == Independent(ToExecute, ActiveExecuting(recent))
                              \cup Independent(ToPlan, ActivePlanning(recent)) \cup ToDiscuss
AllComplete == WithStatus({"complete"}) = DOMAIN roadmap /\ roadmap # <<>>

----------------------------------------------------------------------------
(* Properties.                                                               *)

\* The dependency is the text of no other heading: what it names was removed,
\* was never there (Phase 0), or was typed in another form (Phase 02).
Dangling(i) == /\ roadmap[i].dep # NoDep
               /\ \A j \in DOMAIN roadmap \ {i} : Written(roadmap[j].num) # roadmap[i].dep

\* The dashboard always has something to offer, until all is complete: it can
\* only wait for a phase that is under way, for a dependency that is none, or, for
\* five minutes, because work was done on a phase before all that it follows is complete.
\* Excepted are a removal that renumbers, and a text written over what others changed.
ManagerHasNext ==
    \/ roadmap = <<>> \/ marred \cap {"renumber", "stale"} # {}
    \/ AllComplete
    \/ WithStatus({"partial"}) # {}
    \/ \E i \in WithStatus({"planned"}) : Dangling(i)
    \/ ToDiscuss # {}
    \/ \A recent \in SUBSET {i \in WithStatus({"planned", "discussed", "researched"}) :
                                Reaches(i) \subseteq Complete} : RecommendedActions(recent) # {}

\* What validate consistency cannot see: two directories of one number, and
\* directories of decimal phases that ROADMAP.md does not list.
Unseen == \/ \E d, e \in dirs : d # e /\ d.num = e.num
          \/ \E d \in dirs : IsDecimal(d.num) /\ ~InMilestone(roadmap, d)
          \/ Cardinality(Numbered(roadmap)) # Len(roadmap)

\* When validate consistency has no warning, the reports that scan the disk and
\* those that scan ROADMAP.md count the same plans and summaries, and the same phases
\* but for stats, which counts each phase of an integer number twice: as 2 for its
\* section and as 02 for its directory.  What the disk calls complete is complete to
\* init progress and to roadmap analyze.
ScansAgree == Consistent =>
    LET analyze == RoadmapAnalyze  render == ProgressRender  stats == Stats
    IN  /\ {render.plans, stats.plans} = {analyze.plans}
        /\ {render.sums, stats.sums} = {analyze.sums}
        /\ InitProgress.phases = analyze.phases
        /\ stats.phases = analyze.phases + Cardinality({n \in Numbered(roadmap) : ~IsDecimal(n)})
        /\ {d.num : d \in InitProgress.complete} = render.complete
        /\ render.complete \subseteq {roadmap[i].num : i \in analyze.complete}

\* Those that look for one phase of ROADMAP.md find the directory that roadmap analyze
\* counts for it, and see the same work left in it.
Misled(num) == DirOf(num) = {} /\ SearchPhase(dirs, num) # {}
AnswersAgree == \A num \in {n \in Numbered(roadmap) : ~Misled(n)} :
    LET there == Answer(DirOf(num))  ref == Written(num)
    IN  /\ {PhasesList(num), PhasePlanIndex(num), InitPhaseOp(ref)} = {there}
        /\ there.dirs # {} \/ SearchPhase(archive, num) = {} =>
             /\ {InitExecutePhase(ref), [InitPlanPhase(ref) EXCEPT !.left = there.left]} = {there}
             /\ InitVerifyWork(ref) = there.dirs
             /\ DiskStatus(num) = "complete" <=> VerifyPhaseCompleteness(num) /\ \E n \in there.plans : n > 0

\* The commands that report on phases (roadmap.cjs:93-226, commands.cjs:507-573, 784-935,
\* init.cjs:43-239, 533-642, 1045-1190, phase.cjs:11-309) answer alike of each phase, and
\* their sums are those of roadmap analyze: only the phases of stats are more, by as many
\* as it counts twice (commands.cjs:801-851, 900).
ReportsAgree == Unseen \/ (ScansAgree /\ AnswersAgree)
=============================================================================
