--------------------------- MODULE ReportsProofs ---------------------------
(* The two properties of Reports, for every value of the constants.  What a  *)
(* command reports is a function of the state, so that ReportsAgree follows  *)
(* from what PhasesProofs says of every state; ManagerHasNext needs that     *)
(* sections wait for earlier ones.                                           *)
EXTENDS Reports, PhasesProofs

(* One phase on the disk and in the text.                                    *)

\* A section of a number with a single directory is answered with it.
LEMMA DirOfIs ==
  ASSUME NEW d \in dirs, \A e \in dirs : e.num = d.num => e = d, d \in Dirs
  PROVE  DirOf(d.num) = {d}
<1>1. ExactDirs(dirs, d.num) = {d}
  BY DEF ExactDirs
<1>2. d.num[1] \in Nat /\ d.num[2] \in Nat
  BY NumberParts DEF Dirs
<1>3. ~Below(d.num, d.num)
  BY <1>2 DEF Below
<1>4. FirstRead({d}) = d
  BY <1>3 DEF FirstRead
<1>5. QED
  BY <1>1, <1>4 DEF DirOf

LEMMA DirOfNone == ASSUME NEW num, \A d \in dirs : d.num # num PROVE DirOf(num) = {}
BY DEF DirOf, ExactDirs

\* What the disk says of a phase.
LEMMA DiskStatusIs ==
  ASSUME NEW num
  PROVE  /\ DirOf(num) = {} => DiskStatus(num) = "no_directory"
         /\ \A d \in Dirs : DirOf(num) = {d} =>
              /\ DiskStatus(num) = "complete" <=> Finished(d)
              /\ DiskStatus(num) \in {"complete", "partial", "planned", "empty", "discussed", "researched"}
<1>1. ASSUME NEW d \in Dirs, DirOf(num) = {d}
      PROVE  DiskStatus(num) = IF Finished(d) THEN "complete"
                               ELSE IF d.sums > 0 THEN "partial"
                               ELSE IF d.plans > 0 THEN "planned"
                               ELSE [none |-> "empty", context |-> "discussed",
                                     research |-> "researched"][d.prep]
  <2>1. (CHOOSE e \in {d} : TRUE) = d
    OBVIOUS
  <2>2. {d} # {}
    OBVIOUS
  <2>3. QED
    BY <1>1, <2>1, <2>2 DEF DiskStatus
<1>2. \A d \in Dirs : d.prep \in {"none", "context", "research"}
  BY DEF Dirs, Prep
<1>3. QED
  BY <1>1, <1>2 DEF DiskStatus

----------------------------------------------------------------------------
(* The reports agree.                                                        *)

\* As many sections as numbers only if the numbers are distinct.
LEMMA CountDistinct ==
  ASSUME NEW R \in Texts, Cardinality(Numbered(R)) = Len(R)
  PROVE  Distinct(R)
<1> DEFINE f == [i \in DOMAIN R |-> R[i].num]
<1>1. Len(R) \in Nat /\ DOMAIN R = 1 .. Len(R)
  BY TextIs
<1>2. f \in Surjection(DOMAIN R, Numbered(R))
  BY DEF Numbered, Surjection
<1>3. IsFiniteSet(DOMAIN R) /\ Cardinality(DOMAIN R) = Len(R)
  <2>1. 1 \in Int /\ Len(R) \in Int
    BY <1>1
  <2>2. IsFiniteSet(1 .. Len(R)) /\ Cardinality(1 .. Len(R)) = IF 1 > Len(R) THEN 0 ELSE Len(R) - 1 + 1
    BY <2>1, FS_Interval
  <2>3. QED
    BY <1>1, <2>2
<1>4. f \in Injection(DOMAIN R, Numbered(R))
  <2> HIDE DEF f
  <2>1. QED
    BY <1>2, <1>3, FS_SurjSameCardinalityImpliesInj
<1>5. QED
  BY <1>4 DEF Distinct, Injection, IsInjective

\* What validate consistency and its blind spots leave: every directory has one
\* section, and every section one directory.
Paired == /\ \A d, e \in dirs : d.num = e.num => d = e
          /\ Distinct(roadmap)
          /\ \A d \in dirs : d.num \in Numbered(roadmap)
          /\ \A n \in Numbered(roadmap) : \E d \in dirs : d.num = n

LEMMA PairedIs ==
  ASSUME Shaped, ~Unseen, Consistent
  PROVE  Paired /\ Mine = dirs
<1>1. /\ \A d, e \in dirs : d.num = e.num => d = e
      /\ \A d \in dirs : IsDecimal(d.num) => InMilestone(roadmap, d)
      /\ Cardinality(Numbered(roadmap)) = Len(roadmap)
  BY DEF Unseen
<1>2. Distinct(roadmap)
  BY <1>1, CountDistinct DEF Shaped, Typing
<1>3. \A n \in Numbered(roadmap) : \E d \in dirs : d.num = n
  BY DEF Consistent, RoadmapOnly
<1>4. ASSUME NEW d \in dirs PROVE d.num \in Numbered(roadmap)
  <2>1. d.num \in Numbers
    BY DEF Shaped, Typing, Dirs
  <2>2. d.num \in Numbered(roadmap) \/ <<d.num[1], 0>> \in Numbered(roadmap)
    BY DEF Consistent, DiskOnly
  <2>3. roadmap # <<>>
    BY <2>2 DEF Numbered
  <2>4. CASE IsDecimal(d.num)
    BY <1>1, <2>3, <2>4 DEF InMilestone
  <2>5. CASE ~IsDecimal(d.num)
    <3>1. d.num = <<d.num[1], 0>>
      BY <2>1, <2>5, NumberParts DEF IsDecimal
    <3>2. QED
      BY <2>2, <3>1
  <2>6. QED
    BY <2>4, <2>5
<1>5. Mine = dirs
  BY <1>4 DEF Mine, InMilestone
<1>6. QED
  BY <1>1, <1>2, <1>3, <1>4, <1>5 DEF Paired

LEMMA PairedDir == ASSUME Shaped, Paired, NEW d \in dirs PROVE DirOf(d.num) = {d}
BY DirOfIs DEF Shaped, Typing, Paired

\* Adding up by section counts every file once.
LEMMA CountBySection ==
  ASSUME Shaped, Paired, NEW files, IsFiniteSet(files), \A file \in files : file[1] \in dirs
  PROVE  Cardinality(BySection(files)) = Cardinality(files)
<1> DEFINE counts == BySection(files)
           f == [counted \in counts |-> counted[2]]
<1>1. ASSUME NEW counted \in counts
      PROVE  /\ counted[2] \in files /\ counted[1] \in DOMAIN roadmap
             /\ counted = <<counted[1], counted[2]>>
             /\ roadmap[counted[1]].num = counted[2][1].num
  <2>1. /\ counted \in (DOMAIN roadmap) \X files
        /\ counted[2][1] \in DirOf(roadmap[counted[1]].num)
    BY DEF BySection
  <2>2. counted[1] \in DOMAIN roadmap /\ counted[2] \in files /\ counted = <<counted[1], counted[2]>>
    BY <2>1
  <2>3. roadmap[counted[1]].num \in Numbered(roadmap)
    BY <2>2 DEF Numbered
  <2>4. PICK d \in dirs : d.num = roadmap[counted[1]].num
    BY <2>3 DEF Paired
  <2>5. counted[2][1] = d
    BY <2>1, <2>4, PairedDir
  <2>6. QED
    BY <2>2, <2>4, <2>5
<1>2. ASSUME NEW file \in files
      PROVE  \E counted \in counts : counted[2] = file
  <2>1. file[1] \in dirs /\ file[1].num \in Numbered(roadmap)
    BY DEF Paired
  <2>2. PICK i \in DOMAIN roadmap : roadmap[i].num = file[1].num
    BY <2>1 DEF Numbered
  <2>3. file[1] \in DirOf(roadmap[i].num)
    BY <2>1, <2>2, PairedDir
  <2>4. <<i, file>> \in counts
    BY <2>3 DEF BySection
  <2>5. QED
    BY <2>4
<1>3. ASSUME NEW a \in counts, NEW b \in counts, a[2] = b[2] PROVE a = b
  <2>1. roadmap[a[1]].num = roadmap[b[1]].num /\ a[1] \in DOMAIN roadmap /\ b[1] \in DOMAIN roadmap
    BY <1>1, <1>3
  <2>2. a[1] = b[1]
    BY <2>1 DEF Paired, Distinct
  <2>3. QED
    BY <1>1, <1>3, <2>2
<1> HIDE DEF counts
<1>4. f \in Injection(counts, files) /\ f \in Surjection(counts, files)
  BY <1>1, <1>2, <1>3 DEF Injection, Surjection, IsInjective
<1> HIDE DEF f
<1>5. IsFiniteSet(counts) /\ Cardinality(counts) = Cardinality(files)
  BY <1>4, FS_Injection
<1>6. QED
  BY <1>5 DEF counts

LEMMA FilesAreFinite ==
  ASSUME NEW ds, IsFiniteSet(ds)
  PROVE  /\ IsFiniteSet(PlansOf(ds)) /\ \A file \in PlansOf(ds) : file[1] \in ds
         /\ IsFiniteSet(SummariesOf(ds)) /\ \A file \in SummariesOf(ds) : file[1] \in ds
<1>1. MaxPlans \in Int
  BY RoadmapAssumption
<1>2. IsFiniteSet(1 .. MaxPlans)
  BY <1>1, FS_Interval
<1>3. IsFiniteSet(ds \X (1 .. MaxPlans))
  BY <1>2, FS_Product
<1>4. PlansOf(ds) \in SUBSET (ds \X (1 .. MaxPlans)) /\ SummariesOf(ds) \in SUBSET (ds \X (1 .. MaxPlans))
  BY DEF PlansOf, SummariesOf
<1>5. IsFiniteSet(PlansOf(ds)) /\ IsFiniteSet(SummariesOf(ds))
  BY <1>3, <1>4, FS_Subset
<1>6. QED
  BY <1>4, <1>5

LEMMA NumberedIsFinite == ASSUME Paired, IsFiniteSet(dirs) PROVE IsFiniteSet(Numbered(roadmap))
<1> DEFINE f == [d \in dirs |-> d.num]
<1>1. f \in Surjection(dirs, Numbered(roadmap))
  BY DEF Paired, Surjection
<1>2. QED
  BY <1>1, FS_Surjection

\* The texts of some numbers, in sections and in the names of directories: those of
\* integers differ.
LEMMA CountTexts ==
  ASSUME NEW nums, IsFiniteSet(nums)
  PROVE  Cardinality({Written(n) : n \in nums} \cup {[num |-> n, pad |-> TRUE] : n \in nums})
         = Cardinality(nums) + Cardinality({n \in nums : ~IsDecimal(n)})
<1> DEFINE ints == {n \in nums : ~IsDecimal(n)}
           text(n, pad) == [num |-> n, pad |-> pad]
           names == {text(n, TRUE) : n \in nums}
           bare == {text(n, FALSE) : n \in ints}
<1>1. ASSUME NEW set, IsFiniteSet(set), NEW pad \in BOOLEAN
      PROVE  LET texts == {text(n, pad) : n \in set}
             IN  IsFiniteSet(texts) /\ Cardinality(texts) = Cardinality(set)
  <2> DEFINE texts == {text(n, pad) : n \in set}
             f == [n \in set |-> text(n, pad)]
  <2>1. \A m, n : text(m, pad) = text(n, pad) => m = n
    BY \A n : text(n, pad).num = n
  <2>2. f \in Bijection(set, texts)
    BY <2>1 DEF Bijection, Injection, Surjection, IsInjective
  <2>3. ExistsBijection(set, texts)
    BY <2>2 DEF ExistsBijection
  <2>4. QED
    BY <1>1, <2>3, FS_Bijection
<1>2. IsFiniteSet(ints)
  <2>1. ints \in SUBSET nums
    OBVIOUS
  <2>2. QED
    BY <2>1, FS_Subset
<1>3. {Written(n) : n \in nums} \cup names = names \cup bare
  <2>1. \A n : IsDecimal(n) \in BOOLEAN
    BY DEF IsDecimal
  <2>2. \A n : Written(n) = IF IsDecimal(n) THEN text(n, TRUE) ELSE text(n, FALSE)
    BY <2>1, Zenon DEF Written
  <2>3. \A n \in nums : n \in ints <=> ~IsDecimal(n)
    OBVIOUS
  <2> HIDE DEF text, ints
  <2>4. QED
    BY <2>2, <2>3 DEF ints
<1>4. names \cap bare = {}
  <2>1. \A n : text(n, TRUE).pad = TRUE /\ text(n, FALSE).pad = FALSE
    OBVIOUS
  <2>2. QED
    BY <2>1
<1>5. /\ IsFiniteSet(names) /\ Cardinality(names) = Cardinality(nums)
      /\ IsFiniteSet(bare) /\ Cardinality(bare) = Cardinality(ints)
  BY <1>1, <1>2
<1> HIDE DEF names, bare, ints
<1>6. Cardinality(names \cup bare) = Cardinality(names) + Cardinality(bare)
  <2>1. Cardinality(names \cap bare) = 0
    BY <1>4, FS_EmptySet
  <2>2. Cardinality(names) \in Nat /\ Cardinality(bare) \in Nat
    BY <1>5, FS_CardinalityType
  <2>3. Cardinality(names \cup bare) = Cardinality(names) + Cardinality(bare) - 0
    BY <1>5, <2>1, FS_Union
  <2>4. QED
    BY <2>2, <2>3
<1>7. QED
  BY <1>3, <1>5, <1>6 DEF names, ints

LEMMA ScansDoAgree == ASSUME Shaped, DirsFiled, ~Unseen PROVE ScansAgree
<1> SUFFICES ASSUME Consistent
             PROVE  LET analyze == RoadmapAnalyze  render == ProgressRender  stats == Stats
                    IN  /\ {render.plans, stats.plans} = {analyze.plans}
                        /\ {render.sums, stats.sums} = {analyze.sums}
                        /\ InitProgress.phases = analyze.phases
                        /\ stats.phases = analyze.phases + Cardinality({n \in Numbered(roadmap) : ~IsDecimal(n)})
                        /\ {d.num : d \in InitProgress.complete} = render.complete
                        /\ render.complete \subseteq {roadmap[i].num : i \in analyze.complete}
  BY DEF ScansAgree
<1>1. Paired /\ Mine = dirs /\ IsFiniteSet(dirs)
  BY PairedIs DEF DirsFiled
<1>2. /\ Cardinality(BySection(PlansOf(dirs))) = Cardinality(PlansOf(dirs))
      /\ Cardinality(BySection(SummariesOf(dirs))) = Cardinality(SummariesOf(dirs))
  BY <1>1, FilesAreFinite, CountBySection
<1>3. {ProgressRender.plans, Stats.plans} = {RoadmapAnalyze.plans}
  BY <1>1, <1>2 DEF ProgressRender, Stats, RoadmapAnalyze
<1>4. {ProgressRender.sums, Stats.sums} = {RoadmapAnalyze.sums}
  BY <1>1, <1>2 DEF ProgressRender, Stats, RoadmapAnalyze
<1>5. InitProgress.phases = RoadmapAnalyze.phases
  <2>1. Numbered(roadmap) \ {d.num : d \in Mine} = {}
    BY <1>1 DEF Paired
  <2>2. Cardinality(Numbered(roadmap) \ {d.num : d \in Mine}) = 0
    BY <2>1, FS_EmptySet
  <2>3. Cardinality(dirs) = Cardinality(Numbered(roadmap))
    <3> DEFINE f == [d \in dirs |-> d.num]
    <3>1. f \in Bijection(dirs, Numbered(roadmap))
      BY <1>1 DEF Paired, Bijection, Injection, Surjection, IsInjective
    <3>2. ExistsBijection(dirs, Numbered(roadmap))
      BY <3>1 DEF ExistsBijection
    <3>3. QED
      BY <1>1, <3>2, FS_Bijection
  <2>4. Cardinality(Numbered(roadmap)) = Len(roadmap) /\ Len(roadmap) \in Nat
    BY TextIs DEF Unseen, Shaped, Typing
  <2>5. InitProgress.phases = Cardinality(Mine) + Cardinality(Numbered(roadmap) \ {d.num : d \in Mine})
    BY DEF InitProgress
  <2>6. RoadmapAnalyze.phases = Len(roadmap)
    BY DEF RoadmapAnalyze
  <2>7. QED
    BY <1>1, <2>2, <2>3, <2>4, <2>5, <2>6
<1>6. ASSUME NEW num \in ProgressRender.complete
      PROVE  num \in {roadmap[i].num : i \in RoadmapAnalyze.complete}
  <2>1. PICK d \in dirs : Finished(d) /\ num = d.num
    BY <1>6 DEF ProgressRender
  <2>2. PICK i \in DOMAIN roadmap : roadmap[i].num = num
    BY <1>1, <2>1 DEF Paired, Numbered
  <2>3. DiskStatus(num) = "complete"
    <3>1. d \in Dirs
      BY DEF Shaped, Typing
    <3>2. DirOf(num) = {d}
      BY <1>1, <2>1, PairedDir
    <3>3. QED
      BY <2>1, <3>1, <3>2, DiskStatusIs
  <2>4. i \in WithStatus({"complete"})
    BY <2>2, <2>3 DEF WithStatus, Status
  <2>5. QED
    BY <2>2, <2>4 DEF RoadmapAnalyze
<1>7. Stats.phases = RoadmapAnalyze.phases + Cardinality({n \in Numbered(roadmap) : ~IsDecimal(n)})
  <2>1. Cardinality(Numbered(roadmap)) = RoadmapAnalyze.phases
    BY DEF Unseen, RoadmapAnalyze
  <2>2. {[num |-> d.num, pad |-> TRUE] : d \in Mine} = {[num |-> n, pad |-> TRUE] : n \in Numbered(roadmap)}
    BY <1>1 DEF Paired
  <2>3. IsFiniteSet(Numbered(roadmap))
    BY <1>1, NumberedIsFinite
  <2>4. QED
    BY <2>1, <2>2, <2>3, CountTexts DEF Stats
<1>8. {d.num : d \in InitProgress.complete} = ProgressRender.complete
  BY <1>1 DEF InitProgress, ProgressRender
<1>9. QED
  BY <1>3, <1>4, <1>5, <1>6, <1>7, <1>8

\* The directory that a look-up finds is the one roadmap analyze counts, unless it
\* finds that of another phase.
LEMMA SearchIsDirOf ==
  ASSUME Shaped, \A d, e \in dirs : d.num = e.num => d = e, NEW num \in Numbers, ~Misled(num)
  PROVE  /\ SearchPhase(dirs, num) = DirOf(num)
         /\ DirOf(num) = {} \/ \E d \in dirs : DirOf(num) = {d}
<1>1. CASE ExactDirs(dirs, num) = {}
  <2>1. DirOf(num) = {}
    BY <1>1 DEF DirOf
  <2>2. QED
    BY <2>1 DEF Misled
<1>2. CASE ExactDirs(dirs, num) # {}
  <2>1. PICK d \in dirs : d.num = num
    BY <1>2 DEF ExactDirs
  <2>2. DirOf(num) = {d}
    <3>1. d \in Dirs
      BY DEF Shaped, Typing
    <3>2. QED
      BY <2>1, <3>1, DirOfIs
  <2>3. SearchPhase(dirs, num) \subseteq {d}
    <3>1. SearchPhase(dirs, num) \subseteq ExactDirs(dirs, num)
      BY <1>2, FindsExactly DEF FindIsExact
    <3>2. QED
      BY <2>1, <3>1 DEF ExactDirs
  <2>4. SearchPhase(dirs, num) # {}
    <3>1. d \in {e \in dirs : StartsWith(e, num)}
      BY <2>1 DEF StartsWith
    <3>2. QED
      BY <3>1 DEF SearchPhase, FirstOf
  <2>5. QED
    BY <2>2, <2>3, <2>4
<1>3. QED
  BY <1>1, <1>2

LEMMA AnswersDoAgree == ASSUME Shaped, DirsFiled, ~Unseen PROVE AnswersAgree
<1> SUFFICES ASSUME NEW num \in Numbered(roadmap), ~Misled(num)
             PROVE  LET there == Answer(DirOf(num))  ref == Written(num)
                    IN  /\ {PhasesList(num), PhasePlanIndex(num), InitPhaseOp(ref)} = {there}
                        /\ there.dirs # {} \/ SearchPhase(archive, num) = {} =>
                             /\ {InitExecutePhase(ref), [InitPlanPhase(ref) EXCEPT !.left = there.left]} = {there}
                             /\ InitVerifyWork(ref) = there.dirs
                             /\ DiskStatus(num) = "complete"
                                  <=> VerifyPhaseCompleteness(num) /\ \E n \in there.plans : n > 0
  BY DEF AnswersAgree
<1> DEFINE there == Answer(DirOf(num))
           ref == Written(num)
<1>1. num \in Numbers /\ ref.num = num
  BY TextIs DEF Shaped, Typing, Numbered, Written
<1>2. \A d, e \in dirs : d.num = e.num => d = e
  BY DEF Unseen
<1>3. SearchPhase(dirs, num) = DirOf(num) /\ (DirOf(num) = {} \/ \E d \in dirs : DirOf(num) = {d})
  BY <1>1, <1>2, SearchIsDirOf
<1>4. there.dirs = DirOf(num)
  BY DEF Answer
<1>5. Heading(roadmap, ref) # {}
  BY DEF Heading, Numbered
<1>6. PhasesList(num) = there /\ PhasePlanIndex(num) = there
  BY <1>3 DEF PhasesList, PhasePlanIndex
<1>7. InitPhaseOp(ref) = there
  <2>1. CASE DirOf(num) = {}
    BY <1>1, <1>3, <1>5, <2>1 DEF InitPhaseOp, RoadmapGetPhase
  <2>2. CASE DirOf(num) # {}
    BY <1>1, <1>3, <2>2 DEF InitPhaseOp, FindPhase
  <2>3. QED
    BY <2>1, <2>2
<1>8. ASSUME there.dirs # {} \/ SearchPhase(archive, num) = {}
      PROVE  /\ {InitExecutePhase(ref), [InitPlanPhase(ref) EXCEPT !.left = there.left]} = {there}
             /\ InitVerifyWork(ref) = there.dirs
             /\ DiskStatus(num) = "complete"
                  <=> VerifyPhaseCompleteness(num) /\ \E n \in there.plans : n > 0
  <2>1. FindPhase(num) = DirOf(num)
    BY <1>3, <1>4, <1>8 DEF FindPhase
  <2>2. InitExecutePhase(ref) = there /\ InitVerifyWork(ref) = there.dirs
    BY <1>1, <1>4, <2>1 DEF InitExecutePhase, InitVerifyWork
  <2>3. [InitPlanPhase(ref) EXCEPT !.left = there.left] = there
    <3>1. InitPlanPhase(ref) = [there EXCEPT !.left = {}]
      BY <1>1, <2>1 DEF InitPlanPhase
    <3>2. QED
      BY <3>1 DEF Answer
  <2>4. VerifyPhaseCompleteness(num) <=> there.left \subseteq {0}
    BY <2>1 DEF VerifyPhaseCompleteness
  <2>5. CASE DirOf(num) = {}
    <3>1. there.plans = {}
      BY <2>5 DEF Answer
    <3>2. DiskStatus(num) = "no_directory"
      BY <2>5, DiskStatusIs
    <3>3. QED
      BY <2>2, <2>3, <3>1, <3>2
  <2>6. ASSUME NEW d \in dirs, DirOf(num) = {d}
        PROVE  DiskStatus(num) = "complete"
                 <=> VerifyPhaseCompleteness(num) /\ \E n \in there.plans : n > 0
    <3>1. d \in Dirs /\ d.sums <= d.plans
      BY DEF Shaped, Typing, DirsFiled
    <3>2. d.sums \in Nat /\ d.plans \in Nat
      BY <3>1, RoadmapAssumption DEF Dirs
    <3>3. DiskStatus(num) = "complete" <=> Finished(d)
      BY <2>6, <3>1, DiskStatusIs
    <3>4. there.left = {d.plans - d.sums} /\ there.plans = {d.plans}
      BY <2>6 DEF Answer
    <3>5. there.left \subseteq {0} <=> d.plans - d.sums = 0
      BY <3>4
    <3>6. d.plans - d.sums = 0 <=> d.sums >= d.plans
      BY <3>1, <3>2
    <3>7. (\E n \in there.plans : n > 0) <=> d.plans > 0
      BY <3>4
    <3>8. QED
      BY <2>4, <3>3, <3>5, <3>6, <3>7 DEF Finished
  <2>7. QED
    BY <1>3, <2>2, <2>3, <2>5, <2>6
<1> HIDE DEF there, ref
<1>9. QED
  BY <1>6, <1>7, <1>8 DEF there, ref

\* Of one phase the commands that report answer alike, with the directory that is counted
\* for it, and when validate consistency has no warning their sums are those of roadmap
\* analyze, only that stats counts once more each phase of an integer number: whatever
\* was added, inserted, removed, shipped or cut short before.
THEOREM ReportsDoAgree == Spec => []ReportsAgree
<1> DEFINE Inv == Shaped /\ DirsFiled /\ JobsFiled
<1>1. Init => Inv
  BY ShapedInit, FiledInit
<1>2. Inv /\ [Next]_vars => Inv'
  BY ShapedNext, JobsFiledNext, FiledNext
<1>3. Inv => ReportsAgree
  BY ScansDoAgree, AnswersDoAgree DEF ReportsAgree
<1>4. QED
  BY <1>1, <1>2, <1>3, PTL DEF Spec

----------------------------------------------------------------------------
(* Sections wait for earlier ones.                                           *)

Rising(R) == \A i \in DOMAIN R : Below(R[i].dep.num, R[i].num)
\* A text whose sections are those of another.
From(R, T) == \A i \in DOMAIN T : \E j \in DOMAIN R :
    T[i].num = R[j].num /\ T[i].dep.num = R[j].dep.num
HeldFrom == \A e \in Executors : held[e].pc = "save" => From(held[e].base, held[e].text)
\* What is written waits for earlier sections, and what is removed is the last.
Upwards(R, job) == /\ job.op \in {"save", "rewrite"} => Rising(job.text)
                   /\ job.op = "excise" => \A n \in Numbered(R) : ~After(n, job.ref.num)
Upward == marred \cap {"renumber", "stale"} = {} =>
    Rising(roadmap) /\ \A i \in DOMAIN todo : Upwards(roadmap, todo[i])
UpwardNow == Rising(roadmap) /\ \A i \in DOMAIN todo : Upwards(roadmap, todo[i])

LEMMA FromRising ==
  ASSUME NEW R, NEW T, From(R, T)
  PROVE  (Rising(R) => Rising(T)) /\ Numbered(T) \subseteq Numbered(R)
BY DEF From, Rising, Numbered

LEMMA FromItself == ASSUME NEW R PROVE From(R, R)
BY DEF From

LEMMA TickFrom == ASSUME NEW R \in Texts, NEW ref PROVE From(R, Tick(R, ref))
<1> DEFINE open == {i \in Boxes(R, ref) : R[i].box = "open"}
           k == Min(open)
<1>1. CASE open = {}
  BY <1>1, FromItself DEF Tick
<1>2. CASE open # {}
  <2>1. Tick(R, ref) = [R EXCEPT ![k] = [R[k] EXCEPT !.box = "done"]]
    BY <1>2 DEF Tick
  <2> HIDE DEF k
  <2>2. \A i \in DOMAIN R : R[i] \in Sections
    BY TextIs DEF Entries
  <2>3. \A i \in DOMAIN R : Tick(R, ref)[i].num = R[i].num /\ Tick(R, ref)[i].dep.num = R[i].dep.num
    BY <2>1, <2>2 DEF Sections
  <2>4. DOMAIN Tick(R, ref) = DOMAIN R
    BY <2>1
  <2>5. QED
    BY <2>3, <2>4 DEF From
<1>3. QED
  BY <1>1, <1>2

LEMMA AddRising ==
  ASSUME NEW R \in Texts, NEW name \in Names, NextInteger(R) <= MaxInt, Rising(R)
  PROVE  Rising(AddSection(R, name))
<1> DEFINE T == AddSection(R, name)
           n == NextInteger(R)
<1>1. /\ T \in Texts /\ Len(T) = Len(R) + 1
      /\ \A i \in DOMAIN R : T[i] = R[i]
      /\ T[Len(R) + 1].num = <<n, 0>> /\ T[Len(R) + 1].dep.num = <<n - 1, 0>>
  BY AddSectionIs
<1>2. n \in Nat
  BY NextIntegerIs
<1> HIDE DEF T, n
<1>3. DOMAIN R = 1 .. Len(R) /\ Len(R) \in Nat /\ DOMAIN T = 1 .. (Len(R) + 1)
  BY <1>1, TextIs
<1>4. ASSUME NEW i \in DOMAIN T PROVE Below(T[i].dep.num, T[i].num)
  <2>1. CASE i \in DOMAIN R
    BY <1>1, <2>1 DEF Rising
  <2>2. CASE i = Len(R) + 1
    <3>1. Below(<<n - 1, 0>>, <<n, 0>>)
      BY <1>2 DEF Below
    <3>2. QED
      BY <1>1, <2>2, <3>1
  <2>3. QED
    BY <1>3, <2>1, <2>2
<1>5. QED
  BY <1>4 DEF Rising, T

LEMMA InsertRising ==
  ASSUME NEW R \in Texts, NEW ref \in Refs, NEW num \in Numbers, NEW name \in Names,
         ref.num \in Numbered(R), Below(ref.num, num), Rising(R)
  PROVE  Rising(InsertSection(R, ref, num, name))
<1> DEFINE T == InsertSection(R, ref, num, name)
<1>1. PICK k \in DOMAIN R : Inserted(R, T, k, num, name) /\ T[k + 1].dep = ref
  BY InsertSectionIs
<1> HIDE DEF T
<1>2. DOMAIN R = 1 .. Len(R) /\ Len(R) \in Nat /\ DOMAIN T = 1 .. (Len(R) + 1) /\ k \in Nat
  BY <1>1, TextIs DEF Inserted
<1>3. ASSUME NEW i \in DOMAIN T PROVE Below(T[i].dep.num, T[i].num)
  <2>1. CASE i \in 1 .. k
    <3>1. T[i] = R[i] /\ i \in DOMAIN R
      BY <1>1, <1>2, <2>1 DEF Inserted
    <3>2. QED
      BY <3>1 DEF Rising
  <2>2. CASE i = k + 1
    BY <1>1, <2>2 DEF Inserted
  <2>3. CASE i \in (k + 2) .. (Len(R) + 1)
    <3>1. i - 1 \in (k + 1) .. Len(R) /\ (i - 1) + 1 = i /\ i - 1 \in DOMAIN R
      BY <1>2, <2>3
    <3>2. T[i] = R[i - 1]
      BY <1>1, <3>1 DEF Inserted
    <3>3. QED
      BY <3>1, <3>2 DEF Rising
  <2>4. QED
    BY <1>2, <2>1, <2>2, <2>3
<1>4. QED
  BY <1>3 DEF Rising, T

\* Renumbering changes no section when none comes after the number.
LEMMA RenumberFrom ==
  ASSUME NEW R \in Texts, NEW n \in 1 .. MaxInt, Rising(R), \A i \in DOMAIN R : R[i].num[1] <= n
  PROVE  From(R, RenumberAfter(R, n))
<1>1. ASSUME NEW i \in DOMAIN R
      PROVE  /\ RenumberAfter(R, n)[i].num = R[i].num
             /\ RenumberAfter(R, n)[i].dep.num = R[i].dep.num
  <2>1. R[i] \in Sections
    BY TextIs DEF Entries
  <2>2. /\ R[i].num \in Numbers /\ R[i].dep.num \in (0 .. MaxInt) \X (0 .. MaxDec)
        /\ R[i].dep \in [num : (0 .. MaxInt) \X (0 .. MaxDec), pad : BOOLEAN]
    BY <2>1 DEF Sections
  <2>3. Collapse(R[i].num, n) = R[i].num
    BY <2>2, CollapseIs
  <2>4. R[i].dep.num[1] <= n /\ R[i].dep.num[1] \in Int
    <3>1. Below(R[i].dep.num, R[i].num)
      BY DEF Rising
    <3>2. R[i].num[1] \in Int /\ R[i].dep.num[1] \in Int /\ n \in Int
      BY <2>2, NumberParts, RoadmapAssumption
    <3>3. R[i].dep.num[1] <= R[i].num[1]
      BY <3>1, <3>2 DEF Below
    <3>4. QED
      BY <3>2, <3>3
  <2>5. Collapse(R[i].dep.num, n) = R[i].dep.num
    <3>1. ~(R[i].dep.num[1] > n)
      BY <2>4, RoadmapAssumption
    <3>2. QED
      BY <3>1 DEF Collapse
  <2>6. RenumberAfter(R, n)[i] =
          [R[i] EXCEPT !.num = Collapse(@, n),
                       !.tick = IF R[i].listed THEN Collapse(@, n) ELSE @,
                       !.dep.num = IF R[i].dep.pad THEN @ ELSE Collapse(@, n)]
    BY DEF RenumberAfter
  <2>7. QED
    BY <2>1, <2>2, <2>3, <2>5, <2>6 DEF Sections
<1>2. DOMAIN RenumberAfter(R, n) = DOMAIN R
  BY DEF RenumberAfter
<1>3. QED
  BY <1>1, <1>2 DEF From

LEMMA RemoveRising ==
  ASSUME NEW R \in Texts, NEW ref \in Refs, Rising(R), \A n \in Numbered(R) : ~After(n, ref.num)
  PROVE  Rising(RemoveSection(R, ref))
<1> DEFINE unticked == [i \in DOMAIN R |->
                          IF i \in Boxes(R, ref) THEN [R[i] EXCEPT !.box = "none"] ELSE R[i]]
           named == Heading(R, ref)
           rest == IF named = {} THEN unticked ELSE RemoveAt(unticked, Min(named))
<1>1. DOMAIN R = 1 .. Len(R) /\ Len(R) \in Nat
  BY TextIs
<1>2. \A i \in DOMAIN R : /\ unticked[i] \in Entries
                          /\ unticked[i].num = R[i].num /\ unticked[i].dep.num = R[i].dep.num
  <2>1. \A i \in DOMAIN R : R[i] \in Entries /\ R[i] \in Sections
    BY TextIs DEF Entries
  <2>2. \A i \in DOMAIN R : /\ [R[i] EXCEPT !.box = "none"] \in Entries
                            /\ [R[i] EXCEPT !.box = "none"].num = R[i].num
                            /\ [R[i] EXCEPT !.box = "none"].dep.num = R[i].dep.num
    BY <2>1 DEF Entries, Sections
  <2>3. QED
    BY <2>1, <2>2
<1>3. DOMAIN unticked = DOMAIN R
  OBVIOUS
<1>4. unticked \in Seq(Entries) /\ Len(unticked) = Len(R)
  <2> HIDE DEF unticked
  <2>1. unticked = [i \in 1 .. Len(R) |-> unticked[i]]
    BY <1>1, <1>3 DEF unticked
  <2>2. [i \in 1 .. Len(R) |-> unticked[i]] \in Seq(Entries)
    BY <1>1, <1>2
  <2>3. QED
    BY <1>1, <1>3, <2>1, <2>2
<1> HIDE DEF unticked
<1>5. From(R, unticked)
  BY <1>2, <1>3 DEF From
<1>6. named = {} \/ Min(named) \in 1 .. Len(R)
  <2>1. named \in SUBSET Nat /\ named \subseteq DOMAIN R
    BY <1>1 DEF Heading
  <2> HIDE DEF named
  <2>2. QED
    BY <1>1, <2>1, MinIs
<1>7. rest \in Texts /\ From(R, rest)
  <2>1. CASE named = {}
    BY <1>4, <1>5, <2>1 DEF Texts
  <2>2. CASE named # {}
    <3> DEFINE k == Min(named)
               U == RemoveAt(unticked, k)
    <3>1. k \in 1 .. Len(R)
      BY <1>6, <2>2
    <3> HIDE DEF k
    <3>2. /\ U \in Seq(Entries) /\ Len(U) = Len(R) - 1
          /\ \A i \in 1 .. (Len(R) - 1) : U[i] = unticked[IF i < k THEN i ELSE i + 1]
      BY <1>4, <3>1, RemoveAtIs
    <3> HIDE DEF U
    <3>3. DOMAIN U = 1 .. (Len(R) - 1)
      BY <3>2
    <3>4. \A i \in 1 .. (Len(R) - 1) : (IF i < k THEN i ELSE i + 1) \in DOMAIN R
      BY <1>1
    <3>5. From(R, U)
      BY <1>2, <3>2, <3>3, <3>4 DEF From
    <3>6. QED
      BY <2>2, <3>2, <3>5 DEF Texts, U, k
  <2>3. QED
    BY <2>1, <2>2
<1>8. RemoveSection(R, ref) = IF IsDecimal(ref.num) THEN rest ELSE RenumberAfter(rest, ref.num[1])
  BY DEF RemoveSection, unticked
<1> HIDE DEF rest
<1>9. Rising(rest) /\ Numbered(rest) \subseteq Numbered(R)
  BY <1>7, FromRising
<1>10. CASE IsDecimal(ref.num)
  BY <1>8, <1>9, <1>10
<1>11. CASE ~IsDecimal(ref.num)
  <2>1. ref.num[1] \in 1 .. MaxInt /\ ref.num[1] \in Nat
    BY NumberParts DEF Refs
  <2>2. ASSUME NEW i \in DOMAIN rest PROVE rest[i].num[1] <= ref.num[1]
    <3>1. rest[i].num \in Numbered(R)
      BY <1>9 DEF Numbered
    <3>2. ~(rest[i].num[1] > ref.num[1])
      BY <1>11, <3>1 DEF After
    <3>3. rest[i].num[1] \in Nat
      BY <1>7, TextIs, NumberParts
    <3>4. QED
      BY <2>1, <3>2, <3>3
  <2>3. From(rest, RenumberAfter(rest, ref.num[1]))
    BY <1>7, <1>9, <2>1, <2>2, RenumberFrom
  <2>4. QED
    BY <1>8, <1>9, <1>11, <2>3, FromRising
<1>12. QED
  BY <1>10, <1>11

\* A queue that a command begins with.
LEMMA UpwardsTwo ==
  ASSUME NEW a, NEW b, todo' = <<a, b>>, Upwards(roadmap', a), Upwards(roadmap', b)
  PROVE  \A i \in DOMAIN todo' : Upwards(roadmap', todo'[i])
<1>1. DOMAIN todo' = 1 .. 2 /\ todo'[1] = a /\ todo'[2] = b
  OBVIOUS
<1>2. QED
  BY <1>1

LEMMA UpwardCommand ==
  ASSUME Shaped, Rising(roadmap), Command, "renumber" \notin marred'
  PROVE  UpwardNow'
<1> SUFFICES \A i \in DOMAIN todo' : Upwards(roadmap', todo'[i])
  <2>1. roadmap' = roadmap
    BY DEF Command, PhaseAdd, PhaseInsert, PhaseRemove, PhaseComplete, MilestoneComplete, Begin
  <2>2. QED
    BY <2>1 DEF UpwardNow, Rising
<1>1. /\ roadmap' = roadmap /\ roadmap \in Texts /\ dirs \subseteq Dirs
      /\ todo' \in Seq(Jobs) /\ DOMAIN todo' = 1 .. Len(todo')
  <2>1. Shaped'
    BY ShapedNext DEF Next
  <2>2. todo' \in Seq(Jobs)
    BY <2>1 DEF Shaped, Typing
  <2>3. DOMAIN todo' = 1 .. Len(todo')
    BY <2>2
  <2>4. roadmap' = roadmap
    BY DEF Command, PhaseAdd, PhaseInsert, PhaseRemove, PhaseComplete, MilestoneComplete, Begin
  <2>5. QED
    BY <2>2, <2>3, <2>4 DEF Shaped, Typing
<1>2. ASSUME NEW name \in Names, PhaseAdd(name)
      PROVE  \A i \in DOMAIN todo' : Upwards(roadmap', todo'[i])
  <2> DEFINE a == Mkdir(<<NextInteger(roadmap), 0>>, name)
             b == Save(AddSection(roadmap, name))
  <2>1. todo' = <<a, b>>
    BY <1>2 DEF PhaseAdd, Begin
  <2>2. a.op = "mkdir" /\ b.op = "save" /\ b.text = AddSection(roadmap, name)
    BY DEF Mkdir, Save
  <2>3. Rising(b.text)
    BY <1>1, <1>2, <2>2, AddRising DEF PhaseAdd
  <2> HIDE DEF a, b
  <2>4. Upwards(roadmap', a) /\ Upwards(roadmap', b)
    BY <2>2, <2>3 DEF Upwards
  <2>5. QED
    BY <2>1, <2>4, UpwardsTwo
<1>3. ASSUME NEW ref \in Refs, NEW name \in Names, PhaseInsert(ref, name)
      PROVE  \A i \in DOMAIN todo' : Upwards(roadmap', todo'[i])
  <2> DEFINE num == <<ref.num[1], NextDecimal(dirs, ref.num[1])>>
             a == Mkdir(num, name)
             b == Save(InsertSection(roadmap, ref, num, name))
  <2>1. todo' = <<a, b>>
    BY <1>3 DEF PhaseInsert, Begin
  <2>2. a.op = "mkdir" /\ b.op = "save" /\ b.text = InsertSection(roadmap, ref, num, name)
    BY DEF Mkdir, Save
  <2>3. num \in Numbers /\ ref.num \in Numbered(roadmap) /\ Below(ref.num, num)
    <3>1. ref.num[1] \in 1 .. MaxInt
      BY NumberParts DEF Refs
    <3>2. NextDecimal(dirs, ref.num[1]) \in Nat \ {0}
      BY <1>1, <3>1, NextDecimalIs
    <3>3. NextDecimal(dirs, ref.num[1]) <= MaxDec /\ ref.num[2] = 0 /\ ref.num \in Numbered(roadmap)
      BY <1>3 DEF PhaseInsert, IsDecimal
    <3>4. num \in Numbers
      BY <3>1, <3>2, <3>3, RoadmapAssumption DEF Numbers
    <3>5. Below(ref.num, num)
      <4>1. 0 < NextDecimal(dirs, ref.num[1])
        BY <3>2
      <4>2. QED
        BY <3>3, <4>1 DEF Below
    <3>6. QED
      BY <3>3, <3>4, <3>5
  <2> HIDE DEF num
  <2>4. Rising(b.text)
    BY <1>1, <2>2, <2>3, InsertRising
  <2> HIDE DEF a, b
  <2>5. Upwards(roadmap', a) /\ Upwards(roadmap', b)
    BY <2>2, <2>4 DEF Upwards
  <2>6. QED
    BY <2>1, <2>5, UpwardsTwo
<1>4. ASSUME NEW ref \in Refs, NEW force \in BOOLEAN, PhaseRemove(ref, force)
      PROVE  \A i \in DOMAIN todo' : Upwards(roadmap', todo'[i])
  <2>1. todo' = RemovalSteps(ref, force) /\ ~Untidy(ref)
    BY <1>4 DEF PhaseRemove, Begin
  <2>2. /\ ExciseOf(ref).op = "excise" /\ ExciseOf(ref).ref = ref
        /\ RmOf(ref, force).op = "rm" /\ RenameOf(ref).op = "rename"
    BY DEF ExciseOf, RmOf, RenameOf
  <2>3. \/ todo' = <<ExciseOf(ref)>>
        \/ todo' = <<RmOf(ref, force), ExciseOf(ref)>>
        \/ todo' = <<RenameOf(ref), ExciseOf(ref)>>
        \/ todo' = <<RmOf(ref, force), RenameOf(ref), ExciseOf(ref)>>
    BY <2>1, RemovalStepsAre
  <2>4. \A i \in DOMAIN todo' : todo'[i] \in {ExciseOf(ref), RmOf(ref, force), RenameOf(ref)}
    BY <2>3
  <2>5. \A n \in Numbered(roadmap') : ~After(n, ref.num)
    BY <1>1, <2>1 DEF Untidy, After
  <2>6. \A job \in {ExciseOf(ref), RmOf(ref, force), RenameOf(ref)} : Upwards(roadmap', job)
    BY <2>2, <2>5 DEF Upwards
  <2>7. QED
    BY <2>4, <2>6
<1>5. ASSUME NEW ref \in Refs, PhaseComplete(ref)
      PROVE  \A i \in DOMAIN todo' : Upwards(roadmap', todo'[i])
  <2> DEFINE a == Save(Tick(roadmap, ref))
             b == [op |-> "tell", num |-> ref.num]
  <2>1. todo' = <<a, b>>
    BY <1>5 DEF PhaseComplete, Begin
  <2>2. a.op = "save" /\ a.text = Tick(roadmap, ref) /\ b.op = "tell"
    BY DEF Save
  <2>3. Rising(a.text)
    BY <1>1, <2>2, TickFrom, FromRising
  <2> HIDE DEF a, b
  <2>4. Upwards(roadmap', a) /\ Upwards(roadmap', b)
    BY <2>2, <2>3 DEF Upwards
  <2>5. QED
    BY <2>1, <2>4, UpwardsTwo
<1>6. ASSUME MilestoneComplete
      PROVE  \A i \in DOMAIN todo' : Upwards(roadmap', todo'[i])
  <2>1. \A i \in DOMAIN todo' : todo'[i].op \in {"move", "ship"}
    BY <1>1, <1>6, ShippingIs
  <2>2. QED
    BY <2>1 DEF Upwards
<1>7. QED
  BY <1>2, <1>3, <1>4, <1>5, <1>6 DEF Command

\* The end of an operation, or of its part in one directory, adds nothing to the queue.
LEMMA UpwardAdvance ==
  ASSUME Shaped, UpwardNow, todo # <<>>, Advance, UNCHANGED roadmap
  PROVE  UpwardNow'
BY AdvanceIs DEF UpwardNow, Rising

LEMMA UpwardAdvancePast ==
  ASSUME Shaped, UpwardNow, todo # <<>>, todo[1].op \in {"rename", "move"},
         NEW path \in todo[1].left, AdvancePast(path), UNCHANGED roadmap
  PROVE  UpwardNow'
<1>1. /\ Now = todo[1] /\ todo[1] \in Jobs /\ 1 \in DOMAIN todo /\ todo \in Seq(Jobs)
  BY NowIs
<1>2. CASE Now.left = {path}
  <2>1. Advance
    BY <1>2 DEF AdvancePast, Advance
  <2>2. QED
    BY <2>1, UpwardAdvance
<1>3. CASE Now.left # {path}
  <2> DEFINE job == [todo[1] EXCEPT !.left = todo[1].left \ {path}]
  <2>1. todo' = [todo EXCEPT ![1] = job]
    BY <1>1, <1>3 DEF AdvancePast
  <2>2. job.op = todo[1].op
    BY <1>1, JobKinds DEF RenameJobs, MoveJobs
  <2> HIDE DEF job
  <2>3. Upwards(roadmap', job)
    BY <2>2 DEF Upwards
  <2>4. DOMAIN todo' = DOMAIN todo
        /\ \A i \in DOMAIN todo : todo'[i] = IF i = 1 THEN job ELSE todo[i]
    BY <1>1, <2>1
  <2>5. \A i \in DOMAIN todo' : Upwards(roadmap', todo'[i])
    BY <2>3, <2>4 DEF UpwardNow
  <2>6. QED
    BY <2>5 DEF UpwardNow, Rising
<1>4. QED
  BY <1>2, <1>3

\* A text that is written has nothing removed after it.
LEMMA UpwardSave == ASSUME Shaped, UpwardNow, DoSave PROVE UpwardNow'
<1>1. /\ todo # <<>> /\ todo[1].op \in {"save", "rewrite"} /\ Advance
      /\ roadmap' = todo[1].text /\ 1 \in DOMAIN todo
  BY NowIs DEF DoSave, Doing
<1>2. Rising(roadmap')
  BY <1>1 DEF UpwardNow, Upwards
<1>3. ASSUME NEW i \in DOMAIN todo' PROVE Upwards(roadmap', todo'[i])
  <2>1. i + 1 \in DOMAIN todo /\ todo'[i] = todo[i + 1] /\ i \in Nat /\ i >= 1
    BY <1>1, AdvanceIs
  <2>2. Placed(i + 1) /\ 1 \in 1 .. ((i + 1) - 1)
    BY <2>1 DEF Shaped, Queued
  <2>3. todo[i + 1].op # "excise"
    BY <1>1, <2>2 DEF Placed
  <2>4. Upwards(roadmap, todo[i + 1])
    BY <2>1 DEF UpwardNow
  <2>5. QED
    BY <2>1, <2>3, <2>4 DEF Upwards
<1>4. QED
  BY <1>2, <1>3 DEF UpwardNow, Rising

LEMMA UpwardExcise == ASSUME Shaped, UpwardNow, DoExcise PROVE UpwardNow'
<1> DEFINE ref == todo[1].ref
           text == RemoveSection(roadmap, ref)
           job == [Save(text) EXCEPT !.op = "rewrite"]
<1>1. /\ todo # <<>> /\ todo[1].op = "excise" /\ 1 \in DOMAIN todo /\ todo[1] \in Jobs
      /\ todo' = <<job>> /\ UNCHANGED roadmap /\ roadmap \in Texts
  BY NowIs DEF DoExcise, Doing, Shaped, Typing
<1>2. ref \in Refs
  BY <1>1, JobKinds DEF ExciseJobs
<1>3. job.op = "rewrite" /\ job.text = text
  BY DEF Save
<1>4. Rising(text)
  BY <1>1, <1>2, RemoveRising DEF UpwardNow, Upwards
<1> HIDE DEF job, text
<1>5. DOMAIN todo' = {1} /\ todo'[1] = job
  BY <1>1
<1>6. QED
  BY <1>1, <1>3, <1>4, <1>5 DEF UpwardNow, Upwards, Rising

LEMMA HeldFromNext == Shaped /\ HeldFrom /\ [Next]_vars => HeldFrom'
<1> SUFFICES ASSUME Shaped, HeldFrom, [Next]_vars PROVE HeldFrom'
  OBVIOUS
<1>1. CASE UNCHANGED held
  BY <1>1 DEF HeldFrom
<1>2. CASE Command \/ Step \/ Crash
  BY <1>1, <1>2 DEF Command, PhaseAdd, PhaseInsert, PhaseRemove, PhaseComplete, MilestoneComplete, Begin,
                    Step, DoMkdir, DoSave, DoRm, DoRename, DoExcise, DoTell, DoMove, DoShip, Same, Crash
<1>3. ASSUME NEW e \in Executors, NEW d \in dirs, Execute(e, d) PROVE HeldFrom'
  <2>1. \A f \in Executors : held'[f] = held[f] \/ held'[f].pc = "update"
    BY <1>3 DEF Execute, Shaped, Typing
  <2>2. QED
    BY <2>1 DEF HeldFrom
<1>4. ASSUME NEW e \in Executors, UpdatePlanProgress(e) PROVE HeldFrom'
  <2>1. roadmap \in Texts /\ held \in [Executors -> HeldJobs]
    BY DEF Shaped, Typing
  <2>2. PICK text \in {Tick(roadmap, held[e].ref), roadmap} :
          held' = [held EXCEPT ![e] = NoJob]
            \/ held' = [held EXCEPT ![e] = [pc |-> "save", base |-> roadmap, text |-> text]]
    BY <1>4 DEF UpdatePlanProgress
  <2>3. From(roadmap, text)
    BY <2>1, <2>2, TickFrom, FromItself
  <2>4. \A f \in Executors : \/ held'[f] = held[f] \/ held'[f].pc = "none"
                             \/ held'[f].base = roadmap /\ held'[f].text = text
    BY <2>1, <2>2 DEF NoJob
  <2>5. QED
    BY <2>3, <2>4 DEF HeldFrom
<1>5. ASSUME NEW e \in Executors, SaveProgress(e) PROVE HeldFrom'
  <2>1. \A f \in Executors : held'[f] = held[f] \/ held'[f].pc = "none"
    BY <1>5 DEF SaveProgress, NoJob, Shaped, Typing
  <2>2. QED
    BY <2>1 DEF HeldFrom
<1>6. QED
  BY <1>1, <1>2, <1>3, <1>4, <1>5 DEF Next, Scaffold, Prepare, vars

LEMMA UpwardNext == Shaped /\ HeldFrom /\ Upward /\ [Next]_vars => Upward'
<1> SUFFICES ASSUME Shaped, HeldFrom, Upward, [Next]_vars, marred' \cap {"renumber", "stale"} = {}
             PROVE  UpwardNow'
  BY DEF Upward, UpwardNow
<1>1. UpwardNow /\ "renumber" \notin marred' /\ "stale" \notin marred'
  BY MarredGrows DEF Upward, UpwardNow
<1>2. CASE Command
  BY <1>1, <1>2, UpwardCommand DEF UpwardNow
<1>3. CASE DoSave
  BY <1>1, <1>3, UpwardSave
<1>4. CASE DoExcise
  BY <1>1, <1>4, UpwardExcise
<1>5. CASE DoMkdir \/ DoRm \/ DoTell \/ DoShip
  <2>1. todo # <<>> /\ Advance /\ UNCHANGED roadmap
    BY <1>5 DEF DoMkdir, DoRm, DoTell, DoShip, Doing
  <2>2. QED
    BY <1>1, <2>1, UpwardAdvance
<1>6. CASE DoRename \/ DoMove
  <2>1. todo # <<>> /\ Now.op \in {"rename", "move"} /\ UNCHANGED roadmap
    BY <1>6 DEF DoRename, DoMove, Doing
  <2>2. Now = todo[1]
    BY <2>1, NowIs
  <2>3. Advance \/ \E path \in Now.left : AdvancePast(path)
    BY <1>6 DEF DoRename, DoMove
  <2>4. QED
    BY <1>1, <2>1, <2>2, <2>3, UpwardAdvance, UpwardAdvancePast
<1>7. CASE Crash
  <2>1. todo' = <<>> /\ UNCHANGED roadmap
    BY <1>7 DEF Crash
  <2>2. QED
    BY <1>1, <2>1 DEF UpwardNow, Rising
<1>8. ASSUME NEW e \in Executors, SaveProgress(e) PROVE UpwardNow'
  <2>1. roadmap' = held[e].text /\ held[e].pc = "save" /\ held[e].base = roadmap /\ UNCHANGED todo
    BY <1>1, <1>8 DEF SaveProgress, Overwrites
  <2>2. From(roadmap, roadmap')
    BY <2>1 DEF HeldFrom
  <2>3. Rising(roadmap') /\ Numbered(roadmap') \subseteq Numbered(roadmap)
    BY <1>1, <2>2, FromRising DEF UpwardNow
  <2>4. QED
    BY <1>1, <2>1, <2>3 DEF UpwardNow, Upwards, Rising
<1>9. CASE UNCHANGED <<roadmap, todo>>
  BY <1>1, <1>9 DEF UpwardNow, Upwards, Rising
<1>10. ASSUME NEW i \in DOMAIN roadmap, Scaffold(i) PROVE UNCHANGED <<roadmap, todo>>
  BY <1>10 DEF Scaffold, Agents
<1>11. ASSUME NEW d \in dirs, Prepare(d) PROVE UNCHANGED <<roadmap, todo>>
  BY <1>11 DEF Prepare, Agents
<1>12. ASSUME NEW e \in Executors, UpdatePlanProgress(e) \/ \E d \in dirs : Execute(e, d)
       PROVE  UNCHANGED <<roadmap, todo>>
  BY <1>12 DEF UpdatePlanProgress, Execute, Agents
<1>13. UNCHANGED vars => UNCHANGED <<roadmap, todo>>
  BY DEF vars
<1>14. QED
  BY <1>2, <1>3, <1>4, <1>5, <1>6, <1>7, <1>8, <1>9, <1>10, <1>11, <1>12, <1>13 DEF Next, Step

LEMMA UpwardInit == Init => HeldFrom /\ Upward
<1> SUFFICES ASSUME Init PROVE HeldFrom /\ UpwardNow
  BY DEF Upward, UpwardNow
<1>1. HeldFrom /\ todo = <<>>
  BY DEF Init, HeldFrom, NoJob
<1>2. ASSUME NEW i \in DOMAIN roadmap PROVE Below(roadmap[i].dep.num, roadmap[i].num)
  <2>1. i \in DOMAIN Outline /\ i \in Nat /\ i >= 1
    BY PhasesAssumption DEF Init, FromTemplate
  <2>2. roadmap[i] = NewSection(<<i, 0>>, Outline[i],
                       IF i = 1 THEN NoDep ELSE [num |-> <<i - 1, 0>>, pad |-> FALSE], TRUE)
    BY <2>1 DEF Init, FromTemplate
  <2>3. roadmap[i].num = <<i, 0>>
        /\ roadmap[i].dep.num = IF i = 1 THEN <<0, 0>> ELSE <<i - 1, 0>>
    BY <2>2 DEF NewSection, NoDep
  <2>4. QED
    BY <2>1, <2>3 DEF Below
<1>3. QED
  BY <1>1, <1>2 DEF UpwardNow, Rising

----------------------------------------------------------------------------
(* The dashboard has something to offer.                                     *)

LEMMA StatusIs ==
  ASSUME Shaped, NEW i \in DOMAIN roadmap
  PROVE  Status(i) \in {"complete", "no_directory", "partial", "planned", "empty", "discussed", "researched"}
<1> DEFINE num == roadmap[i].num
<1>1. DirOf(num) = {} \/ \E d \in dirs : DirOf(num) = {d}
  <2>1. CASE ExactDirs(dirs, num) = {}
    BY <2>1 DEF DirOf
  <2>2. CASE ExactDirs(dirs, num) # {}
    <3> DEFINE ds == ExactDirs(dirs, num)
    <3>1. PICK d \in ds : d.num = num
      BY <2>2 DEF ExactDirs
    <3>2. num[1] \in Nat /\ num[2] \in Nat
      BY TextIs, NumberParts DEF Shaped, Typing
    <3>3. \A e \in ds : ~Below(d.num, e.num)
      BY <3>1, <3>2 DEF ExactDirs, Below
    <3>4. FirstRead(ds) \in ds
      <4> HIDE DEF ds
      <4>1. QED
        BY <3>1, <3>3 DEF FirstRead
    <3>5. QED
      BY <2>2, <3>4 DEF DirOf, ExactDirs
  <2>3. QED
    BY <2>1, <2>2
<1>2. DiskStatus(num) \in {"complete", "no_directory", "partial", "planned", "empty", "discussed", "researched"}
  <2>1. dirs \subseteq Dirs
    BY DEF Shaped, Typing
  <2> HIDE DEF num
  <2>2. CASE DirOf(num) = {}
    BY <2>2, DiskStatusIs
  <2>3. CASE \E d \in dirs : DirOf(num) = {d}
    <3>1. PICK d \in Dirs : DirOf(num) = {d}
      BY <2>1, <2>3
    <3>2. DiskStatus(num) \in {"complete", "partial", "planned", "empty", "discussed", "researched"}
      BY <3>1, DiskStatusIs
    <3>3. QED
      BY <3>2
  <2>4. QED
    BY <1>1, <2>2, <2>3
<1>3. QED
  BY <1>2 DEF Status

\* Sections of one number have one status.
LEMMA StatusOfNumber ==
  ASSUME NEW i \in DOMAIN roadmap, NEW j \in DOMAIN roadmap, roadmap[i].num = roadmap[j].num
  PROVE  Status(i) = Status(j)
BY DEF Status

LEMMA WrittenIs == ASSUME NEW a, NEW b, Written(a) = Written(b) PROVE a = b
<1>1. Written(a).num = a /\ Written(b).num = b
  BY DEF Written
<1>2. QED
  BY <1>1

\* Only phases that are complete count as such for those that wait.
LEMMA NotComplete ==
  ASSUME NEW i \in DOMAIN roadmap, Status(i) # "complete"
  PROVE  Written(roadmap[i].num) \notin Complete
<1> SUFFICES ASSUME Written(roadmap[i].num) \in Complete PROVE FALSE
  OBVIOUS
<1>1. PICK j \in WithStatus({"complete"}) : Written(roadmap[j].num) = Written(roadmap[i].num)
  BY DEF Complete
<1>2. j \in DOMAIN roadmap /\ Status(j) = "complete" /\ roadmap[j].num = roadmap[i].num
  BY <1>1, WrittenIs DEF WithStatus
<1>3. QED
  BY <1>2, StatusOfNumber

LEMMA ReachesOfNumber ==
  ASSUME NEW i \in DOMAIN roadmap, NEW j \in DOMAIN roadmap, roadmap[i].num = roadmap[j].num
  PROVE  Reaches(i) = Reaches(j)
BY DEF Reaches

\* A phase reaches what the last section of its number waits for.
LEMMA ReachesDirectly ==
  ASSUME NEW j \in DOMAIN roadmap, roadmap[j].dep # NoDep,
         \A k \in DOMAIN roadmap : roadmap[k].num = roadmap[j].num => k <= j
  PROVE  roadmap[j].dep \in Reaches(j)
<1>1. <<Written(roadmap[j].num), roadmap[j].dep>> \in Waits
  BY DEF Waits
<1> DEFINE wait == <<Written(roadmap[j].num), roadmap[j].dep>>
<1>2. wait[1] = Written(roadmap[j].num) /\ wait[2] = roadmap[j].dep
  OBVIOUS
<1> HIDE DEF wait
<1>3. QED
  BY <1>1, <1>2 DEF Reaches, wait

\* Two phases that wait only for complete ones, and are not complete, are independent.
LEMMA Unrelated ==
  ASSUME NEW i \in DOMAIN roadmap, NEW j \in DOMAIN roadmap,
         Status(i) # "complete", Status(j) # "complete",
         Reaches(i) \subseteq Complete, Reaches(j) \subseteq Complete
  PROVE  ~HasDepRelationship(i, j)
BY NotComplete DEF HasDepRelationship

\* Some section of a set has the least number.
Key(num) == 10 * num[1] + num[2]
LEMMA LeastIs ==
  ASSUME Shaped, NEW is \in SUBSET DOMAIN roadmap, is # {}
  PROVE  \E i \in is : \A j \in is : ~Below(roadmap[j].num, roadmap[i].num)
<1> DEFINE keys == {Key(roadmap[i].num) : i \in is}
<1>1. \A i \in is : /\ roadmap[i].num[1] \in Nat /\ roadmap[i].num[1] <= 9
                    /\ roadmap[i].num[2] \in Nat /\ roadmap[i].num[2] <= 9
  BY TextIs, NumberParts DEF Shaped, Typing
<1>2. \A i \in is : Key(roadmap[i].num) \in Nat
  BY <1>1 DEF Key
<1>3. keys \in SUBSET Nat /\ keys # {}
  BY <1>2
<1>4. Min(keys) \in keys /\ \A x \in keys : Min(keys) <= x
  <2> HIDE DEF keys
  <2>1. QED
    BY <1>3, MinIs
<1>5. PICK i \in is : \A j \in is : Key(roadmap[i].num) <= Key(roadmap[j].num)
  BY <1>4
<1>6. ASSUME NEW j \in is PROVE ~Below(roadmap[j].num, roadmap[i].num)
  BY <1>1, <1>5 DEF Key, Below
<1>7. QED
  BY <1>6

\* The last section of a number.
LEMMA LastIs ==
  ASSUME Shaped, NEW i \in DOMAIN roadmap
  PROVE  \E j \in DOMAIN roadmap :
            /\ roadmap[j].num = roadmap[i].num
            /\ \A k \in DOMAIN roadmap : roadmap[k].num = roadmap[j].num => k <= j
<1> DEFINE same == {k \in DOMAIN roadmap : roadmap[k].num = roadmap[i].num}
<1>1. DOMAIN roadmap = 1 .. Len(roadmap) /\ Len(roadmap) \in Nat
  BY TextIs DEF Shaped, Typing
<1>2. same \in SUBSET (0 .. Len(roadmap)) /\ i \in same
  BY <1>1
<1>3. Max(same) \in same /\ \A k \in same : k <= Max(same)
  <2> HIDE DEF same
  <2>1. QED
    BY <1>1, <1>2, MaxIs
<1>4. QED
  BY <1>3

\* What is to plan: any of it that has changed of late is independent of the rest.
LEMMA SomethingToPlan ==
  ASSUME ToPlan # {},
         NEW recent \in SUBSET (DOMAIN roadmap), \A i \in recent : Reaches(i) \subseteq Complete
  PROVE  Independent(ToPlan, ActivePlanning(recent)) # {}
<1>1. ActivePlanning(recent) \subseteq ToPlan /\ ActivePlanning(recent) \subseteq recent
  BY DEF ActivePlanning, ToPlan
<1>2. \A i \in ToPlan : i \in DOMAIN roadmap /\ Status(i) # "complete"
  BY DEF ToPlan, WithStatus
<1>3. CASE ActivePlanning(recent) = {}
  BY <1>3 DEF Independent
<1>4. ASSUME NEW i \in ActivePlanning(recent) PROVE i \in Independent(ToPlan, ActivePlanning(recent))
  <2>1. \A j \in ActivePlanning(recent) : ~HasDepRelationship(i, j)
    BY <1>1, <1>2, Unrelated
  <2>2. QED
    BY <1>1, <2>1 DEF Independent
<1>5. QED
  BY <1>3, <1>4

\* When everything is planned or complete, the least planned phase waits only for
\* complete ones; and so does one that has changed of late.
LEMMA SomethingToExecute ==
  ASSUME Shaped, Rising(roadmap),
         \A i \in DOMAIN roadmap : Status(i) \in {"complete", "planned"},
         WithStatus({"planned"}) # {},
         \A i \in WithStatus({"planned"}) : ~Dangling(i),
         NEW recent \in SUBSET (DOMAIN roadmap), \A i \in recent : Reaches(i) \subseteq Complete
  PROVE  Independent(ToExecute, ActiveExecuting(recent)) # {}
<1> DEFINE planned == WithStatus({"planned"})
           active == ActiveExecuting(recent)
<1>1. \A i \in planned : i \in DOMAIN roadmap /\ Status(i) = "planned"
  BY DEF WithStatus
<1>2. active = planned \cap recent
  BY DEF ActiveExecuting, WithStatus
<1>3. CASE active = {}
  <2>1. PICK i \in planned : \A j \in planned : ~Below(roadmap[j].num, roadmap[i].num)
    <3>1. planned \in SUBSET DOMAIN roadmap
      BY DEF WithStatus
    <3> HIDE DEF planned
    <3>2. QED
      BY <3>1, LeastIs DEF planned
  <2>2. DepsSatisfied(i)
    <3>1. CASE roadmap[i].dep = NoDep
      BY <3>1 DEF DepsSatisfied
    <3>2. CASE roadmap[i].dep # NoDep
      <4>1. PICK j \in DOMAIN roadmap : Written(roadmap[j].num) = roadmap[i].dep
        BY <3>2 DEF Dangling
      <4>2. roadmap[i].dep.num = roadmap[j].num
        BY <4>1 DEF Written
      <4>3. Below(roadmap[j].num, roadmap[i].num)
        BY <1>1, <4>2 DEF Rising
      <4>4. j \notin planned
        BY <2>1, <4>3
      <4>5. j \in WithStatus({"complete"})
        BY <4>4 DEF WithStatus
      <4>6. roadmap[i].dep \in Complete
        BY <4>1, <4>5 DEF Complete
      <4>7. QED
        BY <4>6 DEF DepsSatisfied
    <3>3. QED
      BY <3>1, <3>2
  <2>3. i \in ToExecute
    BY <2>1, <2>2 DEF ToExecute
  <2>4. QED
    BY <1>3, <2>3 DEF Independent
<1>4. ASSUME NEW i \in active PROVE Independent(ToExecute, active) # {}
  <2>1. i \in planned /\ i \in DOMAIN roadmap /\ Status(i) = "planned" /\ Reaches(i) \subseteq Complete
    BY <1>1, <1>2, <1>4
  <2>2. PICK j \in DOMAIN roadmap :
          /\ roadmap[j].num = roadmap[i].num
          /\ \A k \in DOMAIN roadmap : roadmap[k].num = roadmap[j].num => k <= j
    BY <2>1, LastIs
  <2>3. Status(j) = "planned" /\ Reaches(j) \subseteq Complete
    BY <2>1, <2>2, StatusOfNumber, ReachesOfNumber
  <2>4. DepsSatisfied(j)
    BY <2>2, <2>3, ReachesDirectly DEF DepsSatisfied
  <2>5. j \in ToExecute
    BY <2>3, <2>4 DEF ToExecute, WithStatus
  <2>6. \A k \in active : ~HasDepRelationship(j, k)
    BY <1>1, <1>2, <2>3, Unrelated
  <2>7. QED
    BY <2>5, <2>6 DEF Independent
<1> HIDE DEF active
<1>5. QED
  BY <1>3, <1>4 DEF active

LEMMA ManagerHas == Shaped /\ Upward => ManagerHasNext
<1> SUFFICES ASSUME Shaped, Upward, roadmap # <<>>, marred \cap {"renumber", "stale"} = {},
                    ~AllComplete, WithStatus({"partial"}) = {},
                    \A i \in WithStatus({"planned"}) : ~Dangling(i), ToDiscuss = {},
                    NEW recent \in SUBSET {i \in WithStatus({"planned", "discussed", "researched"}) :
                                             Reaches(i) \subseteq Complete}
             PROVE  RecommendedActions(recent) # {}
  BY DEF ManagerHasNext
<1>1. Rising(roadmap)
  BY DEF Upward
<1>2. recent \in SUBSET (DOMAIN roadmap) /\ \A i \in recent : Reaches(i) \subseteq Complete
  BY DEF WithStatus
<1>3. WithStatus({"empty", "no_directory"}) = {}
  BY DEF ToDiscuss
<1>4. CASE ToPlan # {}
  BY <1>2, <1>4, SomethingToPlan DEF RecommendedActions
<1>5. CASE ToPlan = {}
  <2>1. \A i \in DOMAIN roadmap : Status(i) \in {"complete", "planned"}
    BY <1>3, <1>5, StatusIs DEF ToPlan, WithStatus
  <2>2. WithStatus({"planned"}) # {}
    BY <2>1 DEF AllComplete, WithStatus
  <2>3. Independent(ToExecute, ActiveExecuting(recent)) # {}
    BY <1>1, <1>2, <2>1, <2>2, SomethingToExecute
  <2>4. QED
    BY <2>3 DEF RecommendedActions
<1>6. QED
  BY <1>4, <1>5

\* The dashboard has something to offer until all is complete, unless it waits for a
\* phase under way or for a dependency that names no phase: sections wait for earlier
\* ones, through every command that adds, inserts or removes without renumbering.
THEOREM ManagerAlwaysHasNext == Spec => []ManagerHasNext
<1>1. Init => Shaped /\ HeldFrom /\ Upward
  BY ShapedInit, UpwardInit
<1>2. Shaped /\ HeldFrom /\ Upward /\ [Next]_vars => (Shaped /\ HeldFrom /\ Upward)'
  BY ShapedNext, HeldFromNext, UpwardNext
<1>3. QED
  BY <1>1, <1>2, ManagerHas, PTL DEF Spec
=============================================================================
