------------------------------- MODULE Phases -------------------------------
(* The commands of the planning tools on phases (phase.cjs, roadmap.cjs,     *)
(* milestone.cjs): one session runs them, each a list of file operations     *)
(* that a crash may cut short, while executor agents finish plans and update *)
(* ROADMAP.md on their own.  No lock guards ROADMAP.md.  What the commands   *)
(* write to STATE.md is in StateContent.                                     *)
EXTENDS Roadmap

CONSTANTS Outline,     \* names of the phases a project starts with
          Executors,   \* executor agents that run beside each other
          MaxOps,      \* bound on the commands of the session
          MaxWork,     \* bound on what agents do to the phase directories
          MaxFaults    \* bound on its crashes

ASSUME PhasesAssumption ==
    /\ Outline \in Seq(Names) /\ Len(Outline) <= MaxInt
    /\ {MaxOps, MaxWork, MaxFaults} \subseteq Nat

VARIABLES roadmap,   \* the sections of ROADMAP.md, in the order of the file
          dirs,      \* the phase directories
          archive,   \* those under milestones/
          todo,      \* file operations the running command has still to do
          held,      \* what each executor is about to do to ROADMAP.md
          said,      \* what the last phase complete reported
          shipped,   \* milestone complete --archive-phases has ended
          ops, work, faults,
          done,      \* summaries written under each name, without those removed by force
          marred     \* what has happened that keeps disk and text apart
vars == <<roadmap, dirs, archive, todo, held, said, shipped, ops, work, faults, done, marred>>

NoJob == [pc |-> "none"]
Unsaid == [num |-> <<0, 0>>, last |-> FALSE, next |-> <<0, 0>>]
Save(text) == [op |-> "save", text |-> text, base |-> roadmap]
Path(d) == <<d.num, d.name>>
At(ds, d) == {e \in ds : Path(e) = Path(d)}

\* A project whose first phases are scaffolded, and planned or not.
Init == /\ roadmap = FromTemplate(Outline)
        /\ \E k \in 0 .. Len(Outline), planned \in 0 .. 1 :
             dirs = {[NewDir(<<i, 0>>, Outline[i]) EXCEPT !.plans = planned] : i \in 1 .. k}
        /\ archive = {}
        /\ todo = <<>>
        /\ held = [e \in Executors |-> NoJob]
        /\ said = Unsaid
        /\ shipped = FALSE
        /\ ops = 0 /\ work = 0 /\ faults = 0
        /\ done = [n \in Names |-> 0]
        /\ marred = {}

----------------------------------------------------------------------------
(* The commands: what they look at first, and what they will do.             *)

Idle == todo = <<>> /\ ~shipped
Begin(queue) == /\ ops' = ops + 1
                /\ todo' = queue
                /\ UNCHANGED <<roadmap, dirs, archive, held, said, shipped, work, faults, done>>

Mkdir(num, name) == [op |-> "mkdir", dir |-> NewDir(num, name)]

\* VARIANT, for the mutation runs: ROADMAP.md is written first.
PhaseAddTextFirst(name) ==
    /\ NextInteger(roadmap) <= MaxInt
    /\ Begin(<<Save(AddSection(roadmap, name)), Mkdir(<<NextInteger(roadmap), 0>>, name)>>)
    /\ UNCHANGED marred
PhaseAdd(name) ==
    /\ NextInteger(roadmap) <= MaxInt
    /\ Begin(<<Mkdir(<<NextInteger(roadmap), 0>>, name), Save(AddSection(roadmap, name))>>)
    /\ UNCHANGED marred

PhaseInsert(ref, name) ==
    LET num == <<ref.num[1], NextDecimal(dirs, ref.num[1])>>
    IN  /\ ~IsDecimal(ref.num) /\ ref.num \in Numbered(roadmap)
        /\ num[2] <= MaxDec
        /\ Begin(<<Mkdir(num, name), Save(InsertSection(roadmap, ref, num, name))>>)
        /\ UNCHANGED marred

\* Removing what others follow, or what the text writes in another form, leaves
\* directories and sections with different numbers.
Untidy(ref) == \/ ref # Written(ref.num)
               \/ Later(dirs, ref.num) # {}
               \/ \E n \in Numbered(roadmap) :
                    IF IsDecimal(ref.num) THEN n[1] = ref.num[1] /\ n[2] > ref.num[2]
                                          ELSE n[1] > ref.num[1]

Target(num) == FirstOf(ExactDirs(dirs, num))
RemovalSteps(ref, force) ==
    LET late == {Path(d) : d \in Later(dirs, ref.num)}
    IN  (IF Target(ref.num) = {} THEN <<>>
         ELSE <<[op |-> "rm", dir |-> FirstSorted(ExactDirs(dirs, ref.num)), force |-> force]>>)
        \o (IF late = {} THEN <<>> ELSE <<[op |-> "rename", left |-> late, ref |-> ref]>>)
        \o <<[op |-> "excise", ref |-> ref]>>
\* VARIANT, for the mutation runs: executed work is no obstacle.
PhaseRemoveUnguarded(ref, force) ==
    /\ Begin(RemovalSteps(ref, force))
    /\ marred' = IF Untidy(ref) THEN marred \cup {"renumber"} ELSE marred
\* An executed phase is only removed by force.  Nothing asks whether there is a phase
\* of this number: those after it are renumbered all the same.
PhaseRemove(ref, force) ==
    /\ force \/ \A d \in Target(ref.num) : d.sums = 0
    /\ Begin(RemovalSteps(ref, force))
    /\ marred' = IF Untidy(ref) THEN marred \cup {"renumber"} ELSE marred

FindPhase(num) == IF SearchPhase(dirs, num) # {} THEN SearchPhase(dirs, num)
                                                 ELSE SearchPhase(archive, num)

\* Nothing asks for summaries: the verification of a phase is another command's.
PhaseComplete(ref) == /\ FindPhase(ref.num) # {}
                      /\ Begin(<<Save(Tick(roadmap, ref)), [op |-> "tell", num |-> ref.num]>>)
                      /\ UNCHANGED marred

Mine == {d \in dirs : InMilestone(roadmap, d)}
Shipping(ds) == (IF ds = {} THEN <<>> ELSE <<[op |-> "move", left |-> {Path(d) : d \in ds}]>>)
                \o <<[op |-> "ship"]>>
\* VARIANT, for the mutation runs: inserted phases are left behind.
MilestoneCompleteIntegers ==
    /\ \E archivePhases \in BOOLEAN :
         Begin(IF archivePhases THEN Shipping({d \in Mine : ~IsDecimal(d.num)}) ELSE <<>>)
    /\ UNCHANGED marred
\* ROADMAP.md is copied, and with --archive-phases the directories are moved one by one.
MilestoneComplete == /\ \E archivePhases \in BOOLEAN :
                          Begin(IF archivePhases THEN Shipping(Mine) ELSE <<>>)
                     /\ UNCHANGED marred

\* The session takes one command after the other.
Command == /\ Idle /\ ops < MaxOps
           /\ \/ \E name \in Names : PhaseAdd(name)
              \/ \E ref \in Refs, name \in Names : PhaseInsert(ref, name)
              \/ \E ref \in Refs, force \in BOOLEAN : PhaseRemove(ref, force)
              \/ \E ref \in Refs : PhaseComplete(ref)
              \/ MilestoneComplete

----------------------------------------------------------------------------
(* The file operations, one after the other.                                 *)

Now == Head(todo)
Doing(op) == todo # <<>> /\ Now.op = op
Advance == todo' = Tail(todo)
\* An operation on several directories takes them one after the other.
AdvancePast(path) == todo' = IF Now.left = {path} THEN Tail(todo)
                             ELSE [todo EXCEPT ![1].left = @ \ {path}]
Same == UNCHANGED <<held, shipped, ops, work, faults>>

\* mkdirSync with recursive accepts a directory that is there.
DoMkdir == /\ Doing("mkdir") /\ Advance
           /\ dirs' = IF At(dirs, Now.dir) # {} THEN dirs ELSE dirs \cup {Now.dir}
           /\ UNCHANGED <<roadmap, archive, said, done, marred>> /\ Same

\* The text replaces what others may have written since it was read.
Overwrites(job) == IF job.base = roadmap THEN marred ELSE marred \cup {"stale"}
DoSave == /\ Doing("save") \/ Doing("rewrite")
          /\ Advance
          /\ roadmap' = Now.text
          /\ marred' = Overwrites(Now)
          /\ UNCHANGED <<dirs, archive, said, done>> /\ Same

\* What an executor wrote since the look at the summaries goes as well.
DoRm == /\ Doing("rm") /\ Advance
        /\ LET gone == At(dirs, Now.dir)
               sums == IF gone = {} THEN 0 ELSE (CHOOSE d \in gone : TRUE).sums
           IN  /\ dirs' = dirs \ gone
               /\ done' = [done EXCEPT ![Now.dir.name] = @ - IF Now.force THEN sums ELSE 0]
               /\ marred' = IF sums > Now.dir.sums THEN marred \cup {"race"} ELSE marred
        /\ UNCHANGED <<roadmap, archive, said>> /\ Same

\* The last number first.  renameSync replaces a directory that is empty, and fails
\* on one that is not: the error is dropped, and the renames that follow with it.
DoRename ==
    /\ Doing("rename")
    /\ \E path \in Now.left :
         LET num == Lowered(path[1], Now.ref.num)
             from == CHOOSE d \in dirs : Path(d) = path
             there == {d \in dirs : Path(d) = <<num, path[2]>>}
         IN  /\ \A other \in Now.left : ~Below(path[1], other[1])
             /\ \/ /\ \A d \in there : d.plans = 0 /\ d.prep = "none"
                   /\ dirs' = (dirs \ ({from} \cup there)) \cup {[from EXCEPT !.num = num]}
                   /\ AdvancePast(path)
                \/ there # {} /\ Advance /\ UNCHANGED dirs
    /\ UNCHANGED <<roadmap, archive, said, done, marred>> /\ Same

\* ROADMAP.md is read only now.
DoExcise == /\ Doing("excise")
            /\ todo' = <<[Save(RemoveSection(roadmap, Now.ref)) EXCEPT !.op = "rewrite"]>>
            /\ UNCHANGED <<roadmap, dirs, archive, said, done, marred>> /\ Same

\* The next phase is looked for in the directories, then in ROADMAP.md.
NextDirs(num) == {d \in Mine : Below(num, d.num)}
NextHeadings(num) == {i \in DOMAIN roadmap : Below(num, roadmap[i].num)}
\* VARIANT, for the mutation runs: only the directories are looked at.
TellDirs(num) ==
    IF NextDirs(num) = {} THEN [num |-> num, last |-> TRUE, next |-> <<0, 0>>]
    ELSE [num |-> num, last |-> FALSE, next |-> FirstSorted(NextDirs(num)).num]
TellNext(num) ==
    LET ds == NextDirs(num)  hs == NextHeadings(num)
    IN  [num |-> num, last |-> ds = {} /\ hs = {},
         next |-> IF ds # {} THEN FirstSorted(ds).num
                  ELSE IF hs # {} THEN roadmap[Min(hs)].num ELSE <<0, 0>>]
DoTell == /\ Doing("tell") /\ Advance
          /\ said' = TellNext(Now.num)
          /\ UNCHANGED <<roadmap, dirs, archive, done, marred>> /\ Same

\* In the order of readdir.  A failing rename ends the loop; the command reports its
\* end all the same.
DoMove == /\ Doing("move")
          /\ \E path \in Now.left :
               LET from == CHOOSE d \in dirs : Path(d) = path
               IN  IF At(archive, from) = {}
                     THEN dirs' = dirs \ {from} /\ archive' = archive \cup {from} /\ AdvancePast(path)
                     ELSE Advance /\ UNCHANGED <<dirs, archive>>
          /\ UNCHANGED <<roadmap, said, done, marred>> /\ Same

DoShip == /\ Doing("ship") /\ Advance
          /\ shipped' = TRUE
          /\ UNCHANGED <<roadmap, dirs, archive, held, said, ops, work, faults, done, marred>>

Step == DoMkdir \/ DoSave \/ DoRm \/ DoRename \/ DoExcise \/ DoTell \/ DoMove \/ DoShip

Removing == \E i \in DOMAIN todo : todo[i].op \in {"excise", "rewrite"}

\* A command is killed between two operations, and nothing takes it up again.
Crash == /\ todo # <<>> /\ faults < MaxFaults
         /\ faults' = faults + 1
         /\ todo' = <<>>
         /\ marred' = marred \cup {IF Removing THEN "cut" ELSE "crash"}
         /\ UNCHANGED <<roadmap, dirs, archive, held, said, shipped, ops, work, done>>

----------------------------------------------------------------------------
(* The agents.                                                               *)

Replace(old, new) == /\ work < MaxWork
                     /\ work' = work + 1
                     /\ dirs' = (dirs \ old) \cup {new}
Agents == UNCHANGED <<roadmap, archive, todo, said, shipped, ops, faults, marred>>

\* scaffold phase-dir, for a section without a directory.
Scaffold(i) == /\ Idle
               /\ ExactDirs(dirs, roadmap[i].num) = {}
               /\ Replace({}, NewDir(roadmap[i].num, roadmap[i].name))
               /\ UNCHANGED <<held, done>> /\ Agents

\* scaffold context, and the agents that research and plan.
Prepare(d) == /\ Idle
              /\ \/ d.prep = "none" /\ Replace({d}, [d EXCEPT !.prep = "context"])
                 \/ d.prep = "context" /\ Replace({d}, [d EXCEPT !.prep = "research"])
                 \/ d.plans < MaxPlans /\ Replace({d}, [d EXCEPT !.plans = @ + 1])
              /\ UNCHANGED <<held, done>> /\ Agents

\* An executor writes the summary of a plan, then updates ROADMAP.md.
Execute(e, d) == /\ held[e] = NoJob
                 /\ d.sums < d.plans
                 /\ Replace({d}, [d EXCEPT !.sums = @ + 1])
                 /\ done' = [done EXCEPT ![d.name] = @ + 1]
                 /\ \E pad \in BOOLEAN :
                      held' = [held EXCEPT ![e] = [pc |-> "update",
                                                   ref |-> [num |-> d.num, pad |-> pad]]]
                 /\ Agents

\* roadmap update-plan-progress: the box is checked once every plan has a summary,
\* and the file is written in any case.
UpdatePlanProgress(e) ==
    /\ held[e].pc = "update"
    /\ LET hit == FindPhase(held[e].ref.num)
           complete == \A d \in hit : d.sums >= d.plans
       IN  held' = [held EXCEPT ![e] =
             IF \A d \in hit : d.plans = 0 THEN NoJob
             ELSE [pc |-> "save", base |-> roadmap,
                   text |-> IF complete THEN Tick(roadmap, held[e].ref) ELSE roadmap]]
    /\ UNCHANGED <<dirs, work, done>> /\ Agents

SaveProgress(e) == /\ held[e].pc = "save"
                   /\ roadmap' = held[e].text
                   /\ marred' = Overwrites(held[e])
                   /\ held' = [held EXCEPT ![e] = NoJob]
                   /\ UNCHANGED <<dirs, archive, todo, said, shipped, ops, work, faults, done>>

Next == \/ Command \/ Step \/ Crash
        \/ \E i \in DOMAIN roadmap : Scaffold(i)
        \/ \E d \in dirs : Prepare(d)
        \/ \E e \in Executors : UpdatePlanProgress(e) \/ SaveProgress(e)
                                \/ \E d \in dirs : Execute(e, d)

Spec == Init /\ [][Next]_vars

----------------------------------------------------------------------------
(* Properties.                                                               *)

\* ROADMAP.md, the directories and what was reported have their types.
TypeOK == /\ roadmap \in Seq(Sections)
          /\ dirs \subseteq Dirs /\ archive \subseteq Dirs
          /\ said.last \in BOOLEAN
          /\ shipped \in BOOLEAN
          /\ ops \in 0 .. MaxOps /\ work \in 0 .. MaxWork /\ faults \in 0 .. MaxFaults
          /\ marred \subseteq {"renumber", "stale", "race", "cut", "crash"}

\* The summaries under a name, each with its directory.
Summaries(ds, name) == {file \in ds \X (1 .. MaxPlans) : file[1].name = name /\ file[2] <= file[1].sums}

\* Every summary an executor has written is in a directory of the name of its
\* phase, in phases/ or in the archive, through renumbering, archiving and
\* crashes, until it is removed by force, or written while its phase is removed.
NoWorkLost == "race" \notin marred =>
    \A n \in Names : Cardinality(Summaries(dirs, n)) + Cardinality(Summaries(archive, n)) = done[n]

\* Looking for a phase finds its directory when it has one, though the names of
\* its decimal phases start with the same text.
FindIsExact == \A num \in Numbers :
    ExactDirs(dirs, num) # {} => SearchPhase(dirs, num) \subseteq ExactDirs(dirs, num)

HasDir(s) == \E d \in dirs \cup archive : Path(d) = <<s.num, s.name>>

\* Between commands, disk and ROADMAP.md name the same phases with the same
\* numbers, unless a command was cut short, a text was overwritten, or a phase
\* was removed that others follow.
NumbersAgree == (todo = <<>> /\ marred = {}) =>
    /\ Cardinality(Numbered(roadmap)) = Len(roadmap)
    /\ \A d \in dirs \cup archive :
          \E i \in DOMAIN roadmap : Path(d) = <<roadmap[i].num, roadmap[i].name>>

\* A phase that was added or inserted has its directory as soon as ROADMAP.md
\* lists it: a crash in between leaves a directory too many, never a section.
AddedHasDirectory == (marred \subseteq {"crash"} /\ ~Removing) =>
    \A i \in DOMAIN roadmap : roadmap[i].listed \/ HasDir(roadmap[i])

\* Sections and checked boxes stay in ROADMAP.md, whoever writes it, but for
\* phase remove, and for writes of a text that others have changed meanwhile.
RoadmapKeeps == [][(marred' \subseteq {"crash"} /\ ~Removing) =>
    \A i \in DOMAIN roadmap : \E j \in DOMAIN roadmap' :
        /\ roadmap'[j].num = roadmap[i].num /\ roadmap'[j].name = roadmap[i].name
        /\ roadmap[i].box = "done" => roadmap'[j].box = "done"]_vars

\* phase complete calls a phase the last one only if no directory of the
\* milestone and no section of ROADMAP.md comes after it, whether or not the
\* phases were scaffolded; and the next one it names does come after it.
LastIsLast == [][said' # said =>
    /\ said'.last => \A n \in Numbered(roadmap) : ~Below(said'.num, n)
    /\ ~said'.last => Below(said'.num, said'.next)]_vars

\* milestone complete --archive-phases leaves no directory of the milestone behind, also when it
\* takes over from one that was cut short, unless the archive has one like it.
ArchiveIsWhole == (shipped /\ "stale" \notin marred) =>
    \/ \A d \in dirs : ~InMilestone(roadmap, d)
    \/ \E d \in dirs : At(archive, d) # {}
=============================================================================
