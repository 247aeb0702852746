------------------------------ MODULE Workspace ------------------------------
(* The directory .planning/ as the processes of gsd-tools share it: the      *)
(* workstream commands, the commands on config.json and the todos, health    *)
(* --repair, and crashes at any step.                                        *)
EXTENDS Settings

vars == <<tree, made, proc, ops, faults, excused, store>>

Places == Names \cup {None}
\* A process dies; what it has done to the disk stays.
Crash(p) ==
    LET r == proc[p]
    IN /\ r.pc # "idle" /\ Fault
       /\ Go(p, Idle)
       /\ excused' = excused \cup (IF r.on \cap Places = {} THEN {} ELSE {"crash"})
                             \cup (IF r.pc = "fill" THEN {"torn"} ELSE {})
       /\ UNCHANGED <<tree, made, ops, store>>

Init == WorkstreamInit /\ SettingsInit
Next == \/ \E p \in Procs : \/ WorkstreamStep(p) /\ UNCHANGED store
                            \/ SettingsStep(p)
                            \/ Crash(p)
        \/ RepoAppears
Spec == Init /\ [][Next]_vars

-----------------------------------------------------------------------------
Steps == {"idle", "guard", "mkdir", "move", "undo", "clean", "dirs", "state", "activate",
          "shelve", "out", "back", "rmdir", "rmroot", "trunc", "fill", "read",
          "sync", "repair", "regenerate", "todoTrunc", "todoFill", "unlink"}

\* The types, and what the directories are to each other: only a directory that exists
\* has entries, .planning/workstreams/ exists while a workstream does, and no directory
\* but for the copies of STATE.md holds two entries of one name.
TypeOK ==
    /\ root \subseteq Entries
    /\ ws \in [Names -> SUBSET Entries] /\ archive \in [Shelves -> SUBSET Entries]
    /\ live \subseteq Names /\ shelves \subseteq Shelves
    /\ wsRoot \in BOOLEAN /\ (live # {} => wsRoot)
    /\ active \in Places
    /\ made \subseteq Entries
    /\ config \in Configs /\ repos \in 0 .. 1 /\ acked \in [Keys -> Values]
    /\ pending \in BOOLEAN /\ done \in {"none", "torn", "whole"}
    /\ ops \in 0 .. MaxOps /\ faults \in 0 .. MaxFaults
    /\ \A p \in Procs : proc[p].pc \in Steps /\ proc[p].left \cap proc[p].moved = {}
    /\ \A n \in Names \ live : ws[n] = {}
    /\ \A s \in Shelves \ shelves : archive[s] = {}
    /\ \A dir \in {Dir(n) : n \in Places} \cup {archive[s] : s \in Shelves} :
         \A e, f \in dir : e.item = f.item /\ e.item # "BACKUP" => e = f

Contested == excused \cap Places # {}
AllDirs == {Dir(n) : n \in Places} \cup {archive[s] : s \in Shelves}

\* No planning file is ever lost: through migration, completion, their rollbacks, health
\* repairs and crashes, everything written is still at the root, in a workstream or in an
\* archive, or is the backup a repair took (workstream.cjs:45-64, 308-324, verify.cjs:789-796).
\* It takes two commands on the same directory, or a second failure inside a rollback.
NothingLost ==
    \/ Contested \/ "rollback" \in excused
    \/ \A e \in made : \E dir \in AllDirs :
         e \in dir \/ (e.item = "STATE" /\ Backup(e) \in dir)

\* The files the project started with are never torn apart: they are together in one
\* directory, except while a command moves them or after one was killed doing so.
StaysTogether ==
    \/ Contested \/ excused \cap {"rollback", "crash"} # {}
    \/ \E p \in Procs : proc[p].pc \in {"move", "undo", "out", "back"}
    \/ \E dir \in AllDirs : \A e \in made : e.by = 0 =>
         e \in dir \/ (e.item = "STATE" /\ Backup(e) \in dir)

Answers(p) == proc[p].pc # "idle" /\ proc'[p].pc = "idle" /\ faults' = faults
\* What the reply of p says is so.
Reply(p) ==
    LET r == proc[p]
    IN CASE r.pc = "clean" -> r.seen \subseteq root' /\ (r.to \in live' => "removal" \in excused')
         [] r.pc = "back" -> ws'[r.name] = r.seen /\ (r.was => active' = r.name)
         [] r.pc = "rmroot" -> /\ archive'[<<r.name, r.shelf>>] = r.seen
                               /\ r.name \in live' => "removal" \in excused'
         [] r.pc = "activate" -> /\ r.name \in live' /\ active' = r.name
                                 /\ {"STATE", "phases"} \subseteq ItemsOf(ws'[r.name])
                                 /\ \A e \in r.seen : e.item \in r.moved => e \in ws'[r.to]
         [] OTHER -> TRUE

\* A reply tells what the disk holds: "migration_failed" and "archive_failed" leave
\* everything where it was, "completed" has the whole workstream in the archive and its
\* directory gone, "created" names a workstream that is complete, active and, if the
\* project was migrated, beside the migrated files (workstream.cjs:117-168, 314-338).  A
\* directory is still there only where removing one failed, which the code does not look at.
RepliesAreTrue ==
    [][\A p \in Procs : Answers(p) /\ ~Contested' /\ "rollback" \notin excused' => Reply(p)]_vars

\* What config-set reported is in config.json until the same key is set again, whatever is
\* loaded, migrated or repaired in between (config.cjs:270-303, core.cjs:222-265,
\* verify.cjs:762-834), unless two commands rewrote the file at once or one died writing it.
\* Of planning.commit_docs that is so until a command turns multiRepo into a list, which
\* sets it to false over whatever the user chose (core.cjs:238-246).
SettingsKept ==
    \/ "config" \in excused \/ "torn" \in excused
    \/ \E p \in Procs : proc[p].pc = "fill"
    \/ \A k \in Keys : acked[k] # Absent => IsJson /\ config.val[k] = acked[k]

\* One health --repair is enough: when it answers, STATE.md is there if it regenerated it,
\* and config.json needs no second repair if it needed one (verify.cjs:762-834), unless
\* another command worked on the same file meanwhile.
RepairSettles ==
    [][\A p \in Procs :
         /\ Answers(p) /\ proc[p].pc = "repair"
         /\ excused = {} /\ \A q \in Others(p) : proc[q] = Idle
         => LET found == proc[p].seen
                again == Repairable(proc[p].name)
            IN  /\ "regenerateState" \in found => "regenerateState" \notin again
                /\ ~(found \subseteq {"regenerateState"}) => again \subseteq {"regenerateState"}]_vars

\* A todo is pending or its completed copy is whole, also after a crash between the steps
\* of todo complete (commands.cjs:715-721); two that complete it at once may lose it.
TodoKept == "todo" \in excused \/ pending \/ done = "whole"
=============================================================================
