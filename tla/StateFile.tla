----------------------------- MODULE StateFile -----------------------------
(* STATE.md of the planning tools (get-shit-done/bin/lib/state.cjs): agents  *)
(* run commands that read the whole file, edit it, derive its frontmatter    *)
(* from the body, and only then take a lock file to write it back.           *)
EXTENDS Integers, FiniteSets, StateContent

CONSTANTS Procs,        \* processes that run gsd-tools on STATE.md
          ParallelOps,  \* the commands checked beside each other
          MaxTries,     \* maxRetries of the lock
          MaxSums,      \* bound on the summaries that agents write
          MaxRuns,      \* bound on the commands that run
          MaxFaults     \* bound on crashes, stalls and open errors

ASSUME FileAssumption ==
    /\ ParallelOps \subseteq Ops
    /\ MaxTries \in Nat \ {0}
    /\ MaxSums \in 0 .. MaxPlans
    /\ MaxRuns \in Nat
    /\ MaxFaults \in Nat

VARIABLES file,     \* what STATE.md holds
          lock,     \* STATE.md.lock: who made it, and whether it is over 10 s old
          proc,     \* what each process is doing
          disk,     \* plans and summaries of the phase directories
          runs, faults,
          beside,   \* whether agents run their commands beside each other
          acked,    \* entries a command reported as added, and none removed since
          forced    \* a lock was passed by or removed by who does not own it
vars == <<file, lock, proc, disk, runs, faults, beside, acked, forced>>

Disks == [plans : {MaxPlans}, sums : 0 .. MaxSums]
Free == [owner |-> {}, old |-> FALSE]
IdleProc == [pc |-> "idle", edit |-> NoEdit, out |-> Blank, prev |-> Blank, tries |-> 0]
Section == {"truncate", "fill", "release"}
Live == \E p \in lock.owner : proc[p].pc \in Section   \* its owner still writes

Running == {p \in Procs : proc[p].pc # "idle"}
MayFail == beside /\ faults < MaxFaults
To(p, pc) == proc' = [proc EXCEPT ![p].pc = pc]

Init == /\ file \in InitialContents
        /\ lock = Free
        /\ proc = [p \in Procs |-> IdleProc]
        /\ disk = [plans |-> MaxPlans, sums |-> 0]
        /\ runs = 0 /\ faults = 0
        /\ beside \in BOOLEAN
        /\ acked = {}
        /\ forced = FALSE

\* A command reads the file and computes what it will write; one that finds
\* nothing to change ends here.
Read(p) == /\ proc[p].pc = "idle"
           /\ runs < MaxRuns
           /\ beside \/ Running = {}
           /\ \E op \in IF beside THEN ParallelOps ELSE Ops :
              \E e \in EditsOf(op, file, disk) :
                 proc' = [proc EXCEPT ![p] = [IdleProc EXCEPT !.pc = "sync", !.edit = e]]
           /\ runs' = runs + 1
           /\ UNCHANGED <<file, lock, disk, faults, beside, acked, forced>>

\* The frontmatter is made from the edited body and the disk, before the lock.
Sync(p) == /\ proc[p].pc = "sync"
           /\ proc' = [proc EXCEPT ![p].pc = "lock",
                          ![p].out = SyncStateFrontmatter(proc[p].edit.c, disk)]
           /\ UNCHANGED <<file, lock, disk, runs, faults, beside, acked, forced>>

\* VARIANT, for the mutation runs: the lock file is opened without O_EXCL.
AcquireShared(p) == /\ proc[p].pc = "lock"
                    /\ lock' = [owner |-> {p}, old |-> FALSE]
                    /\ To(p, "truncate")
                    /\ UNCHANGED <<file, disk, runs, faults, beside, acked, forced>>

\* O_EXCL creates the lock file.
Acquire(p) == /\ proc[p].pc = "lock"
              /\ lock = Free
              /\ lock' = [owner |-> {p}, old |-> FALSE]
              /\ To(p, "truncate")
              /\ UNCHANGED <<file, disk, runs, faults, beside, acked, forced>>

\* VARIANT, for the mutation runs: a wait counts as no try.
RetryUncounted(p) == To(p, "lock")
Retry(p) == proc' = [proc EXCEPT ![p].pc = "lock", ![p].tries = @ + 1]
LastTry(p) == proc[p].tries = MaxTries - 1

\* EEXIST: a lock that looks stale is to be removed, the last try removes any.
Contend(p) == /\ proc[p].pc = "lock"
              /\ lock # Free
              /\ \/ lock.old /\ To(p, "reap")
                 \/ ~lock.old /\ LastTry(p) /\ To(p, "steal")
                 \/ ~lock.old /\ ~LastTry(p) /\ Retry(p)
              /\ UNCHANGED <<file, lock, disk, runs, faults, beside, acked, forced>>

\* VARIANT, for the mutation runs: removing a stale lock never ends the loop.
ReapUncounted(p) == /\ proc[p].pc = "reap"
                    /\ lock' = Free
                    /\ proc' = [proc EXCEPT ![p].pc = "lock", ![p].tries = @ + 1]
                    /\ forced' = (forced \/ Live)
                    /\ UNCHANGED <<file, disk, runs, faults, beside, acked>>

\* The unlink after the look at the age removes whatever lock is there by now.
\* The process tries again, or after the last try writes without a lock; one
\* that finds no lock to unlink waits for a try, or takes the last resort.
Reap(p) == /\ proc[p].pc = "reap"
           /\ lock' = Free
           /\ \/ ~LastTry(p) /\ Retry(p) /\ forced' = (forced \/ Live)
              \/ LastTry(p) /\ lock # Free /\ To(p, "truncate") /\ forced' = TRUE
              \/ LastTry(p) /\ lock = Free /\ To(p, "steal") /\ UNCHANGED forced
           /\ UNCHANGED <<file, disk, runs, faults, beside, acked>>

Steal(p) == /\ proc[p].pc = "steal"
            /\ lock' = Free
            /\ To(p, "truncate")
            /\ forced' = TRUE
            /\ UNCHANGED <<file, disk, runs, faults, beside, acked>>

\* VARIANT, for the mutation runs: the lock is given up before the text is out.
TruncateUnlocked(p) == /\ proc[p].pc = "truncate"
                       /\ file' = Blank /\ lock' = Free
                       /\ proc' = [proc EXCEPT ![p].pc = "fill", ![p].prev = file]
                       /\ UNCHANGED <<disk, runs, faults, beside, acked, forced>>

\* writeFileSync opens with O_TRUNC, and writes afterwards.
Truncate(p) == /\ proc[p].pc = "truncate"
               /\ file' = Blank
               /\ proc' = [proc EXCEPT ![p].pc = "fill", ![p].prev = file]
               /\ UNCHANGED <<lock, disk, runs, faults, beside, acked, forced>>

\* Over what another writer left, the end of the longer text may remain.
Fill(p) == /\ proc[p].pc = "fill"
           /\ \/ file' = proc[p].out
              \/ file # Blank /\ file' = [proc[p].out EXCEPT !.junk = TRUE]
           /\ proc' = [proc EXCEPT ![p].pc = "release", ![p].prev = Blank, ![p].out = Blank]
           /\ UNCHANGED <<lock, disk, runs, faults, beside, acked, forced>>

\* finally removes the lock file, whoever made it; then the outcome is reported.
Release(p) == /\ proc[p].pc = "release"
              /\ lock' = Free
              /\ proc' = [proc EXCEPT ![p] = IdleProc]
              /\ acked' = (acked \ proc[p].edit.drops) \cup proc[p].edit.adds
              /\ UNCHANGED <<file, disk, runs, faults, beside, forced>>

\* An agent finishes a plan, and its summary is on the disk.
WriteSummary == /\ disk.sums < MaxSums
                /\ disk' = [disk EXCEPT !.sums = @ + 1]
                /\ UNCHANGED <<file, lock, proc, runs, faults, beside, acked, forced>>

\* A killed process leaves its lock, and an empty file if it had truncated it.
Crash(p) == /\ proc[p].pc # "idle"
            /\ MayFail
            /\ proc' = [proc EXCEPT ![p] = IdleProc]
            /\ faults' = faults + 1
            /\ UNCHANGED <<file, lock, disk, runs, beside, acked, forced>>

\* A lock outlives 10 s: its owner is gone, or stopped for that long.
Age == /\ lock # Free /\ ~lock.old
       /\ Live => MayFail
       /\ lock' = [lock EXCEPT !.old = TRUE]
       /\ faults' = IF Live THEN faults + 1 ELSE faults
       /\ UNCHANGED <<file, proc, disk, runs, beside, acked, forced>>

\* Any other error of the open: the write goes on without the lock.
OpenError(p) == /\ proc[p].pc = "lock"
                /\ MayFail
                /\ To(p, "truncate")
                /\ faults' = faults + 1
                /\ forced' = TRUE
                /\ UNCHANGED <<file, lock, disk, runs, beside, acked>>

Run(p) == \/ Sync(p) \/ Acquire(p) \/ Contend(p) \/ Reap(p) \/ Steal(p)
          \/ Truncate(p) \/ Fill(p) \/ Release(p)

Next == \/ \E p \in Procs : Read(p) \/ Run(p) \/ Crash(p) \/ OpenError(p)
        \/ WriteSummary \/ Age

Spec == Init /\ [][Next]_vars
\* The operating system runs every process: each try of the lock is a step.
FairSpec == Spec /\ \A p \in Procs : WF_vars(Run(p))

----------------------------------------------------------------------------
(* Properties.                                                               *)

Pcs == {"idle", "sync", "lock", "reap", "steal"} \cup Section
LockOK == lock \in [owner : SUBSET Procs, old : BOOLEAN]
ProcOK == \A p \in Procs : /\ proc[p].pc \in Pcs
                           /\ proc[p].tries \in 0 .. MaxTries - 1
                           /\ ContentOK(proc[p].edit.c) /\ ContentOK(proc[p].out)

\* The lock, the processes, the counters and the text have their types.
TypeOK == /\ LockOK /\ ProcOK /\ ContentOK(file)
          /\ disk \in Disks
          /\ runs \in 0 .. MaxRuns /\ faults \in 0 .. MaxFaults
          /\ acked \subseteq Entries
          /\ beside \in BOOLEAN /\ forced \in BOOLEAN

\* One process at a time is between openSync and unlinkSync of the lock, until
\* one gives up waiting, fails to open, or removes a lock whose owner writes:
\* a lock left by a crash, and its removal, do not break it.
Exclusion == ~forced => \A p, q \in Procs :
                (proc[p].pc \in Section /\ proc[q].pc \in Section) => p = q

\* The text never mixes two writes while no lock was forced.
WholeFile == file.junk => forced

\* However commands interleave, no version counts a plan past the total: only
\* counts typed by hand may, until begin-phase writes them.
PlanWithinTotal == ~file.hand =>
    LET n == file.bold["Current Plan"]  t == file.bold["Total Plans in Phase"]
        pos == file.plain["Plan"]
    IN  /\ (n # Absent /\ t # Absent) => n[1] <= t[1]
        /\ Len(pos) = 2 => (pos[1] <= pos[2] \/ pos[2] = 0)

\* Current Position tells the plan the bold fields tell, between begin-phase
\* with a count and phase complete, unless one of them was typed by hand since:
\* state update and state patch write the field they are given, and no other.
PositionAgrees == ~file.hand =>
    LET n == file.bold["Current Plan"]  pos == file.plain["Plan"]
    IN  (n \notin {Absent, <<0>>} /\ Len(pos) = 2 /\ pos[2] # 0)
            => pos = n \o file.bold["Total Plans in Phase"]

\* state json and state-snapshot report one plan and one pause, and the status
\* of the first is what the status and the pause of the second come to, in
\* whatever layout and whatever was typed, as long as the text has a status.
ReadersAgree == file.sections =>
    LET json == StateJson(file, disk)  snapshot == StateSnapshot(file)
    IN  /\ json.Status = NormalizedStatus(snapshot.status, snapshot.paused)
        /\ json.plan = snapshot.plan /\ json.paused = snapshot.paused

\* Commands that run one after the other lose no entry they reported, and
\* bring none back.
SequentialIsExact == (~beside /\ Running = {})
                        => acked = file.log

\* Every command ends, so that each process is idle again and again: a lock
\* nobody removes holds it up for MaxTries tries.
EveryCommandEnds == \A p \in Procs : []<>(proc[p].pc = "idle")

\* The comment above writeStateMd: the lock prevents "parallel agents from
\* overwriting each other's changes".
NoLostEntry == (faults = 0 /\ Running = {}) => acked \subseteq file.log

(* The refinement of StateStore: the version a writer has truncated counts   *)
(* until it has written its own.                                             *)
AnyEdit(c) == UNION {{e.c : e \in Edits(c, d)} : d \in Disks}
AnySave(c) == {SyncStateFrontmatter(c, d) : d \in Disks}
Filling == {p \in Procs : proc[p].pc = "fill"}
Current == IF Filling = {} THEN file ELSE proc[CHOOSE p \in Filling : TRUE].prev
Pending == [p \in Procs |-> IF proc[p].pc = "idle" THEN {} ELSE {proc[p].edit.c}]
Store == INSTANCE StateStore WITH
             Versions <- InitialContents, Edits <- AnyEdit, Saves <- AnySave,
             file <- Current, pending <- Pending, trusted <- ~forced
\* STATE.md is an atomic store of whole versions until a lock is forced.
AtomicStore == Store!Spec
=============================================================================
