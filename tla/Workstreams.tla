----------------------------- MODULE Workstreams -----------------------------
(* The workstream commands of the planning tools (workstream.cjs): several   *)
(* processes create, complete and select workstreams by moving directory     *)
(* entries between .planning/, .planning/workstreams/<name>/ and an archive  *)
(* under .planning/milestones/.  Each step is one change of the file system. *)
(* An entry is known by its name and by the command that wrote it (0 for     *)
(* what the project started with); what is in a file is left out.            *)
EXTENDS Integers, Sequences, FiniteSets

CONSTANTS Names,      \* names of workstreams
          None,       \* no workstream: the project is flat, its files at the root
          Projects,   \* planning entries a project may start with
          Procs,      \* processes of gsd-tools running beside each other
          MaxShelf,   \* archives of one name and one day, beyond the first
          MaxOps,     \* bound on the commands started
          MaxFaults   \* bound on failed operations, crashes and new sub-repositories

VARIABLES root,      \* planning entries directly under .planning/
          ws,        \* entries of the directory of each workstream
          live,      \* workstreams whose directory exists
          wsRoot,    \* .planning/workstreams/ exists
          archive,   \* entries of each archive directory
          shelves,   \* archive directories that exist
          active,    \* what .planning/active-workstream says
          made,      \* every entry with a content that was ever written
          proc,      \* what each process has still to do
          ops, faults,
          excused    \* what was contested, cut short or left behind, which the promises do not cover
tree == <<root, ws, live, wsRoot, archive, shelves, active>>

ToMove == <<"ROADMAP", "STATE", "REQUIREMENTS", "phases">>
Items == {ToMove[i] : i \in DOMAIN ToMove} \cup {"BACKUP"}
ASSUME WorkstreamsAssumption ==
    /\ None \notin Names
    /\ Projects \subseteq SUBSET (Items \ {"BACKUP"})
    /\ MaxShelf \in Nat /\ MaxOps \in Nat /\ MaxFaults \in Nat

Entries == [item : Items, by : 0 .. MaxOps]
Shelves == Names \X (0 .. MaxShelf)

Of(dir, i) == {e \in dir : e.item = i}
Has(dir, i) == Of(dir, i) # {}
Put(dir, es) == {e \in dir : \A f \in es : e.item # f.item} \cup es
ItemsOf(dir) == {e.item : e \in dir}
Dir(n) == IF n = None THEN root ELSE ws[n]

\* getActiveWorkstream: a name whose directory is gone is no workstream.
ActiveWorkstream == IF active \in live THEN active ELSE None

NoBuffer == [kind |-> "missing"]
\* A process: the step it is at, its command, and on, what that command works on.
Idle == [pc |-> "idle", id |-> 0, on |-> {}, name |-> None, to |-> None, shelf |-> 0,
         left |-> {}, moved |-> {}, was |-> FALSE, seen |-> {}, after |-> "idle", buf |-> NoBuffer]

Others(p) == {q \in Procs : q # p}
Fault == faults < MaxFaults /\ faults' = faults + 1
\* What two commands work on at the same time is contested from then on.
Contest(p, on) == excused' = excused \cup UNION {proc[q].on \cap on : q \in Others(p)}
Begin(p, job) ==
    /\ proc[p].pc = "idle" /\ ops < MaxOps
    /\ ops' = ops + 1
    /\ proc' = [proc EXCEPT ![p] = [job EXCEPT !.id = ops']]
    /\ Contest(p, job.on)
    /\ UNCHANGED faults
Go(p, r) == proc' = [proc EXCEPT ![p] = r]

-----------------------------------------------------------------------------
HasWork == \E i \in {"ROADMAP", "STATE", "phases"} : Has(root, i)

\* workstream create n: to is where a flat project is migrated to, None with --no-migrate.
BeginCreate(p, n, to) ==
    LET flat == ~wsRoot /\ to # None
        migrate == flat /\ HasWork
    IN /\ ~Has(ws[n], "STATE")
       /\ wsRoot' = (wsRoot \/ (flat /\ ~migrate))
       /\ Begin(p, [Idle EXCEPT !.pc = IF migrate THEN "guard" ELSE "dirs",
                                !.on = IF migrate THEN {n, to, None} ELSE {n},
                                !.name = n, !.to = IF migrate THEN to ELSE None])
       /\ UNCHANGED <<root, ws, live, archive, shelves, active, made>>

\* migrateToWorkstreams refuses when another process has begun workstreams.
Guard(p) ==
    /\ proc[p].pc = "guard"
    /\ Go(p, IF wsRoot THEN Idle ELSE [proc[p] EXCEPT !.pc = "mkdir"])
    /\ UNCHANGED <<tree, made, ops, faults, excused>>

MkdirTarget(p) ==
    /\ proc[p].pc = "mkdir"
    /\ wsRoot' = TRUE /\ live' = live \cup {proc[p].to}
    /\ Go(p, [proc[p] EXCEPT !.pc = "move", !.seen = root,
                             !.left = {ToMove[i] : i \in DOMAIN ToMove}])
    /\ UNCHANGED <<root, ws, archive, shelves, active, made, ops, faults, excused>>

\* The items of ToMove that come first among those in is.
First(is) == ToMove[CHOOSE i \in DOMAIN ToMove :
                      ToMove[i] \in is /\ \A j \in 1 .. i - 1 : ToMove[j] \notin is]

Move(p) ==
    LET r == proc[p]
        i == First(r.left)
    IN /\ r.pc = "move"
       /\ Has(root, i) => r.to \in live
       /\ root' = root \ Of(root, i)
       /\ ws' = [ws EXCEPT ![r.to] = Put(@, Of(root, i))]
       /\ Go(p, [r EXCEPT !.left = @ \ {i}, !.moved = IF Has(root, i) THEN @ \cup {i} ELSE @,
                          !.pc = IF r.left = {i} THEN "dirs" ELSE "move"])
       /\ UNCHANGED <<live, wsRoot, archive, shelves, active, made, ops, faults, excused>>

\* VARIANT, for the mutation runs: the list of the files moved is not kept for the rollback.
MoveFailsForgetful(p) ==
    /\ proc[p].pc = "move" /\ Fault
    /\ Go(p, [proc[p] EXCEPT !.pc = "undo", !.moved = {}])
    /\ UNCHANGED <<tree, made, ops, excused>>

\* VARIANT, for the mutation runs: a migration that fails stops where it is.
MoveFailsStops(p) ==
    /\ proc[p].pc = "move" /\ Fault
    /\ Go(p, Idle)
    /\ UNCHANGED <<tree, made, ops, excused>>

MoveFails(p) ==
    /\ proc[p].pc = "move"
    /\ \/ Fault
       \/ proc[p].to \notin live /\ UNCHANGED faults
    /\ Go(p, [proc[p] EXCEPT !.pc = "undo"])
    /\ UNCHANGED <<tree, made, ops, excused>>

Undo(p) ==
    LET r == proc[p]
        i == First(r.moved)
        es == Of(ws[r.to], i)
    IN /\ r.pc = "undo" /\ r.moved # {}
       /\ root' = Put(root, es)
       /\ ws' = [ws EXCEPT ![r.to] = @ \ es]
       /\ Go(p, [r EXCEPT !.moved = @ \ {i}])
       /\ UNCHANGED <<live, wsRoot, archive, shelves, active, made, ops, faults, excused>>

\* A rename of the rollback that fails is passed over.
PassOver(p) ==
    /\ proc[p].pc \in {"undo", "back"} /\ proc[p].moved # {}
    /\ Fault
    /\ \E i \in proc[p].moved : Go(p, [proc[p] EXCEPT !.moved = @ \ {i}])
    /\ excused' = excused \cup {"rollback"}
    /\ UNCHANGED <<tree, made, ops>>

\* The rollback ends by removing the new directory with whatever is in it, and then
\* .planning/workstreams/ as RmRoot does.
Clean(p) ==
    LET r == proc[p]
    IN /\ r.pc = "undo" /\ r.moved = {}
       /\ ws' = [ws EXCEPT ![r.to] = {}]
       /\ live' = live \ {r.to}
       /\ Go(p, [r EXCEPT !.pc = "clean"])
       /\ UNCHANGED <<root, wsRoot, archive, shelves, active, made, ops, faults, excused>>

MakeDirs(p) ==
    LET r == proc[p]
    IN /\ r.pc = "dirs"
       /\ wsRoot' = TRUE /\ live' = live \cup {r.name}
       /\ ws' = IF Has(ws[r.name], "phases") THEN ws
                ELSE [ws EXCEPT ![r.name] = @ \cup {[item |-> "phases", by |-> r.id]}]
       /\ Go(p, [r EXCEPT !.pc = "state"])
       /\ UNCHANGED <<root, archive, shelves, active, made, ops, faults, excused>>

WriteState(p) ==
    LET r == proc[p]
        e == [item |-> "STATE", by |-> r.id]
        new == r.name \in live /\ ~Has(ws[r.name], "STATE")
    IN /\ r.pc = "state"
       /\ ws' = IF new THEN [ws EXCEPT ![r.name] = @ \cup {e}] ELSE ws
       /\ made' = IF new THEN made \cup {e} ELSE made
       /\ Go(p, IF r.name \in live THEN [r EXCEPT !.pc = "activate"] ELSE Idle)
       /\ UNCHANGED <<root, live, wsRoot, archive, shelves, active, ops, faults, excused>>

Activate(p) ==
    /\ proc[p].pc = "activate"
    /\ active' = proc[p].name
    /\ Go(p, Idle)
    /\ UNCHANGED <<root, ws, live, wsRoot, archive, shelves, made, ops, faults, excused>>

-----------------------------------------------------------------------------
BeginComplete(p, n) ==
    /\ n \in live
    /\ active' = IF ActiveWorkstream = n THEN None ELSE active
    /\ Begin(p, [Idle EXCEPT !.pc = "shelve", !.on = {n}, !.name = n,
                             !.was = (ActiveWorkstream = n)])
    /\ UNCHANGED <<root, ws, live, wsRoot, archive, shelves, made>>

\* The first archive name not taken, and the entries there are to move.
MakeShelf(p) ==
    LET r == proc[p]
    IN /\ r.pc = "shelve"
       /\ \E k \in 0 .. MaxShelf :
            /\ <<r.name, k>> \notin shelves
            /\ \A j \in 0 .. k - 1 : <<r.name, j>> \in shelves
            /\ shelves' = shelves \cup {<<r.name, k>>}
            /\ Go(p, [r EXCEPT !.shelf = k, !.seen = ws[r.name], !.left = ItemsOf(ws[r.name]),
                               !.pc = IF ws[r.name] = {} THEN "rmdir" ELSE "out"])
       /\ UNCHANGED <<root, ws, live, wsRoot, archive, active, made, ops, faults, excused>>

Out(p) ==
    LET r == proc[p]
        s == <<r.name, r.shelf>>
    IN /\ r.pc = "out"
       /\ \E i \in r.left :
            LET es == Of(ws[r.name], i)
            IN /\ es # {}
               /\ ws' = [ws EXCEPT ![r.name] = @ \ es]
               /\ archive' = [archive EXCEPT ![s] = Put(@, es)]
               /\ Go(p, [r EXCEPT !.left = @ \ {i}, !.moved = @ \cup {i},
                                  !.pc = IF r.left = {i} THEN "rmdir" ELSE "out"])
       /\ UNCHANGED <<root, live, wsRoot, shelves, active, made, ops, faults, excused>>

OutFails(p) ==
    LET r == proc[p]
    IN /\ r.pc = "out"
       /\ \/ Fault
          \/ (\E i \in r.left : ~Has(ws[r.name], i)) /\ UNCHANGED faults
       /\ Go(p, [r EXCEPT !.pc = "back"])
       /\ UNCHANGED <<tree, made, ops, excused>>

Back(p) ==
    LET r == proc[p]
        s == <<r.name, r.shelf>>
        i == CHOOSE j \in r.moved : TRUE
        es == IF r.name \in live THEN Of(archive[s], i) ELSE {}
    IN /\ r.pc = "back" /\ r.moved # {}
       /\ ws' = [ws EXCEPT ![r.name] = Put(@, es)]
       /\ archive' = [archive EXCEPT ![s] = @ \ es]
       /\ Go(p, [r EXCEPT !.moved = @ \ {i}])
       /\ UNCHANGED <<root, live, wsRoot, shelves, active, made, ops, faults, excused>>

\* VARIANT, for the mutation runs: the workstream stays deselected.
DropShelfDeselected(p) ==
    LET r == proc[p]
        s == <<r.name, r.shelf>>
    IN /\ r.pc = "back" /\ r.moved = {}
       /\ archive' = [archive EXCEPT ![s] = {}]
       /\ shelves' = shelves \ {s}
       /\ Go(p, Idle)
       /\ UNCHANGED <<root, ws, live, wsRoot, active, made, ops, faults, excused>>

DropShelf(p) ==
    LET r == proc[p]
        s == <<r.name, r.shelf>>
    IN /\ r.pc = "back" /\ r.moved = {}
       /\ archive' = [archive EXCEPT ![s] = {}]
       /\ shelves' = shelves \ {s}
       /\ active' = IF r.was THEN r.name ELSE active
       /\ Go(p, Idle)
       /\ UNCHANGED <<root, ws, live, wsRoot, made, ops, faults, excused>>

\* VARIANT, for the mutation runs: the directory is removed from the list, empty or not.
RmdirAnyway(p) ==
    /\ proc[p].pc = "rmdir"
    /\ live' = live \ {proc[p].name}
    /\ Go(p, [proc[p] EXCEPT !.pc = "rmroot"])
    /\ UNCHANGED <<root, ws, wsRoot, archive, shelves, active, made, ops, faults, excused>>

Rmdir(p) ==
    LET r == proc[p]
    IN /\ r.pc = "rmdir"
       /\ live' = IF ws[r.name] = {} THEN live \ {r.name} ELSE live
       /\ Go(p, [r EXCEPT !.pc = "rmroot"])
       /\ UNCHANGED <<root, ws, wsRoot, archive, shelves, active, made, ops, faults, excused>>

\* The project is flat again when no workstream is left.
RmRoot(p) ==
    /\ proc[p].pc \in {"clean", "rmroot"}
    /\ wsRoot' = (live # {})
    /\ Go(p, Idle)
    /\ UNCHANGED <<root, ws, live, archive, shelves, active, made, ops, faults, excused>>

\* A directory that cannot be removed is left where it is: the error is swallowed, and the
\* command goes on as if it were gone.
RemovalFails(p) ==
    LET r == proc[p]
    IN /\ r.pc \in {"rmdir", "clean", "rmroot"} \/ (r.pc \in {"undo", "back"} /\ r.moved = {})
       /\ Fault
       /\ active' = IF r.pc = "back" /\ r.was THEN r.name ELSE active
       /\ Go(p, CASE r.pc = "undo" -> [r EXCEPT !.pc = "clean"]
                  [] r.pc = "rmdir" -> [r EXCEPT !.pc = "rmroot"]
                  [] OTHER -> Idle)
       /\ excused' = excused \cup {"removal"}
       /\ UNCHANGED <<root, ws, live, wsRoot, archive, shelves, made, ops>>

SetActive(p, n) ==
    /\ n \in live \cup {None}
    /\ proc[p].pc = "idle" /\ ops < MaxOps
    /\ active' = n
    /\ ops' = ops + 1
    /\ UNCHANGED <<root, ws, live, wsRoot, archive, shelves, made, proc, faults, excused>>

-----------------------------------------------------------------------------
WorkstreamInit ==
    /\ \E s \in Projects : root = {[item |-> i, by |-> 0] : i \in s}
    /\ ws = [n \in Names |-> {}]
    /\ live = {}
    /\ wsRoot = FALSE
    /\ archive = [s \in Shelves |-> {}]
    /\ shelves = {}
    /\ active = None
    /\ made = root
    /\ proc = [p \in Procs |-> Idle]
    /\ ops = 0 /\ faults = 0 /\ excused = {}

WorkstreamStep(p) ==
    \/ \E n \in Names, to \in Names \cup {None} : BeginCreate(p, n, to)
    \/ Guard(p) \/ MkdirTarget(p) \/ Move(p) \/ MoveFails(p) \/ Undo(p) \/ PassOver(p) \/ Clean(p)
    \/ MakeDirs(p) \/ WriteState(p) \/ Activate(p)
    \/ \E n \in Names : BeginComplete(p, n)
    \/ MakeShelf(p) \/ Out(p) \/ OutFails(p) \/ Back(p) \/ DropShelf(p) \/ Rmdir(p) \/ RmRoot(p)
    \/ RemovalFails(p)
    \/ \E n \in Names \cup {None} : SetActive(p, n)
=============================================================================
