------------------------------ MODULE Settings ------------------------------
(* config.json, the health check and the todos, beside the workstreams.      *)
(* config.json is read, changed in memory and written back without a lock,   *)
(* by config-set, by the first commands of a project, by health --repair and *)
(* by every command that loads it while it has a deprecated key (depth, or   *)
(* multiRepo beside a sub-repository) or a list of sub-repositories the disk *)
(* has outgrown.  A write truncates and then fills.                          *)
EXTENDS Workstreams

CONSTANTS Keys,          \* settings a user chooses
          WorkflowKeys,  \* those that lie in the section workflow
          CommitDocs     \* planning.commit_docs

ASSUME SettingsAssumption ==
    /\ CommitDocs \in Keys /\ WorkflowKeys \subseteq Keys \ {CommitDocs}
    /\ {"config", "todo"} \cap (Names \cup {None}) = {}

VARIABLES config,         \* what config.json holds
          repos,          \* generation of the sub-repositories on the disk
          acked,          \* value config-set last reported for each key, while it is to stay
          pending, done   \* a todo in todos/pending, and its copy in todos/completed
store == <<config, repos, acked, pending, done>>

Absent == -1
\* A value is known by the command that chose it; 0 is a default.
Values == Absent .. MaxOps
Missing == NoBuffer
Torn == [kind |-> "torn"]
\* Deprecated: depth, and multi, which stands for multiRepo without a list of repositories.
Json(depth, multi, r, workflow, nyquist, val) ==
    [kind |-> "json", depth |-> depth, multi |-> multi, repos |-> r, workflow |-> workflow,
     nyquist |-> nyquist, val |-> val]
Configs == {Missing, Torn} \cup
    {Json(d, m, r, w, n, v) : d \in BOOLEAN, m \in BOOLEAN, r \in 0 .. 1, w \in BOOLEAN,
                              n \in BOOLEAN, v \in [Keys -> Values]}
IsJson == config.kind = "json"
\* VARIANT, for the mutation runs: the defaults lack workflow.nyquist_validation.
DefaultsWithoutNyquist == Json(FALSE, FALSE, 1, TRUE, FALSE, [k \in Keys |-> 0])

\* What writes config.json with defaults records no sub-repositories, hence none outgrown.
Defaults == Json(FALSE, FALSE, 1, TRUE, TRUE, [k \in Keys |-> 0])
Empty == Json(FALSE, FALSE, 1, FALSE, FALSE, [k \in Keys |-> Absent])
\* A key under workflow. brings the section with it.
WithKey(c, k, v) == [c EXCEPT !.val[k] = v, !.workflow = @ \/ k \in WorkflowKeys]

\* A process works on "config" from what it read of it until it has written it back.
ToWrite(r, c, after) ==
    [r EXCEPT !.pc = "trunc", !.on = @ \cup {"config"}, !.buf = c, !.after = after]
\* loadConfig goes on with what it has in memory.
Written(r) ==
    IF r.after = "sync" THEN [r EXCEPT !.pc = "sync", !.after = "idle"]
    ELSE [r EXCEPT !.on = @ \ {"config"}, !.buf = NoBuffer, !.pc = r.after, !.after = "idle"]
Continue(p, r) == Go(p, r) /\ Contest(p, r.on)

-----------------------------------------------------------------------------
\* The content is computed from what was read; it is written in two steps.
Truncate(p) ==
    /\ proc[p].pc = "trunc"
    /\ config' = Torn
    /\ Go(p, [proc[p] EXCEPT !.pc = "fill"])
    /\ UNCHANGED <<tree, made, ops, faults, excused, repos, acked, pending, done>>

\* Where another has filled the file since, the longer of the two may show through.
Fill(p) ==
    LET r == proc[p]
    IN /\ r.pc = "fill"
       /\ config' \in IF IsJson THEN {r.buf, Torn} ELSE {r.buf}
       /\ acked' = [k \in Keys |-> IF r.buf.val[k] = r.id THEN r.id ELSE acked[k]]
       /\ Go(p, IF r.after = "idle" THEN Idle ELSE Written(r))
       /\ UNCHANGED <<tree, made, ops, faults, excused, repos, pending, done>>

\* config-ensure-section, and config-new-project with a choice of its user.
EnsureConfig(p, c) ==
    /\ config = Missing
    /\ Begin(p, ToWrite(Idle, c, "idle"))
    /\ UNCHANGED <<tree, made, store>>

NewProject(p) ==
    \/ EnsureConfig(p, Defaults)
    \/ \E k \in Keys : EnsureConfig(p, WithKey(Defaults, k, ops + 1))

\* VARIANT, for the mutation runs: ensureConfigFile does not look for a file first.
BeginSetAfresh(p, k, ensure) ==
    LET job == [Idle EXCEPT !.name = k, !.pc = "read"]
    IN /\ Begin(p, IF ensure THEN ToWrite(job, Defaults, "read") ELSE job)
       /\ UNCHANGED <<tree, made, store>>

\* config-set; config-set-model-profile first makes sure there is a file.
BeginSet(p, k, ensure) ==
    LET create == ensure /\ config = Missing
        job == [Idle EXCEPT !.name = k, !.pc = "read"]
    IN /\ Begin(p, IF create THEN ToWrite(job, Defaults, "read") ELSE job)
       /\ UNCHANGED <<tree, made, store>>

\* setConfigValue stops at a file it cannot parse.
SetValue(p) ==
    LET r == proc[p]
        c == IF config = Missing THEN Empty ELSE config
    IN /\ r.pc = "read"
       /\ Continue(p, IF config = Torn THEN Idle
                       ELSE ToWrite(r, WithKey(c, r.name, r.id), "idle"))
       /\ UNCHANGED <<tree, made, ops, faults, store>>

\* multiRepo becomes a list once there is a sub-repository, and planning.commit_docs false,
\* whatever it was: from then on nothing that was reported of it has to stay.
Migrates(c) == c.multi /\ repos = 1
UpToDate(c) == IF Migrates(c) THEN [c EXCEPT !.multi = FALSE, !.repos = 1, !.val[CommitDocs] = 0]
               ELSE IF ~c.multi /\ c.repos < repos THEN [c EXCEPT !.repos = repos]
               ELSE c
Forget(c) == acked' = IF Migrates(c) THEN [acked EXCEPT ![CommitDocs] = Absent] ELSE acked

\* loadConfig, which any command may call, writes only what it has to bring up to date.
LoadConfig(p) ==
    /\ IsJson
    /\ \/ /\ config.depth /\ Begin(p, ToWrite(Idle, [config EXCEPT !.depth = FALSE], "sync"))
          /\ UNCHANGED acked
       \/ /\ ~config.depth /\ UpToDate(config) # config
          /\ Begin(p, ToWrite(Idle, UpToDate(config), "idle"))
          /\ Forget(config)
    /\ UNCHANGED <<tree, made, config, repos, pending, done>>

\* After the first write it looks for sub-repositories and may write once more.
SyncRepos(p) ==
    LET r == proc[p]
    IN /\ r.pc = "sync"
       /\ Go(p, IF UpToDate(r.buf) # r.buf THEN ToWrite(r, UpToDate(r.buf), "idle") ELSE Idle)
       /\ Forget(r.buf)
       /\ UNCHANGED <<tree, made, ops, faults, excused, config, repos, pending, done>>

\* A sub-repository is cloned, the first of a project with multiRepo or one that the list
\* in the configuration lacks; MaxFaults bounds this event of the environment with the others.
RepoAppears ==
    /\ repos = 0 /\ repos' = 1 /\ Fault
    /\ UNCHANGED <<tree, made, proc, ops, excused, config, acked, pending, done>>

-----------------------------------------------------------------------------
Repairable(n) ==
    {x \in {"regenerateState", "writeConfig", "addNyquistKey"} :
       \/ x = "regenerateState" /\ ~Has(Dir(n), "STATE")
       \/ x = "writeConfig" /\ ~IsJson
       \/ x = "addNyquistKey" /\ IsJson /\ config.workflow /\ ~config.nyquist}

\* health --repair in the directory of a workstream or, with none, at the root.
BeginHealth(p, n) ==
    /\ n = None \/ n \in live
    /\ Begin(p, [Idle EXCEPT !.pc = "repair", !.name = n,
                             !.left = Repairable(n), !.seen = Repairable(n),
                             !.on = {n} \cup IF Repairable(n) \subseteq {"regenerateState"}
                                              THEN {} ELSE {"config"}])
    /\ UNCHANGED <<tree, made, store>>

Repaired(r, x) == [r EXCEPT !.left = @ \ {x}]

Backup(e) == [item |-> "BACKUP", by |-> e.by]
\* A STATE.md that has appeared since the check is copied before it is overwritten.
BackupState(p) ==
    LET r == proc[p]
        copy == {Backup(e) : e \in Of(Dir(r.name), "STATE")}
    IN /\ r.pc = "repair" /\ "regenerateState" \in r.left
       /\ root' = IF r.name = None THEN root \cup copy ELSE root
       /\ ws' = IF r.name = None THEN ws ELSE [ws EXCEPT ![r.name] = @ \cup copy]
       /\ Go(p, [Repaired(r, "regenerateState") EXCEPT !.pc = "regenerate"])
       /\ UNCHANGED <<live, wsRoot, archive, shelves, active, made, ops, faults, excused, store>>

\* writeStateMd fails in a directory that is gone, and the repair goes on.
RegenerateState(p) ==
    LET r == proc[p]
        e == [item |-> "STATE", by |-> r.id]
        there == r.name = None \/ r.name \in live
    IN /\ r.pc = "regenerate"
       /\ root' = IF r.name = None THEN Put(root, {e}) ELSE root
       /\ ws' = IF r.name \in live THEN [ws EXCEPT ![r.name] = Put(@, {e})] ELSE ws
       /\ made' = IF there THEN made \cup {e} ELSE made
       /\ Go(p, [r EXCEPT !.pc = "repair"])
       /\ UNCHANGED <<live, wsRoot, archive, shelves, active, ops, faults, excused, store>>

\* createConfig and resetConfig write the same file.
ResetConfig(p) ==
    LET r == proc[p]
    IN /\ r.pc = "repair" /\ "regenerateState" \notin r.left /\ "writeConfig" \in r.left
       /\ Continue(p, ToWrite(Repaired(r, "writeConfig"), Defaults, "repair"))
       /\ UNCHANGED <<tree, made, ops, faults, store>>

\* The file is read again; one that cannot be parsed fails this repair alone.
AddNyquistKey(p) ==
    LET r == Repaired(proc[p], "addNyquistKey")
    IN /\ proc[p].pc = "repair" /\ proc[p].left = {"addNyquistKey"}
       /\ Continue(p, IF IsJson /\ ~config.nyquist
                         THEN ToWrite(r, [config EXCEPT !.workflow = TRUE, !.nyquist = TRUE], "repair")
                         ELSE r)
       /\ UNCHANGED <<tree, made, ops, faults, store>>

EndHealth(p) ==
    /\ proc[p].pc = "repair" /\ proc[p].left = {}
    /\ Go(p, Idle)
    /\ UNCHANGED <<tree, made, ops, faults, excused, store>>

-----------------------------------------------------------------------------
\* todo complete reads the todo, writes its dated copy and then removes it.
BeginTodo(p) ==
    /\ pending
    /\ Begin(p, [Idle EXCEPT !.pc = "todoTrunc", !.on = {"todo"}])
    /\ UNCHANGED <<tree, made, store>>

\* VARIANT, for the mutation runs: the todo is removed before its copy is written.
TodoStepRemoveFirst(p) ==
    LET r == proc[p]
    IN /\ \/ r.pc = "todoTrunc" /\ pending' = FALSE /\ Go(p, [r EXCEPT !.pc = "todoFill"])
             /\ UNCHANGED done
          \/ r.pc = "todoFill" /\ done' = "whole" /\ Go(p, Idle) /\ UNCHANGED pending
       /\ UNCHANGED <<tree, made, ops, faults, excused, config, repos, acked>>

TodoStep(p) ==
    LET r == proc[p]
    IN /\ \/ r.pc = "todoTrunc" /\ done' = "torn" /\ Go(p, [r EXCEPT !.pc = "todoFill"])
             /\ UNCHANGED pending
          \/ r.pc = "todoFill" /\ done' = "whole" /\ Go(p, [r EXCEPT !.pc = "unlink"])
             /\ UNCHANGED pending
          \/ r.pc = "unlink" /\ pending' = FALSE /\ Go(p, Idle) /\ UNCHANGED done
       /\ UNCHANGED <<tree, made, ops, faults, excused, config, repos, acked>>

-----------------------------------------------------------------------------
\* A project without settings, or with those of before granularity replaced depth, and a
\* list of sub-repositories or multiRepo in its place.
SettingsInit ==
    /\ config \in {Missing} \cup
         {Json(TRUE, multi, 0, TRUE, FALSE, [k \in Keys |-> 0]) : multi \in BOOLEAN}
    /\ repos = 0
    /\ acked = [k \in Keys |-> Absent]
    /\ pending = TRUE /\ done = "none"

SettingsStep(p) ==
    \/ Truncate(p) \/ Fill(p) \/ NewProject(p) \/ SetValue(p) \/ LoadConfig(p) \/ SyncRepos(p)
    \/ \E k \in Keys, ensure \in BOOLEAN : BeginSet(p, k, ensure)
    \/ \E n \in Names \cup {None} : BeginHealth(p, n)
    \/ BackupState(p) \/ RegenerateState(p) \/ ResetConfig(p) \/ AddNyquistKey(p) \/ EndHealth(p)
    \/ BeginTodo(p) \/ TodoStep(p)
=============================================================================
